------------------------- MODULE SessionAloneProofs -------------------------
(***************************************************************************)
(* What holds of a session that has its use case for itself, for any       *)
(* durations and reservations.  The use case is always where its stage     *)
(* thread has got to, so that no stage is refused, COMPLETED is true and a *)
(* stage given up is not taken for one that has ended.  And when no thread *)
(* is late every stage ends within its part of the reservation, so that    *)
(* the maximal duration is enough.                                         *)
(***************************************************************************)
EXTENDS SessionProofs

Alone == \A s, t \in Sessions : s = t

\* A use case at rest after a stage, "none" before the first.
Rests(u, last) ==
  /\ last = "none" => u.current_stage = "NEW" /\ u.current_completion = "COMPLETED"
                      /\ u.current_work_iter = 0
  /\ last = "INIT" => u.current_stage = "INITIALIZED" /\ u.current_completion = "COMPLETED"
                      /\ u.current_work_iter = 0
  /\ last = "WITER" =>
       \/ /\ u.current_stage = "WORKING" /\ u.current_completion = "TO_BE_CONTINUED"
          /\ 1 <= u.current_work_iter /\ u.current_work_iter < u.nb_iterations
       \/ /\ u.current_stage = "WORKED" /\ u.current_completion = "COMPLETED"
          /\ u.current_work_iter = Iterations(u)
  /\ last = "FINISH" => u.current_stage = "FINISHED" /\ u.current_completion = "COMPLETED"
                        /\ u.current_work_iter = Iterations(u)

\* A use case that lets a stage in.
Opens(u, t) ==
  /\ t = "INIT" => Rests(u, "none")
  /\ t = "WITER" => Rests(u, "INIT") \/ (Rests(u, "WITER") /\ u.current_stage = "WORKING")
  /\ t = "FINISH" => Rests(u, "WITER") /\ u.current_stage = "WORKED"

\* A use case inside a stage, between the stores of enter_stage and after them.
Enters(u, t) ==
  /\ u.current_stage = StageOf[t] /\ u.current_completion \in {"COMPLETED", "TO_BE_CONTINUED"}
  /\ t = "INIT" => u.current_work_iter = 0
  /\ t = "WITER" => u.current_work_iter + 1 \in 1 .. Iterations(u)
  /\ t = "FINISH" => u.current_work_iter = Iterations(u)
Stays(u, t) ==
  /\ u.current_stage = StageOf[t] /\ u.current_completion = "TO_BE_CONTINUED"
  /\ t = "INIT" => u.current_work_iter = 0
  /\ t = "WITER" => u.current_work_iter \in 1 .. Iterations(u)
  /\ t = "FINISH" => u.current_work_iter = Iterations(u)

\* A use case with another completion.
Answering(u, c) == [u EXCEPT !.current_completion = c]

\* The use case is where the stage thread has got to.
StageThreadInv(s) ==
  /\ thread[s] # "refuse"
  /\ thread[s] = "none" => Rests(uc, "none")
  /\ thread[s] \in {"enter", "mark"} => Opens(uc, typ[s])
  /\ thread[s] = "fill" => Enters(uc, typ[s])
  /\ thread[s] \in {"sleep", "dead", "quit", "markquit"} => Stays(uc, typ[s])
  /\ thread[s] = "markquit" => goal[s] = QuitTo(uc)
  /\ thread[s] = "fillquit" =>
       /\ Rests(Answering(uc, goal[s][2]), typ[s])
       /\ uc.current_stage # "NEW" /\ uc.current_completion = "TO_BE_CONTINUED"
  /\ thread[s] \in {"answer", "exit", "stray"} => Rests(uc, typ[s])

\* start() knows the completion of the use case, unless it has given the stage up.
KnownInv(s) ==
  /\ promise[s] \in Completion => promise[s] = uc.current_completion
  /\ pc[s] \notin {"wait", "cancel"} /\ thread[s] = "exit" /\ complet[s] # "TIMEOUT" =>
       complet[s] = uc.current_completion
  /\ pc[s] = "launch" =>
       Asks(test[s], complet[s]) /\ (test[s] = "WITER" => StageOfSession(s) # "WITER")
  /\ pc[s] = "over" => complet[s] = "TIMEOUT" \/ thread[s] \in {"none", "exit"}
  /\ state[s] = "COMPLETED" =>
       thread[s] # "none" /\ (complet[s] = "TIMEOUT" \/ thread[s] = "exit")

AloneInv == TimeInv /\ \A s \in Sessions : StageThreadInv(s) /\ KnownInv(s)

\* What the stages may take of the reservation: one second less than their maximum,
\* and the work stage one second for each iteration.
Least(d) == IF d > 0 THEN d - 1 ELSE 0
InitTime == Least(uc.init_duration_max)
Begun(t) == CASE t = "INIT"   -> 0
              [] t = "WITER"  -> InitTime + uc.current_work_iter
              [] t = "FINISH" -> InitTime + Iterations(uc)
Spent(t) == CASE t = "INIT"   -> InitTime
              [] t = "WITER"  -> InitTime + uc.current_work_iter
              [] t = "FINISH" -> InitTime + Iterations(uc) + Least(uc.finish_duration_max)

\* A stage ends when it should.
Timely(s) ==
  /\ thread[s] \notin {"dead", "stray"}
  /\ thread[s] = "none" => now <= TBegin(s)
  /\ thread[s] \in {"enter", "mark", "fill"} => now <= TBegin(s) + Begun(typ[s])
  /\ thread[s] = "sleep" => now <= wake[s] /\ wake[s] <= TBegin(s) + Spent(typ[s])
  /\ thread[s] \in {"quit", "markquit", "fillquit", "answer", "exit"} =>
       now <= TBegin(s) + Spent(typ[s])

\* A thread that is waited for has not been given up, and answers when it ends.
AwaitedInv(s) ==
  /\ cancel[s] => complet[s] = "TIMEOUT"
  /\ pc[s] = "wait" => (promise[s] = "empty" <=> thread[s] # "exit")
  /\ pc[s] = "wait" => thread[s] \notin {"none", "dead", "stray"} /\ ~cancel[s]

\* The constructor has compared the durations.
FitInv(s) ==
  /\ uc.nb_iterations = uc.work_duration_max - 1
  /\ state[s] \notin {"none", "ERROR"} => TEnd(s) - TBegin(s) >= DurationMax(uc)

\* A session that is not stopped nor slowed down, while no thread is late.
OnCourse(s) ==
  /\ Prompt /\ uc.work_duration_max >= 2 /\ ~uc.work_slowly
  /\ ~stop_requested[s] /\ asked[s] <= TBegin(s)
  /\ state[s] \notin {"none", "ERROR"} /\ pc[s] # "out"

\* It goes through all its stages, in time.
CourseInv(s) ==
  OnCourse(s) =>
    /\ pc[s] \notin {"cancel", "verdict"} /\ complet[s] # "TIMEOUT"
    /\ pc[s] = "sleep" => now <= TBegin(s)
    /\ Inside(s) => Timely(s)
    /\ pc[s] = "test" =>
         <<test[s], StageOfSession(s)>> \in
           {<<"INIT", "none">>, <<"WITER", "INIT">>, <<"LOOP", "WITER">>, <<"FINISH", "WITER">>}
    /\ pc[s] = "test" /\ test[s] = "FINISH" => complet[s] # "TO_BE_CONTINUED"
    /\ pc[s] = "over" => state[s] = "COMPLETED"

PaceInv == AloneInv /\ \A s \in Sessions : AwaitedInv(s) /\ FitInv(s) /\ CourseInv(s)

-----------------------------------------------------------------------------
(***************************************************************************)
(* The use case between the stores of its stages                           *)
(***************************************************************************)

\* A use case that is open to a stage lets it in and is inside it then.
LEMMA Entering ==
  ASSUME NEW u \in UseCases, NEW t \in StageTyp, Opens(u, t)
  PROVE  /\ CanEnter(u, t)
         /\ EnterMark(u, t) \in UseCases /\ Enters(EnterMark(u, t), t)
<1>1. CASE t = "INIT"
  BY <1>1 DEF Opens, Rests, CanEnter, Closed, EnterMark, Enters, UseCases, StageOf, Stage
<1>2. CASE t = "WITER"
  BY <1>2 DEF Opens, Rests, CanEnter, Closed, EnterMark, Enters, UseCases, StageOf, Stage,
     Iterations
<1>3. CASE t = "FINISH"
  BY <1>3 DEF Opens, Rests, CanEnter, Closed, EnterMark, Enters, UseCases, StageOf, Stage,
     Iterations
<1> QED
  BY <1>1, <1>2, <1>3 DEF StageTyp

\* After the last store of enter_stage it stays there.
LEMMA Filling ==
  ASSUME NEW u \in UseCases, NEW t \in StageTyp, Enters(u, t)
  PROVE  Stays(EnterFill(u, t), t)
<1>1. /\ EnterFill(u, t).current_stage = u.current_stage
      /\ EnterFill(u, t).current_completion = "TO_BE_CONTINUED"
      /\ EnterFill(u, t).current_work_iter
           = IF t = "WITER" THEN u.current_work_iter + 1 ELSE u.current_work_iter
      /\ Iterations(EnterFill(u, t)) = Iterations(u)
  BY DEF EnterFill, UseCases, Iterations
<1> QED
  BY <1>1 DEF Enters, Stays, StageTyp

\* quit_stage leads from a stage to the rest after it.
LEMMA InStage ==
  ASSUME NEW u \in UseCases, NEW t \in StageTyp, Stays(u, t)
  PROVE  ~Closed(u) /\ u.current_stage \in {"INITIALIZING", "WORKING", "FINISHING"}
  BY DEF Stays, Closed, StageOf, StageTyp

LEMMA Quitting ==
  ASSUME NEW u \in UseCases, NEW t \in StageTyp, Stays(u, t),
         NEW w, w = [u EXCEPT !.current_stage = QuitTo(u)[1]]
  PROVE  Rests(Answering(w, QuitTo(u)[2]), t)
<1> DEFINE v == Answering(w, QuitTo(u)[2])
<1>2. /\ v.current_stage = QuitTo(u)[1] /\ v.current_completion = QuitTo(u)[2]
      /\ v.current_work_iter = u.current_work_iter /\ v.nb_iterations = u.nb_iterations
      /\ u.current_work_iter \in Nat /\ u.nb_iterations \in Int
  BY DEF UseCases, Answering
<1> HIDE DEF v
<1>3. ASSUME t = "INIT" PROVE Rests(v, t)
  <2>1. u.current_stage = "INITIALIZING" /\ u.current_work_iter = 0
    BY <1>3 DEF Stays, StageOf
  <2>2. QuitTo(u) = <<"INITIALIZED", "COMPLETED">>
    BY <2>1 DEF QuitTo
  <2>3. v.current_stage = "INITIALIZED" /\ v.current_completion = "COMPLETED"
    BY <1>2, <2>2
  <2> QED
    BY <1>2, <1>3, <2>1, <2>3 DEF Rests
<1>4. ASSUME t = "WITER" /\ u.current_work_iter < u.nb_iterations PROVE Rests(v, t)
  <2>1. u.current_stage = "WORKING" /\ u.current_work_iter \in 1 .. Iterations(u)
    BY <1>4 DEF Stays, StageOf
  <2>2. QuitTo(u) = <<"WORKING", "TO_BE_CONTINUED">>
    BY <1>2, <1>4, <2>1 DEF QuitTo
  <2>3. v.current_stage = "WORKING" /\ v.current_completion = "TO_BE_CONTINUED"
    BY <1>2, <2>2
  <2> QED
    BY <1>2, <1>4, <2>1, <2>3 DEF Rests
<1>5. ASSUME t = "WITER" /\ ~(u.current_work_iter < u.nb_iterations) PROVE Rests(v, t)
  <2>1. u.current_stage = "WORKING" /\ u.current_work_iter \in 1 .. Iterations(u)
    BY <1>5 DEF Stays, StageOf
  <2>2. QuitTo(u) = <<"WORKED", "COMPLETED">>
    BY <1>2, <1>5, <2>1 DEF QuitTo
  <2>3. v.current_stage = "WORKED" /\ v.current_completion = "COMPLETED"
    BY <1>2, <2>2
  <2>4. u.current_work_iter = Iterations(u) /\ Iterations(v) = Iterations(u)
    BY <1>2, <1>5, <2>1 DEF Iterations
  <2> QED
    BY <1>2, <1>5, <2>3, <2>4 DEF Rests
<1>6. ASSUME t = "FINISH" PROVE Rests(v, t)
  <2>1. u.current_stage = "FINISHING" /\ u.current_work_iter = Iterations(u)
    BY <1>6 DEF Stays, StageOf
  <2>2. QuitTo(u) = <<"FINISHED", "COMPLETED">>
    BY <2>1 DEF QuitTo
  <2>3. v.current_stage = "FINISHED" /\ v.current_completion = "COMPLETED"
    BY <1>2, <2>2
  <2>4. Iterations(v) = Iterations(u)
    BY <1>2 DEF Iterations
  <2> QED
    BY <1>2, <1>6, <2>1, <2>3, <2>4 DEF Rests
<1>7. Rests(v, t)
  BY <1>3, <1>4, <1>5, <1>6 DEF StageTyp
<1> QED
  BY <1>7 DEF v

\* The condition of start() for a stage is the one of the use case.
LEMMA Opening ==
  ASSUME NEW u \in UseCases, NEW c \in Test, NEW last,
         Rests(u, last), last # "none" => Asks(c, u.current_completion),
         ~(last = "WITER" /\ c = "WITER"),
         <<last, Launches[c]>> \in
           {<<"none", "INIT">>, <<"INIT", "WITER">>, <<"WITER", "WITER">>, <<"WITER", "FINISH">>}
  PROVE  Opens(u, Launches[c])
<1>1. CASE last = "none"
  BY <1>1 DEF Opens
<1>2. CASE last = "INIT"
  BY <1>2 DEF Opens
<1>3. CASE last = "WITER"
  <2>1. c \in {"LOOP", "FINISH"}
    BY <1>3 DEF Test, Launches
  <2> QED
    BY <1>3, <2>1 DEF Opens, Rests, Asks, Launches
<1> QED
  BY <1>1, <1>2, <1>3

-----------------------------------------------------------------------------
(***************************************************************************)
(* The steps of a session that is alone                                    *)
(***************************************************************************)

\* The types of one session, and what of its invariants the steps below need.
LEMMA OneSession ==
  ASSUME TimeInv, NEW t \in Sessions
  PROVE  /\ uc \in UseCases /\ typ[t] \in StageTyp /\ test[t] \in Test
         /\ uc.current_completion \in Completion
         /\ thread \in [Sessions -> ThreadPC] /\ pc \in [Sessions -> PC]
         /\ promise[t] \in Completion \cup {"none", "empty", "gone"}
         /\ SessionInv(t) /\ WaitInv(t)
  BY DEF TimeInv, IInv, TypeOK, UseCases

\* A step of the stage thread takes the use case where the thread gets to.
LEMMA ThreadStageInv ==
  ASSUME AloneInv, NEW t \in Sessions, ThreadStep(t)
  PROVE  StageThreadInv(t)'
<1>1. /\ uc \in UseCases /\ typ[t] \in StageTyp /\ thread \in [Sessions -> ThreadPC]
      /\ goal \in [Sessions -> Stage \X Completion] /\ typ' = typ
  BY OneSession DEF AloneInv, TimeInv, IInv, TypeOK, ThreadStep, Enter, EnterRefused, Mark, Fill,
     Wake, Die, Quit, MarkQuit, FillQuit, Answer
<1>2. StageThreadInv(t)
  BY DEF AloneInv
<1>3. CASE Enter(t)
  <2>1. CanEnter(uc, typ[t])
    BY <1>1, <1>2, <1>3, Entering DEF Enter, StageThreadInv
  <2>2. thread'[t] = "mark" /\ uc' = uc
    BY <1>1, <1>3, <2>1 DEF Enter, To
  <2> QED
    BY <1>1, <1>2, <1>3, <2>2 DEF Enter, StageThreadInv
<1>4. CASE EnterRefused(t)
  BY <1>2, <1>4 DEF EnterRefused, StageThreadInv
<1>5. CASE Mark(t)
  <2>1. thread'[t] = "fill" /\ uc' = EnterMark(uc, typ[t])
    BY <1>1, <1>5 DEF Mark, To
  <2>2. Enters(uc', typ[t])
    BY <1>1, <1>2, <1>5, <2>1, Entering DEF Mark, StageThreadInv
  <2> QED
    BY <1>1, <2>1, <2>2 DEF StageThreadInv
<1>6. CASE Fill(t)
  <2>1. thread'[t] \in {"sleep", "quit"} /\ uc' = EnterFill(uc, typ[t])
    BY <1>1, <1>6 DEF Fill, To
  <2>2. Stays(uc', typ[t])
    BY <1>1, <1>2, <1>6, <2>1, Filling DEF Fill, StageThreadInv
  <2> QED
    BY <1>1, <2>1, <2>2 DEF StageThreadInv
<1>7. CASE Wake(t) \/ Die(t)
  <2>1. thread[t] = "sleep" /\ thread'[t] \in {"quit", "dead"} /\ uc' = uc
    BY <1>1, <1>7 DEF Wake, Die, To
  <2> QED
    BY <1>1, <1>2, <2>1 DEF StageThreadInv
<1>8. CASE Quit(t)
  <2>1. ~Closed(uc) /\ uc.current_stage \in {"INITIALIZING", "WORKING", "FINISHING"}
    <3>1. Stays(uc, typ[t])
      BY <1>2, <1>8 DEF Quit, StageThreadInv
    <3> QED
      BY <1>1, <3>1, InStage
  <2>2. thread[t] = "quit" /\ thread'[t] = "markquit" /\ uc' = uc /\ goal'[t] = QuitTo(uc)
    BY <1>1, <1>8, <2>1 DEF Quit, To
  <2> QED
    BY <1>1, <1>2, <2>2 DEF StageThreadInv
<1>9. CASE MarkQuit(t)
  <2>1. /\ thread[t] = "markquit" /\ thread'[t] = "fillquit" /\ goal' = goal
        /\ uc' = [uc EXCEPT !.current_stage = QuitTo(uc)[1]] /\ goal[t] = QuitTo(uc)
    BY <1>1, <1>2, <1>9 DEF MarkQuit, To, StageThreadInv
  <2>2. Rests(Answering(uc', QuitTo(uc)[2]), typ[t])
    <3>1. Stays(uc, typ[t])
      BY <1>2, <2>1 DEF StageThreadInv, Answering
    <3> QED
      BY <1>1, <2>1, <3>1, Quitting
  <2>3. Rests(Answering(uc', goal'[t][2]), typ[t])
    BY <2>1, <2>2
  <2>4. uc'.current_stage # "NEW" /\ uc'.current_completion = "TO_BE_CONTINUED"
    <3>1. Stays(uc, typ[t])
      BY <1>2, <2>1 DEF StageThreadInv
    <3>2. uc'.current_stage = QuitTo(uc)[1] /\ uc'.current_completion = uc.current_completion
      BY <1>1, <2>1 DEF UseCases
    <3>3. uc.current_stage \in {"INITIALIZING", "WORKING", "FINISHING"}
      BY <1>1, <3>1, InStage
    <3>4. QuitTo(uc)[1] # "NEW"
      BY <1>1, <3>3 DEF QuitTo, UseCases
    <3> QED
      BY <3>1, <3>2, <3>4 DEF Stays
  <2> QED
    BY <1>1, <2>1, <2>3, <2>4 DEF StageThreadInv
<1>10. CASE FillQuit(t)
  <2>1. /\ thread[t] = "fillquit" /\ thread'[t] = "answer"
        /\ uc' = [uc EXCEPT !.current_completion = goal[t][2]]
    BY <1>1, <1>10 DEF FillQuit, To
  <2>2. Rests(uc', typ[t])
    BY <1>2, <2>1 DEF StageThreadInv, Answering
  <2> QED
    BY <1>1, <2>1, <2>2 DEF StageThreadInv
<1>11. CASE Answer(t)
  <2>1. thread[t] = "answer" /\ thread'[t] \in {"exit", "stray"} /\ uc' = uc
    BY <1>1, <1>11 DEF Answer, To
  <2> QED
    BY <1>1, <1>2, <2>1 DEF StageThreadInv
<1> QED
  BY <1>3, <1>4, <1>5, <1>6, <1>7, <1>8, <1>9, <1>10, <1>11 DEF ThreadStep

\* start() learns of it from the answer, when the thread ends.
LEMMA ThreadKnown ==
  ASSUME AloneInv, NEW t \in Sessions, ThreadStep(t)
  PROVE  KnownInv(t)'
<1>1. /\ UNCHANGED <<state, pc, test, complet, typ>>
      /\ thread[t] \notin {"none", "exit"}
  BY DEF ThreadStep, Enter, EnterRefused, Mark, Fill, Wake, Die, Quit, MarkQuit, FillQuit, Answer,
     sessionVars, startVars
<1>2. /\ thread \in [Sessions -> ThreadPC] /\ WaitInv(t) /\ KnownInv(t) /\ SessionInv(t)
      /\ promise \in [Sessions -> Completion \cup {"none", "empty", "gone"}]
  BY OneSession DEF AloneInv, TimeInv, IInv, TypeOK
<1>3. state[t] = "COMPLETED" \/ pc[t] = "over" => complet[t] = "TIMEOUT"
  BY <1>1, <1>2 DEF KnownInv
<1>4. thread'[t] # "none"
  BY <1>2 DEF ThreadStep, Enter, EnterRefused, Mark, Fill, Wake, Die, Quit, MarkQuit, FillQuit,
     Answer, To
<1>5. pc[t] = "launch" => Asks(test[t], complet[t]) /\ (test[t] = "WITER" => typ[t] # "WITER")
  BY <1>1, <1>2 DEF KnownInv, StageOfSession
<1>6. CASE Answer(t)
  <2>1. /\ uc' = uc
        /\ \/ promise[t] = "empty" /\ promise'[t] = uc.current_completion
           \/ promise[t] # "empty" /\ promise'[t] = promise[t] /\ thread'[t] = "stray"
    BY <1>2, <1>6 DEF Answer, To
  <2>2. promise[t] \notin Completion
    BY <1>1, <1>2 DEF WaitInv, AnswerInv
  <2>3. pc[t] \notin {"wait", "cancel"} /\ complet[t] # "TIMEOUT" => thread'[t] # "exit"
    <3>1. pc[t] \in {"test", "launch", "verdict"} => complet[t] = "TIMEOUT"
      BY <1>1, <1>2 DEF SessionInv, BetweenInv
    <3>2. pc[t] \notin {"out", "sleep"}
      BY <1>1, <1>2 DEF SessionInv, StateInv, StageInv, Fresh, Active
    <3>3. pc[t] # "join"
      BY <1>2, <2>2 DEF WaitInv, AnswerInv
    <3>4. pc[t] \in PC
      BY OneSession DEF AloneInv
    <3> QED
      BY <1>3, <3>1, <3>2, <3>3, <3>4 DEF PC
  <2> QED
    BY <1>1, <1>3, <1>4, <1>5, <2>1, <2>2, <2>3 DEF KnownInv, StageOfSession
<1>7. CASE ~Answer(t)
  <2>1. promise' = promise /\ thread'[t] # "exit"
    BY <1>2, <1>7 DEF ThreadStep, Enter, EnterRefused, Mark, Fill, Wake, Die, Quit, MarkQuit,
       FillQuit, To, startVars
  <2>2. promise[t] \notin Completion
    BY <1>1, <1>2 DEF WaitInv, AnswerInv
  <2> QED
    BY <1>1, <1>3, <1>4, <1>5, <2>1, <2>2 DEF KnownInv, StageOfSession
<1> QED
  BY <1>6, <1>7

\* A step that neither the use case nor the stage thread has a part in.
LEMMA StageThreadFrame ==
  ASSUME NEW t \in Sessions, StageThreadInv(t), uc' = uc,
         thread'[t] = thread[t], typ'[t] = typ[t], goal'[t] = goal[t]
  PROVE  StageThreadInv(t)'
  BY DEF StageThreadInv

\* The stage that is launched is one the use case is open to.
LEMMA LaunchAlone ==
  ASSUME AloneInv, NEW t \in Sessions, Launch(t)
  PROVE  StageThreadInv(t)' /\ KnownInv(t)'
<1>1. /\ uc' = uc /\ state' = state /\ pc[t] = "launch" /\ pc'[t] = "wait"
      /\ thread'[t] = "enter" /\ typ'[t] = Launches[test[t]] /\ promise'[t] = "empty"
  BY DEF Launch, AloneInv, TimeInv, IInv, TypeOK, sessionVars
<1>2. /\ uc \in UseCases /\ test[t] \in Test /\ SessionInv(t) /\ StageThreadInv(t) /\ KnownInv(t)
  BY OneSession DEF AloneInv
<1>3. complet[t] # "TIMEOUT" /\ thread[t] \in {"none", "exit"} /\ state[t] = "RUNNING"
  BY <1>1, <1>2 DEF SessionInv, TimeoutInv, BetweenInv, StateInv, Inside
<1>4. <<StageOfSession(t), Launches[test[t]]>> \in
        {<<"none", "INIT">>, <<"INIT", "WITER">>, <<"WITER", "WITER">>, <<"WITER", "FINISH">>}
  BY <1>1, <1>2 DEF SessionInv, StageInv
<1>5. Rests(uc, StageOfSession(t))
  BY <1>2, <1>3 DEF StageThreadInv, StageOfSession
<1>6. StageOfSession(t) # "none" => Asks(test[t], uc.current_completion)
  BY <1>1, <1>2, <1>3 DEF KnownInv, StageOfSession
<1>7. ~(StageOfSession(t) = "WITER" /\ test[t] = "WITER")
  BY <1>1, <1>2 DEF KnownInv
<1>8. Opens(uc, Launches[test[t]])
  BY <1>2, <1>4, <1>5, <1>6, <1>7, Opening
<1>9. StageThreadInv(t)'
  BY <1>1, <1>8 DEF StageThreadInv
<1>10. KnownInv(t)'
  BY <1>1, <1>3 DEF KnownInv, Completion
<1> QED
  BY <1>9, <1>10

\* The other steps of start().
LEMMA StartAlone ==
  ASSUME AloneInv, NEW t \in Sessions, StartStep(t)
  PROVE  StageThreadInv(t)' /\ KnownInv(t)'
<1>1. /\ SessionInv(t) /\ WaitInv(t) /\ StageThreadInv(t) /\ KnownInv(t)
      /\ test[t] \in Test /\ pc[t] \in PC
  BY OneSession DEF AloneInv, TimeInv, IInv, TypeOK
<1>2. /\ TypeOK
      /\ state \in [Sessions -> SessionState \cup {"none"}] /\ pc \in [Sessions -> PC]
      /\ test \in [Sessions -> Test] /\ complet \in [Sessions -> Completion]
      /\ promise \in [Sessions -> Completion \cup {"none", "empty", "gone"}]
  BY DEF AloneInv, TimeInv, IInv, TypeOK
<1>3. CASE Launch(t)
  BY <1>3, LaunchAlone
<1>4. ASSUME ~Launch(t) PROVE uc' = uc /\ UNCHANGED <<thread, typ, goal>>
  BY <1>4 DEF StartStep, Begin, Pass, Skip, FutureReady, FutureTimeout, Cancel, Join, Verdict,
     threadVars
<1>5. ASSUME ~Launch(t) PROVE StageThreadInv(t)'
  BY <1>1, <1>4, <1>5, StageThreadFrame
<1>6. ASSUME Begin(t) PROVE KnownInv(t)'
  BY <1>1, <1>2, <1>4, <1>6 DEF Begin, KnownInv, SessionInv, StateInv, Launch
<1>7. ASSUME Pass(t) PROVE KnownInv(t)'
  <2>1. /\ pc[t] = "test" /\ pc'[t] = "launch" /\ Asks(test[t], complet[t]) /\ ~stop_requested[t]
        /\ UNCHANGED <<uc, state, test, complet, promise, thread, typ>>
    BY <1>2, <1>7 DEF Pass, sessionVars, threadVars
  <2>2. test[t] = "WITER" => StageOfSession(t) # "WITER"
    BY <1>1, <2>1 DEF SessionInv, StageInv
  <2> QED
    BY <1>1, <2>1, <2>2 DEF KnownInv, StageOfSession
<1>8. ASSUME Skip(t) PROVE KnownInv(t)'
  <2>1. /\ pc[t] = "test" /\ pc'[t] \in {"test", "verdict"}
        /\ UNCHANGED <<uc, state, complet, promise, thread, typ>>
    BY <1>2, <1>8 DEF Skip, sessionVars, threadVars
  <2> QED
    BY <1>1, <2>1 DEF KnownInv
<1>9. ASSUME FutureReady(t) PROVE KnownInv(t)'
  <2>1. /\ pc'[t] = "join" /\ complet'[t] = promise[t] /\ promise[t] \in Completion
        /\ pc[t] = "wait"
        /\ UNCHANGED <<uc, state, promise, thread>>
    BY <1>2, <1>9 DEF FutureReady, sessionVars, threadVars
  <2>2. state[t] = "RUNNING"
    BY <1>1, <2>1 DEF SessionInv, StateInv, Inside
  <2> QED
    BY <1>1, <2>1, <2>2 DEF KnownInv
<1>10. ASSUME FutureTimeout(t) PROVE KnownInv(t)'
  <2>1. /\ pc[t] = "wait" /\ pc'[t] = "cancel"
        /\ UNCHANGED <<uc, state, promise, thread, complet>>
    BY <1>2, <1>10 DEF FutureTimeout, sessionVars, threadVars
  <2> QED
    BY <1>1, <2>1 DEF KnownInv
<1>11. ASSUME Cancel(t) PROVE KnownInv(t)'
  <2>1. /\ pc[t] = "cancel" /\ pc'[t] \in {"test", "over"} /\ complet'[t] = "TIMEOUT"
        /\ promise'[t] = "gone" /\ thread' = thread
    BY <1>1, <1>2, <1>11, Proceeded DEF Cancel, Test
  <2>2. thread[t] # "none"
    BY <1>1, <2>1 DEF SessionInv, StageInv, Active
  <2> QED
    BY <2>1, <2>2 DEF KnownInv, Completion
<1>12. ASSUME Join(t) PROVE KnownInv(t)'
  <2>1. /\ pc[t] = "join" /\ pc'[t] \in {"test", "over"} /\ complet' = complet
        /\ promise'[t] = "none" /\ thread[t] = "exit" /\ thread' = thread /\ uc' = uc
    BY <1>1, <1>2, <1>12, Proceeded DEF Join, Test, threadVars, WaitInv, AnswerInv
  <2> QED
    BY <1>1, <2>1 DEF KnownInv, Completion
<1>13. ASSUME Verdict(t) PROVE KnownInv(t)'
  <2>1. /\ pc[t] = "verdict" /\ pc'[t] = "over"
        /\ UNCHANGED <<uc, complet, promise, thread, test, typ>>
        /\ state'[t] \in {"KILLED", "STOPPED", state[t]}
    BY <1>2, <1>13 DEF Verdict, threadVars
  <2>2. complet[t] = "TIMEOUT" \/ thread[t] \in {"none", "exit"}
    BY <1>1, <2>1 DEF SessionInv, BetweenInv
  <2>3. state[t] = "RUNNING"
    BY <1>1, <2>1 DEF SessionInv, StateInv, Inside
  <2> QED
    BY <1>1, <2>1, <2>2, <2>3 DEF KnownInv
<1>14. ~Launch(t) => KnownInv(t)'
  BY <1>6, <1>7, <1>8, <1>9, <1>10, <1>11, <1>12, <1>13 DEF StartStep
<1> QED
  BY <1>3, <1>5, <1>14

\* The steps of main and of time.
LEMMA MainAlone ==
  ASSUME AloneInv, NEW t \in Sessions,
         \/ SetTooSlow \/ Start(t) \/ Stop(t) \/ (\E r \in Reservations[Triple] : Construct(t, r))
         \/ Tick \/ UNCHANGED vars
  PROVE  StageThreadInv(t)' /\ KnownInv(t)'
<1>1. /\ SessionInv(t) /\ StageThreadInv(t) /\ KnownInv(t) /\ uc \in UseCases
  BY OneSession DEF AloneInv
<1>2. state \in [Sessions -> SessionState \cup {"none"}] /\ pc \in [Sessions -> PC]
  BY DEF AloneInv, TimeInv, IInv, TypeOK
<1>3. CASE SetTooSlow
  <2>1. /\ uc' = [uc EXCEPT !.work_slowly = TRUE] /\ pc[t] = "out"
        /\ UNCHANGED <<state, thread, typ, goal, pc, promise, complet, test>>
    BY <1>3 DEF SetTooSlow, sessionVars, startVars, threadVars
  <2>2. thread[t] = "none"
    BY <1>1, <2>1 DEF SessionInv, StateInv, StageInv, Fresh, Active
  <2>3. /\ uc'.current_stage = uc.current_stage /\ uc'.current_work_iter = uc.current_work_iter
        /\ uc'.current_completion = uc.current_completion
    BY <1>1, <2>1 DEF UseCases
  <2>4. Rests(uc', "none")
    BY <1>1, <2>2, <2>3 DEF StageThreadInv, Rests
  <2> QED
    BY <1>1, <2>1, <2>2, <2>3, <2>4 DEF StageThreadInv, KnownInv
<1>4. CASE Start(t)
  <2>1. /\ UNCHANGED <<uc, state, thread, typ, goal, promise, complet, test>>
        /\ pc[t] = "out" /\ pc'[t] \in {"sleep", "over"}
    BY <1>2, <1>4 DEF Start, threadVars
  <2>2. thread[t] = "none"
    BY <1>1, <2>1 DEF SessionInv, StateInv, StageInv, Fresh, Active
  <2>3. StageThreadInv(t)'
    BY <1>1, <2>1, StageThreadFrame
  <2> QED
    BY <1>1, <2>1, <2>2, <2>3 DEF KnownInv
<1>5. CASE Stop(t) \/ Tick \/ UNCHANGED vars
  <2>1. UNCHANGED <<uc, state, thread, typ, goal, promise, complet, test, pc>>
    BY <1>5 DEF Stop, Tick, vars, sessionVars, startVars, threadVars
  <2>2. StageThreadInv(t)'
    BY <1>1, <2>1, StageThreadFrame
  <2> QED
    BY <1>1, <2>1, <2>2 DEF KnownInv, StageOfSession
<1>6. ASSUME NEW r \in Reservations[Triple], Construct(t, r)
      PROVE  StageThreadInv(t)' /\ KnownInv(t)'
  <2>1. /\ UNCHANGED <<uc, thread, typ, goal, promise, complet, test, pc>>
        /\ state'[t] \in {"READY", "ERROR"}
    BY <1>2, <1>6 DEF Construct, startVars, threadVars
  <2>2. StageThreadInv(t)'
    BY <1>1, <2>1, StageThreadFrame
  <2> QED
    BY <1>1, <2>1, <2>2 DEF KnownInv, StageOfSession
<1> QED
  BY <1>3, <1>4, <1>5, <1>6

\* Every step of a session that is alone keeps its invariant.
LEMMA NextAloneInv ==
  ASSUME Alone PROVE AloneInv /\ TimeInv' /\ [Next]_vars => AloneInv'
<1> SUFFICES ASSUME AloneInv, TimeInv', [Next]_vars, NEW t \in Sessions
             PROVE  StageThreadInv(t)' /\ KnownInv(t)'
  BY DEF AloneInv
<1>1. \A s \in Sessions : s = t
  BY DEF Alone
<1>2. CASE Main
  BY <1>1, <1>2, MainAlone DEF Main
<1>3. CASE Tick \/ Ended \/ UNCHANGED vars
  BY <1>3, MainAlone DEF Ended
<1>4. ASSUME NEW s \in Sessions, StartStep(s) PROVE StageThreadInv(t)' /\ KnownInv(t)'
  BY <1>1, <1>4, StartAlone
<1>5. ASSUME NEW s \in Sessions, ThreadStep(s) PROVE StageThreadInv(t)' /\ KnownInv(t)'
  BY <1>1, <1>5, ThreadStageInv, ThreadKnown
<1> QED
  BY <1>2, <1>3, <1>4, <1>5 DEF Next

LEMMA AloneInvariance == ASSUME Alone PROVE Spec => []AloneInv
<1>1. Init /\ TimeInv => AloneInv
  <2> SUFFICES ASSUME Init, TimeInv, NEW s \in Sessions PROVE StageThreadInv(s) /\ KnownInv(s)
    BY DEF AloneInv
  <2>1. PICK d \in Durations : uc = NewUseCase(d[1], d[2], d[3])
    BY DEF Init
  <2>2. Rests(uc, "none")
    BY <2>1 DEF NewUseCase, Rests
  <2>3. thread[s] = "none" /\ pc[s] = "out" /\ promise[s] = "none" /\ state[s] = "none"
    BY DEF Init
  <2> QED
    BY <2>2, <2>3 DEF StageThreadInv, KnownInv, Completion
<1>2. AloneInv /\ TimeInv' /\ [Next]_vars => AloneInv'
  BY NextAloneInv
<1> QED
  BY <1>1, <1>2, TimeInvariance, PTL DEF Spec

\* The conditions of start() and those of enter_stage fit together: the use case
\* of a session that is alone refuses no stage.
THEOREM NothingIsRefused == ASSUME Alone PROVE Spec => []NoStageRefused
<1>1. AloneInv => NoStageRefused
  BY DEF AloneInv, StageThreadInv, NoStageRefused
<1> QED
  BY <1>1, AloneInvariance, PTL

\* COMPLETED is true of the use case: all its iterations are done, also when the
\* finish stage was given up, and it is FINISHED when that stage answered.
THEOREM CompletedMeansFinished == ASSUME Alone PROVE Spec => []CompletedIsFinished
<1>1. AloneInv => CompletedIsFinished
  <2> SUFFICES ASSUME AloneInv, NEW s \in Sessions, state[s] = "COMPLETED"
               PROVE  /\ uc.current_work_iter = Iterations(uc)
                      /\ uc.current_stage \in {"WORKED", "FINISHING", "FINISHED"}
                      /\ complet[s] = "COMPLETED" => uc.current_stage = "FINISHED"
    BY DEF CompletedIsFinished
  <2>1. /\ typ[s] = "FINISH" /\ thread[s] # "none" /\ thread[s] # "refuse"
        /\ complet[s] = "COMPLETED" => thread[s] = "exit"
    BY OneSession DEF AloneInv, KnownInv, StageThreadInv, SessionInv, VerdictInv
  <2>2. CASE thread[s] \in {"enter", "mark"}
    BY <2>1, <2>2 DEF AloneInv, StageThreadInv, Opens, Rests
  <2>3. CASE thread[s] = "fill"
    BY <2>1, <2>3 DEF AloneInv, StageThreadInv, Enters, StageOf
  <2>4. CASE thread[s] \in {"sleep", "dead", "quit", "markquit"}
    BY <2>1, <2>4 DEF AloneInv, StageThreadInv, Stays, StageOf
  <2>5. CASE thread[s] = "fillquit"
    <3> DEFINE u == Answering(uc, goal[s][2])
    <3>1. Rests(u, "FINISH")
      BY <2>1, <2>5 DEF AloneInv, StageThreadInv
    <3>2. /\ u.current_stage = uc.current_stage /\ u.current_work_iter = uc.current_work_iter
          /\ Iterations(u) = Iterations(uc)
      BY OneSession DEF AloneInv, UseCases, Answering, Iterations
    <3> QED
      BY <2>1, <2>5, <3>1, <3>2 DEF Rests
  <2>6. CASE thread[s] \in {"answer", "exit", "stray"}
    BY <2>1, <2>6 DEF AloneInv, StageThreadInv, Rests
  <2>7. thread[s] \in ThreadPC
    BY OneSession DEF AloneInv
  <2> QED
    BY <2>1, <2>2, <2>3, <2>4, <2>5, <2>6, <2>7 DEF ThreadPC
<1> QED
  BY <1>1, AloneInvariance, PTL

\* No constructor takes a use case that a stage is in, from the end of enter_stage
\* to the last store of quit_stage, whether or not the stage was given up; and a
\* stage that was killed in its sleep never looks like one that has ended.
THEOREM KilledIsNotReused == ASSUME Alone PROVE Spec => []KilledNotReused
<1>1. AloneInv => KilledNotReused
  <2> SUFFICES ASSUME AloneInv, NEW s \in Sessions
               PROVE  /\ thread[s] \in {"sleep", "dead", "quit", "markquit", "fillquit"} =>
                           ~Usable(uc)
                      /\ thread[s] = "dead" =>
                           /\ uc.current_stage = StageOf[typ[s]]
                           /\ uc.current_completion = "TO_BE_CONTINUED"
    BY DEF KilledNotReused
  <2>1. ASSUME Stays(uc, typ[s])
        PROVE  /\ uc.current_stage = StageOf[typ[s]]
               /\ uc.current_completion = "TO_BE_CONTINUED" /\ ~Usable(uc)
    BY <2>1, OneSession DEF AloneInv, Stays, Usable, StageOf, StageTyp
  <2>2. thread[s] = "fillquit" => ~Usable(uc)
    BY DEF AloneInv, StageThreadInv, Usable
  <2> QED
    BY <2>1, <2>2 DEF AloneInv, StageThreadInv
<1> QED
  BY <1>1, AloneInvariance, PTL

-----------------------------------------------------------------------------
(***************************************************************************)
(* The time the stages take                                                *)
(***************************************************************************)

\* What no step changes of a use case, but that it may be slowed down.
LEMMA DurationsKept ==
  ASSUME IInv, [Next]_vars
  PROVE  /\ uc'.init_duration_max = uc.init_duration_max
         /\ uc'.work_duration_max = uc.work_duration_max
         /\ uc'.finish_duration_max = uc.finish_duration_max
         /\ uc'.nb_iterations = uc.nb_iterations
         /\ ~uc'.work_slowly => ~uc.work_slowly
<1>1. Triple' = Triple
  BY TripleKept
<1>2. uc'.nb_iterations = uc.nb_iterations /\ (~uc'.work_slowly => ~uc.work_slowly)
  <2> USE DEF IInv, TypeOK, UseCases, sessionVars, startVars, threadVars
  <2>1. CASE Tick \/ Ended \/ SetTooSlow \/ UNCHANGED vars
    BY <2>1 DEF Tick, Ended, SetTooSlow, vars
  <2>2. ASSUME NEW s \in Sessions,
               Start(s) \/ Stop(s) \/ \E r \in Reservations[Triple] : Construct(s, r)
        PROVE  uc' = uc
    BY <2>2 DEF Start, Stop, Construct
  <2>3. ASSUME NEW s \in Sessions, StartStep(s) PROVE uc' = uc
    BY <2>3 DEF StartStep, Begin, Pass, Skip, Launch, FutureReady, FutureTimeout, Cancel, Join,
       Verdict
  <2>4. ASSUME NEW s \in Sessions, ThreadStep(s)
        PROVE  uc'.nb_iterations = uc.nb_iterations /\ uc'.work_slowly = uc.work_slowly
    <3>1. CASE Enter(s) \/ Wake(s) \/ Die(s) \/ Quit(s) \/ Answer(s)
      BY <3>1 DEF Enter, Wake, Die, Quit, Answer
    <3>2. CASE EnterRefused(s) \/ Mark(s) \/ Fill(s) \/ MarkQuit(s) \/ FillQuit(s)
      BY <3>2 DEF EnterRefused, Mark, Fill, MarkQuit, FillQuit, Refuse, EnterMark, EnterFill
    <3> QED
      BY <2>4, <3>1, <3>2 DEF ThreadStep
  <2> QED
    BY <2>1, <2>2, <2>3, <2>4 DEF Next, Main
<1> QED
  BY <1>1, <1>2 DEF Triple

\* Each number is one.
LEMMA Numbers ==
  ASSUME TypeOK, NEW t \in Sessions
  PROVE  /\ uc.init_duration_max \in Nat /\ uc.work_duration_max \in Nat
         /\ uc.finish_duration_max \in Nat /\ uc.nb_iterations \in Int
         /\ uc.current_work_iter \in Nat /\ Iterations(uc) \in Nat
         /\ InitTime \in Nat /\ InitTime <= uc.init_duration_max
         /\ Least(uc.finish_duration_max) \in Nat
         /\ Least(uc.finish_duration_max) <= uc.finish_duration_max
         /\ now \in Nat /\ wake[t] \in Nat /\ asked[t] \in Nat
         /\ TBegin(t) \in Nat /\ TEnd(t) \in Nat
         /\ typ[t] \in StageTyp
         /\ Begun(typ[t]) \in Nat /\ Spent(typ[t]) \in Nat
<1>1. /\ uc.init_duration_max \in Nat /\ uc.work_duration_max \in Nat
      /\ uc.finish_duration_max \in Nat /\ uc.nb_iterations \in Int
      /\ uc.current_work_iter \in Nat /\ typ[t] \in StageTyp
  BY DEF TypeOK, UseCases
<1>2. /\ Iterations(uc) \in Nat /\ InitTime \in Nat /\ InitTime <= uc.init_duration_max
      /\ Least(uc.finish_duration_max) \in Nat
      /\ Least(uc.finish_duration_max) <= uc.finish_duration_max
  BY <1>1 DEF Iterations, InitTime, Least
<1>3. now \in Nat /\ wake[t] \in Nat /\ asked[t] \in Nat /\ TBegin(t) \in Nat /\ TEnd(t) \in Nat
  BY Instants, SessionAssumption DEF TypeOK, SessionAssumption
<1>4. Begun(typ[t]) \in Nat /\ Spent(typ[t]) \in Nat
  BY <1>1, <1>2 DEF Begun, Spent, StageTyp
<1> QED
  BY <1>1, <1>2, <1>3, <1>4

\* The stages leave a second of the maximal duration.
LEMMA Room ==
  ASSUME TypeOK, NEW t \in Sessions, StageThreadInv(t), FitInv(t), OnCourse(t), thread[t] # "none"
  PROVE  TBegin(t) + Begun(typ[t]) < TEnd(t) /\ TBegin(t) + Spent(typ[t]) < TEnd(t)
<1>1. uc.nb_iterations = uc.work_duration_max - 1 /\ uc.work_duration_max >= 2
  BY DEF FitInv, OnCourse
<1>2. Iterations(uc) = uc.work_duration_max - 1
  BY <1>1, Numbers DEF Iterations
<1>3. TEnd(t) - TBegin(t) >= DurationMax(uc)
  BY DEF FitInv, OnCourse
<1>4. typ[t] = "WITER" => uc.current_work_iter <= Iterations(uc)
  <2> SUFFICES ASSUME typ[t] = "WITER" PROVE uc.current_work_iter <= Iterations(uc)
    OBVIOUS
  <2>1. uc.current_work_iter \in Nat /\ Iterations(uc) \in Nat /\ uc.nb_iterations \in Int
        /\ Iterations(uc) >= 1 /\ uc.nb_iterations <= Iterations(uc)
    BY Numbers DEF Iterations
  <2>2. thread[t] \in ThreadPC
    BY DEF TypeOK
  <2>3. CASE thread[t] \in {"enter", "mark"}
    BY <2>1, <2>3 DEF StageThreadInv, Opens, Rests
  <2>4. CASE thread[t] \in {"fill", "sleep", "dead", "quit", "markquit"}
    BY <2>1, <2>4 DEF StageThreadInv, Enters, Stays
  <2>5. CASE thread[t] = "fillquit"
    <3> DEFINE v == Answering(uc, goal[t][2])
    <3>1. Rests(v, "WITER")
      BY <2>5 DEF StageThreadInv
    <3>2. /\ v.current_work_iter = uc.current_work_iter /\ v.nb_iterations = uc.nb_iterations
          /\ Iterations(v) = Iterations(uc)
      BY DEF TypeOK, UseCases, Answering, Iterations
    <3> HIDE DEF v
    <3> QED
      BY <2>1, <3>1, <3>2 DEF Rests
  <2>6. CASE thread[t] \in {"answer", "exit", "stray"}
    BY <2>1, <2>6 DEF StageThreadInv, Rests
  <2> QED
    BY <2>2, <2>3, <2>4, <2>5, <2>6 DEF ThreadPC, StageThreadInv
<1>5. Begun(typ[t]) < DurationMax(uc) /\ Spent(typ[t]) < DurationMax(uc)
  <2>1. CASE typ[t] = "INIT"
    BY <1>1, <2>1, Numbers DEF Begun, Spent, DurationMax
  <2>2. CASE typ[t] = "WITER"
    BY <1>1, <1>2, <1>4, <2>2, Numbers DEF Begun, Spent, DurationMax
  <2>3. CASE typ[t] = "FINISH"
    BY <1>1, <1>2, <2>3, Numbers DEF Begun, Spent, DurationMax
  <2> QED
    BY <2>1, <2>2, <2>3, Numbers DEF StageTyp
<1>6. DurationMax(uc) \in Nat
  BY DurationNat
<1> QED
  BY <1>3, <1>5, <1>6, Numbers

\* A session that keeps its reservation keeps what the constructor has compared;
\* one that is on course after a step was so before.
LEMMA PaceFrame ==
  ASSUME PaceInv, [Next]_vars, NEW t \in Sessions, resv'[t] = resv[t],
         state'[t] \notin {"none", "ERROR"} => state[t] \notin {"none", "ERROR"}
  PROVE  /\ FitInv(t)' /\ TBegin(t)' = TBegin(t) /\ TEnd(t)' = TEnd(t)
         /\ InitTime' = InitTime /\ Iterations(uc)' = Iterations(uc)
         /\ Least(uc'.finish_duration_max) = Least(uc.finish_duration_max)
         /\ OnCourse(t)' /\ pc[t] # "out" /\ asked'[t] = asked[t]
              /\ (stop_requested[t] => stop_requested'[t]) => OnCourse(t)
<1>1. /\ uc'.init_duration_max = uc.init_duration_max
      /\ uc'.work_duration_max = uc.work_duration_max
      /\ uc'.finish_duration_max = uc.finish_duration_max
      /\ uc'.nb_iterations = uc.nb_iterations
      /\ ~uc'.work_slowly => ~uc.work_slowly
  BY DurationsKept DEF PaceInv, AloneInv, TimeInv
<1>2. DurationMax(uc)' = DurationMax(uc) /\ Triple' = Triple
  BY <1>1 DEF DurationMax, Triple
<1>3. TBegin(t)' = TBegin(t) /\ TEnd(t)' = TEnd(t)
  BY DEF TBegin, TEnd
<1>4. FitInv(t)'
  BY <1>1, <1>2, <1>3 DEF PaceInv, FitInv
<1>5. InitTime' = InitTime /\ Iterations(uc)' = Iterations(uc)
  BY <1>1 DEF InitTime, Iterations
<1>6. OnCourse(t)' /\ pc[t] # "out" /\ asked'[t] = asked[t]
        /\ (stop_requested[t] => stop_requested'[t]) => OnCourse(t)
  BY <1>1, <1>2, <1>3 DEF OnCourse, Prompt
<1> QED
  BY <1>1, <1>3, <1>4, <1>5, <1>6

\* What is known of a session on course while its stage thread is at work.
LEMMA AtWork ==
  ASSUME PaceInv, NEW t \in Sessions, OnCourse(t), thread[t] \notin {"none", "exit"},
         Inside(t)
  PROVE  pc[t] = "wait" /\ ~cancel[t] /\ promise[t] = "empty" /\ Timely(t)
<1>1. /\ SessionInv(t) /\ WaitInv(t) /\ AwaitedInv(t) /\ CourseInv(t)
      /\ thread[t] \in ThreadPC
  BY OneSession DEF PaceInv, AloneInv
<1>2. pc[t] \notin {"cancel", "verdict"} /\ complet[t] # "TIMEOUT" /\ Timely(t)
  BY <1>1 DEF CourseInv
<1>3. pc[t] \notin {"test", "launch"}
  BY <1>1, <1>2 DEF SessionInv, BetweenInv
<1>4. pc[t] # "join"
  BY <1>1 DEF WaitInv, AnswerInv, AwaitedInv, SessionInv, TimeInv
<1> QED
  BY <1>1, <1>2, <1>3, <1>4 DEF Inside, AwaitedInv

\* A stage thread keeps to its time.
LEMMA ThreadTimely ==
  ASSUME PaceInv, TypeOK', NEW t \in Sessions, ThreadStep(t), OnCourse(t), Inside(t)
  PROVE  Timely(t)'
<1>1. thread[t] \notin {"none", "exit", "dead", "stray"} /\ thread \in [Sessions -> ThreadPC]
  BY OneSession DEF ThreadStep, Enter, EnterRefused, Mark, Fill, Wake, Die, Quit, MarkQuit, FillQuit,
     Answer, PaceInv, AloneInv
<1>2. pc[t] = "wait" /\ ~cancel[t] /\ promise[t] = "empty" /\ Timely(t)
  BY <1>1, AtWork
<1>3. /\ UNCHANGED <<now, typ, resv>> /\ TypeOK /\ uc \in UseCases /\ thread[t] # "refuse"
      /\ wake \in [Sessions -> 0 .. MaxTime]
  BY OneSession DEF ThreadStep, Enter, EnterRefused, Mark, Fill, Wake, Die, Quit, MarkQuit, FillQuit,
     Answer, PaceInv, AloneInv, TimeInv, IInv, TypeOK, sessionVars, StageThreadInv
<1>4. [Next]_vars
  BY DEF Next
<1>5. state' = state
  BY DEF ThreadStep, Enter, EnterRefused, Mark, Fill, Wake, Die, Quit, MarkQuit, FillQuit,
     Answer, sessionVars
<1>6. /\ TBegin(t)' = TBegin(t) /\ InitTime' = InitTime /\ Iterations(uc)' = Iterations(uc)
      /\ Least(uc'.finish_duration_max) = Least(uc.finish_duration_max)
  BY <1>3, <1>4, <1>5, PaceFrame
<1>7. CASE Fill(t)
  <2>1. /\ thread[t] = "fill" /\ uc' = EnterFill(uc, typ[t])
        /\ LET d == StageDelay(uc, typ[t])
           IN  IF d > 0 THEN thread'[t] = "sleep" /\ wake'[t] = After(d) ELSE thread'[t] = "quit"
    BY <1>1, <1>3, <1>7 DEF Fill, To
  <2>2. now <= TBegin(t) + Begun(typ[t])
    BY <1>2, <2>1 DEF Timely
  <2>3. uc'.current_work_iter = IF typ[t] = "WITER" THEN uc.current_work_iter + 1
                                                    ELSE uc.current_work_iter
    BY <1>3, <2>1 DEF EnterFill, UseCases
  <2>4. /\ Spent(typ[t])' = Begun(typ[t]) + (IF StageDelay(uc, typ[t]) > 0
                                             THEN StageDelay(uc, typ[t]) ELSE 0)
        /\ StageDelay(uc, typ[t]) \in Int
    <3>1. ~uc.work_slowly
      BY DEF OnCourse
    <3>2. CASE typ[t] = "INIT"
      BY <1>3, <1>6, <3>2, Numbers DEF Spent, Begun, StageDelay, InitTime, Least
    <3>3. CASE typ[t] = "WITER"
      BY <1>3, <1>6, <2>3, <3>1, <3>3, Numbers DEF Spent, Begun, StageDelay
    <3>4. CASE typ[t] = "FINISH"
      BY <1>3, <1>6, <3>4, Numbers DEF Spent, Begun, StageDelay, Least
    <3> QED
      BY <1>3, <3>2, <3>3, <3>4, Numbers DEF StageTyp
  <2>5. CASE StageDelay(uc, typ[t]) > 0
    <3>1. now <= After(StageDelay(uc, typ[t])) /\ After(StageDelay(uc, typ[t])) \in Nat
          /\ After(StageDelay(uc, typ[t])) <= now + StageDelay(uc, typ[t])
      BY <1>3, <2>4, <2>5, Instants DEF After
    <3>2. thread'[t] = "sleep" /\ wake'[t] = After(StageDelay(uc, typ[t]))
      BY <2>1, <2>5
    <3>3. now' <= wake'[t] /\ wake'[t] <= TBegin(t)' + Spent(typ[t])'
      BY <1>3, <1>6, <2>2, <2>4, <2>5, <3>1, <3>2, Numbers
    <3> QED
      BY <3>2, <3>3 DEF Timely
  <2>6. CASE ~(StageDelay(uc, typ[t]) > 0)
    <3>1. thread'[t] = "quit"
      BY <2>1, <2>6
    <3>2. now' <= TBegin(t)' + Spent(typ[t])'
      BY <1>3, <1>6, <2>2, <2>4, <2>6, Numbers
    <3> QED
      BY <3>1, <3>2 DEF Timely
  <2> QED
    BY <2>5, <2>6
<1>8. CASE ~Fill(t)
  <2>1. uc'.current_work_iter = uc.current_work_iter
    BY <1>3, <1>8 DEF ThreadStep, Enter, EnterRefused, Mark, Wake, Die, Quit, MarkQuit, FillQuit,
       Answer, UseCases, EnterMark, Refuse
  <2>2. Begun(typ[t])' = Begun(typ[t]) /\ Spent(typ[t])' = Spent(typ[t])
    BY <1>3, <1>6, <2>1 DEF Begun, Spent
  <2>3. \/ /\ thread[t] = "enter" /\ thread'[t] \in {"mark", "refuse"}
        \/ /\ thread[t] = "mark" /\ thread'[t] = "fill"
        \/ /\ thread[t] = "sleep" /\ thread'[t] = "quit" /\ now <= wake[t]
        \/ /\ thread[t] \in {"quit", "markquit", "fillquit", "answer"}
           /\ thread'[t] \in {"markquit", "fillquit", "answer", "exit"}
    BY <1>1, <1>2, <1>3, <1>8 DEF ThreadStep, Enter, EnterRefused, Mark, Wake, Die, Quit, MarkQuit,
       FillQuit, Answer, To, Timely
  <2>4. now' = now /\ now \in Nat /\ wake[t] \in Nat
    BY <1>3, Numbers
  <2> QED
    BY <1>2, <1>6, <2>2, <2>3, <2>4, Numbers, <1>3 DEF Timely
<1> QED
  BY <1>7, <1>8

LEMMA ThreadPace ==
  ASSUME PaceInv, TypeOK', NEW t \in Sessions, ThreadStep(t)
  PROVE  AwaitedInv(t)' /\ FitInv(t)' /\ CourseInv(t)'
<1>1. /\ UNCHANGED <<now, state, resv, stop_requested, asked, pc, test, complet, typ, cancel>>
      /\ thread[t] \notin {"none", "exit"}
  BY DEF ThreadStep, Enter, EnterRefused, Mark, Fill, Wake, Die, Quit, MarkQuit, FillQuit, Answer,
     sessionVars, startVars
<1>2. /\ thread \in [Sessions -> ThreadPC] /\ AwaitedInv(t) /\ CourseInv(t) /\ SessionInv(t)
      /\ promise \in [Sessions -> Completion \cup {"none", "empty", "gone"}]
      /\ uc.current_completion \in Completion
  BY OneSession DEF PaceInv, AloneInv, TimeInv, IInv, TypeOK
<1>3. [Next]_vars
  BY DEF Next
<1>4. FitInv(t)' /\ TBegin(t)' = TBegin(t) /\ (OnCourse(t)' => OnCourse(t) \/ pc[t] = "out")
  BY <1>1, <1>3, PaceFrame
<1>5. AwaitedInv(t)'
  <2>1. CASE pc[t] = "wait"
    <3>1. ~cancel[t] /\ promise[t] = "empty"
      BY <1>1, <1>2, <2>1 DEF AwaitedInv
    <3>2. CASE Answer(t)
      BY <1>1, <1>2, <3>1, <3>2 DEF Answer, To, AwaitedInv, Completion
    <3>3. CASE ~Answer(t)
      <4>1. promise' = promise /\ thread'[t] \notin {"none", "exit", "dead", "stray"}
        BY <1>2, <3>1, <3>3 DEF ThreadStep, Enter, EnterRefused, Mark, Fill, Wake, Die, Quit, MarkQuit,
           FillQuit, To, startVars
      <4> QED
        BY <1>1, <1>2, <3>1, <4>1 DEF AwaitedInv
    <3> QED
      BY <3>2, <3>3
  <2>2. CASE pc[t] # "wait"
    BY <1>1, <1>2, <2>2 DEF AwaitedInv
  <2> QED
    BY <2>1, <2>2
<1>6. ASSUME OnCourse(t)' PROVE CourseInv(t)'
  <2>1. OnCourse(t)
    BY <1>1, <1>4, <1>6 DEF OnCourse
  <2>2. Inside(t) => Timely(t)'
    BY <2>1, ThreadTimely
  <2>3. pc[t] # "test"
    BY <1>1, <1>2, <2>1 DEF SessionInv, BetweenInv, CourseInv
  <2> QED
    BY <1>1, <1>2, <1>4, <2>1, <2>2, <2>3 DEF CourseInv, Inside
<1> QED
  BY <1>4, <1>5, <1>6 DEF CourseInv

\* A stage is launched when the one before has ended in time.
LEMMA LaunchPace ==
  ASSUME PaceInv, NEW t \in Sessions, Launch(t)
  PROVE  AwaitedInv(t)' /\ FitInv(t)' /\ CourseInv(t)'
<1>1. /\ UNCHANGED <<now, uc, state, resv, stop_requested, asked, complet, test, cancel>>
      /\ pc[t] = "launch" /\ pc'[t] = "wait" /\ promise'[t] = "empty"
      /\ thread'[t] = "enter" /\ typ'[t] = Launches[test[t]]
  BY DEF Launch, PaceInv, AloneInv, TimeInv, IInv, TypeOK, sessionVars
<1>2. /\ SessionInv(t) /\ StageThreadInv(t) /\ KnownInv(t) /\ AwaitedInv(t) /\ CourseInv(t)
      /\ TypeOK /\ test[t] \in Test
  BY OneSession DEF PaceInv, AloneInv, TimeInv, IInv
<1>3. [Next]_vars
  BY DEF Next, StartStep
<1>4. FitInv(t)' /\ TBegin(t)' = TBegin(t) /\ (OnCourse(t)' => OnCourse(t))
  BY <1>1, <1>3, PaceFrame
<1>5. complet[t] # "TIMEOUT" /\ thread[t] \in {"none", "exit"}
  BY <1>1, <1>2 DEF SessionInv, TimeoutInv, BetweenInv
<1>6. AwaitedInv(t)'
  BY <1>1, <1>2, <1>5 DEF AwaitedInv
<1>7. ASSUME OnCourse(t) PROVE now <= TBegin(t) + Begun(Launches[test[t]])
  <2>1. Timely(t)
    BY <1>1, <1>2, <1>7 DEF CourseInv, Inside
  <2>2. <<StageOfSession(t), Launches[test[t]]>> \in
          {<<"none", "INIT">>, <<"INIT", "WITER">>, <<"WITER", "WITER">>, <<"WITER", "FINISH">>}
    BY <1>1, <1>2 DEF SessionInv, StageInv
  <2>3. CASE StageOfSession(t) = "none"
    <3>1. thread[t] = "none"
      BY <1>2, <2>3 DEF StageOfSession, TypeOK, StageTyp
    <3>2. Begun(Launches[test[t]]) = 0
      BY <2>2, <2>3 DEF Begun
    <3> QED
      BY <1>2, <2>1, <3>1, <3>2, Numbers DEF Timely
  <2>4. ASSUME StageOfSession(t) # "none"
        PROVE  /\ thread[t] = "exit" /\ typ[t] = StageOfSession(t)
               /\ now <= TBegin(t) + Spent(typ[t]) /\ Rests(uc, typ[t])
               /\ Asks(test[t], uc.current_completion)
    <3>1. thread[t] = "exit" /\ typ[t] = StageOfSession(t)
      BY <1>5, <2>4 DEF StageOfSession
    <3> QED
      BY <1>1, <1>2, <1>5, <2>1, <3>1 DEF Timely, StageThreadInv, KnownInv
  <2>5. CASE StageOfSession(t) = "INIT"
    <3>1. Begun("WITER") = Spent("INIT")
      BY <1>2, <2>4, <2>5, Numbers DEF Begun, Spent, Rests
    <3> QED
      BY <2>2, <2>4, <2>5, <3>1
  <2>6. CASE StageOfSession(t) = "WITER" /\ Launches[test[t]] = "WITER"
    <3>1. Begun("WITER") = Spent("WITER")
      BY DEF Begun, Spent
    <3> QED
      BY <2>4, <2>6, <3>1
  <2>7. CASE StageOfSession(t) = "WITER" /\ Launches[test[t]] = "FINISH"
    <3>1. test[t] = "FINISH"
      BY <1>2, <2>7 DEF Test, Launches
    <3>2. uc.current_work_iter = Iterations(uc)
      BY <2>4, <2>7, <3>1 DEF Asks, Rests
    <3>3. Begun("FINISH") = Spent("WITER")
      BY <3>2 DEF Begun, Spent
    <3> QED
      BY <2>4, <2>7, <3>3
  <2> QED
    BY <2>2, <2>3, <2>5, <2>6, <2>7
<1>8. ASSUME OnCourse(t)' PROVE CourseInv(t)'
  <2>1. OnCourse(t)
    BY <1>4, <1>8
  <2>2. Begun(typ[t])' = Begun(Launches[test[t]])
    BY <1>1 DEF Begun, InitTime
  <2>3. Timely(t)'
    BY <1>1, <1>4, <1>7, <2>1, <2>2 DEF Timely
  <2> QED
    BY <1>1, <1>5, <2>3 DEF CourseInv
<1> QED
  BY <1>4, <1>6, <1>8 DEF CourseInv

\* The thread that calls start() keeps to the stages.
LEMMA StartPace ==
  ASSUME PaceInv, NEW t \in Sessions, StartStep(t)
  PROVE  AwaitedInv(t)' /\ FitInv(t)' /\ CourseInv(t)'
<1>1. /\ SessionInv(t) /\ WaitInv(t) /\ StageThreadInv(t) /\ KnownInv(t)
      /\ AwaitedInv(t) /\ CourseInv(t) /\ FitInv(t) /\ TypeOK
      /\ test[t] \in Test /\ pc[t] \in PC /\ thread[t] \in ThreadPC
  BY OneSession DEF PaceInv, AloneInv, TimeInv, IInv, TypeOK
<1>2. /\ state \in [Sessions -> SessionState \cup {"none"}] /\ pc \in [Sessions -> PC]
      /\ test \in [Sessions -> Test] /\ complet \in [Sessions -> Completion]
      /\ promise \in [Sessions -> Completion \cup {"none", "empty", "gone"}]
      /\ cancel \in [Sessions -> BOOLEAN]
  BY DEF PaceInv, AloneInv, TimeInv, IInv, TypeOK
<1>3. [Next]_vars
  BY DEF Next
<1>4. UNCHANGED <<now, uc, resv, stop_requested, asked>>
  BY DEF StartStep, Begin, Pass, Skip, Launch, FutureReady, FutureTimeout, Cancel, Join, Verdict,
     sessionVars
<1>5. pc[t] \notin {"out", "over"} /\ state[t] \in {"READY", "RUNNING"}
  BY <1>1 DEF StartStep, Begin, Pass, Skip, Launch, FutureReady, FutureTimeout, Cancel, Join, Verdict,
     SessionInv, StateInv, Inside
<1>6. FitInv(t)' /\ TBegin(t)' = TBegin(t) /\ (OnCourse(t)' => OnCourse(t))
  BY <1>3, <1>4, <1>5, PaceFrame
<1>7. ASSUME UNCHANGED <<thread, typ, wake>>, Timely(t) PROVE Timely(t)'
  BY <1>4, <1>6, <1>7 DEF Timely, Begun, Spent, InitTime
<1>8. CASE Begin(t)
  <2>1. /\ pc[t] = "sleep" /\ pc'[t] = "test"
        /\ UNCHANGED <<now, test, complet, thread, typ, cancel, promise>>
    BY <1>2, <1>8 DEF Begin, threadVars
  <2>2. test[t] = "INIT" /\ thread[t] = "none" /\ complet[t] = "ERROR"
    BY <1>1, <2>1 DEF SessionInv, StateInv, StageInv, Fresh, Active
  <2>3. AwaitedInv(t)'
    BY <1>1, <2>1 DEF AwaitedInv
  <2>4. ASSUME OnCourse(t)' PROVE CourseInv(t)'
    <3>1. now <= TBegin(t)
      BY <1>1, <1>6, <2>1, <2>4 DEF CourseInv
    <3> QED
      BY <1>6, <2>1, <2>2, <3>1 DEF CourseInv, Timely, StageOfSession
  <2> QED
    BY <1>6, <2>3, <2>4 DEF CourseInv
<1>9. CASE Pass(t)
  <2>1. /\ pc[t] = "test" /\ pc'[t] = "launch"
        /\ UNCHANGED <<state, now, test, complet, thread, typ, wake, cancel, promise>>
    BY <1>2, <1>9 DEF Pass, sessionVars, threadVars
  <2>2. AwaitedInv(t)'
    BY <1>1, <2>1 DEF AwaitedInv
  <2> QED
    BY <1>1, <1>6, <1>7, <2>1, <2>2 DEF CourseInv, Inside
<1>10. CASE Skip(t)
  <2>1. /\ pc[t] = "test" /\ pc'[t] \in {"test", "verdict"}
        /\ stop_requested[t] \/ ~Asks(test[t], complet[t])
        /\ UNCHANGED <<state, now, complet, thread, typ, wake, cancel, promise>>
    BY <1>2, <1>10 DEF Skip, sessionVars, threadVars
  <2>2. AwaitedInv(t)'
    BY <1>1, <2>1 DEF AwaitedInv
  <2>3. ASSUME OnCourse(t)' PROVE CourseInv(t)'
    <3>1. OnCourse(t) /\ ~stop_requested[t]
      BY <1>6, <2>3 DEF OnCourse
    <3>2. /\ complet[t] # "TIMEOUT" /\ Timely(t)
          /\ <<test[t], StageOfSession(t)>> \in
               {<<"INIT", "none">>, <<"WITER", "INIT">>, <<"LOOP", "WITER">>, <<"FINISH", "WITER">>}
          /\ test[t] = "FINISH" => complet[t] # "TO_BE_CONTINUED"
      BY <1>1, <2>1, <3>1 DEF CourseInv, Inside
    <3>3. test[t] # "INIT" /\ StageOfSession(t) # "none"
      BY <2>1, <3>1, <3>2 DEF Asks
    <3>4. thread[t] = "exit" /\ typ[t] = StageOfSession(t)
      BY <1>1, <2>1, <3>2, <3>3 DEF SessionInv, BetweenInv, StageOfSession
    <3>5. Rests(uc, typ[t]) /\ complet[t] = uc.current_completion
      BY <1>1, <2>1, <3>2, <3>4 DEF StageThreadInv, KnownInv
    <3>6. test[t] = "LOOP" /\ typ[t] = "WITER" /\ complet[t] # "TO_BE_CONTINUED"
      BY <2>1, <3>1, <3>2, <3>3, <3>4, <3>5 DEF Asks, Rests
    <3>7. test'[t] = "FINISH" /\ pc' = pc
      BY <1>1, <1>2, <1>10, <3>6, Skipped
    <3> QED
      BY <1>7, <2>1, <3>2, <3>4, <3>6, <3>7 DEF CourseInv, StageOfSession
  <2> QED
    BY <1>6, <2>2, <2>3 DEF CourseInv
<1>11. CASE Launch(t)
  BY <1>11, LaunchPace
<1>12. CASE FutureReady(t)
  <2>1. /\ pc[t] = "wait" /\ pc'[t] = "join" /\ complet'[t] = promise[t]
        /\ promise[t] \in Completion
        /\ UNCHANGED <<state, now, test, thread, typ, wake, cancel, promise>>
    BY <1>2, <1>12 DEF FutureReady, sessionVars, threadVars
  <2>2. promise[t] # "TIMEOUT"
    BY <2>1 DEF PaceInv, AloneInv, TimeInv, IInv, UseCaseInv, Answers
  <2>3. AwaitedInv(t)'
    BY <1>1, <2>1 DEF AwaitedInv
  <2> QED
    BY <1>1, <1>6, <1>7, <2>1, <2>2, <2>3 DEF CourseInv, Inside
<1>13. CASE FutureTimeout(t)
  <2>1. /\ pc[t] = "wait" /\ pc'[t] = "cancel" /\ promise[t] = "empty" /\ now >= TEnd(t)
        /\ UNCHANGED <<complet, cancel>>
    BY <1>2, <1>13 DEF FutureTimeout, threadVars
  <2>2. AwaitedInv(t)'
    BY <1>1, <2>1 DEF AwaitedInv
  <2>3. ASSUME OnCourse(t) PROVE FALSE
    <3>1. Timely(t) /\ thread[t] \notin {"none", "exit", "dead", "stray", "refuse"}
      BY <1>1, <2>1, <2>3 DEF CourseInv, Inside, AwaitedInv, StageThreadInv
    <3>2. TBegin(t) + Begun(typ[t]) < TEnd(t) /\ TBegin(t) + Spent(typ[t]) < TEnd(t)
      BY <1>1, <2>3, <3>1, Room
    <3>3. now < TEnd(t)
      BY <1>1, <3>1, <3>2, Numbers DEF Timely, ThreadPC
    <3> QED
      BY <1>1, <2>1, <3>3, Numbers
  <2> QED
    BY <1>6, <2>2, <2>3 DEF CourseInv
<1>14. CASE Cancel(t)
  <2>1. pc[t] = "cancel" /\ complet'[t] = "TIMEOUT" /\ pc'[t] \in {"test", "over"}
    BY <1>1, <1>2, <1>14, Proceeded DEF Cancel
  <2>2. ~OnCourse(t)
    BY <1>1, <2>1 DEF CourseInv
  <2> QED
    BY <1>6, <2>1, <2>2 DEF AwaitedInv, CourseInv
<1>15. CASE Join(t)
  <2>1. /\ pc[t] = "join" /\ thread[t] = "exit"
        /\ UNCHANGED <<complet, thread, typ, wake, cancel>>
        /\ \/ test[t] = "FINISH" /\ pc'[t] = "over" /\ state'[t] = "COMPLETED"
           \/ test[t] = "INIT" /\ test'[t] = "WITER" /\ pc'[t] = "test"
           \/ test[t] \in {"WITER", "LOOP"} /\ test'[t] = "LOOP" /\ pc'[t] = "test"
    BY <1>1, <1>2, <1>15, Proceeded DEF Join, threadVars, WaitInv, AnswerInv
  <2>2. typ[t] = Launches[test[t]]
    BY <1>1, <2>1 DEF SessionInv, StageInv, Active
  <2>3. AwaitedInv(t)'
    BY <1>1, <2>1 DEF AwaitedInv
  <2>4. ASSUME OnCourse(t)' PROVE CourseInv(t)'
    <3>1. Timely(t)' /\ complet[t] # "TIMEOUT"
      BY <1>1, <1>6, <1>7, <2>1, <2>4 DEF CourseInv, Inside
    <3>2. CASE test[t] = "FINISH"
      BY <2>1, <3>1, <3>2 DEF CourseInv, Inside
    <3>3. CASE test[t] # "FINISH"
      <4>1. /\ pc'[t] = "test"
            /\ <<test'[t], typ[t]>> \in {<<"WITER", "INIT">>, <<"LOOP", "WITER">>}
        BY <2>1, <2>2, <3>3 DEF Launches
      <4> QED
        BY <2>1, <3>1, <4>1 DEF CourseInv, StageOfSession
    <3> QED
      BY <3>2, <3>3
  <2> QED
    BY <1>6, <2>3, <2>4 DEF CourseInv
<1>16. CASE Verdict(t)
  <2>1. pc[t] = "verdict" /\ pc'[t] = "over" /\ UNCHANGED <<complet, cancel>>
    BY <1>2, <1>16 DEF Verdict, threadVars
  <2>2. ~OnCourse(t)
    BY <1>1, <2>1 DEF CourseInv
  <2> QED
    BY <1>1, <1>6, <2>1, <2>2 DEF AwaitedInv, CourseInv
<1> QED
  BY <1>8, <1>9, <1>10, <1>11, <1>12, <1>13, <1>14, <1>15, <1>16 DEF StartStep

\* Nobody lets time pass by while there is something to do.
LEMMA TickPace ==
  ASSUME PaceInv, NEW t \in Sessions, Tick
  PROVE  AwaitedInv(t)' /\ FitInv(t)' /\ CourseInv(t)'
<1>1. /\ UNCHANGED <<uc, state, resv, stop_requested, asked, pc, test, complet, promise, thread,
                     typ, wake, cancel>>
      /\ now' = now + 1 /\ (Prompt => StartWaits(t) /\ ThreadWaits(t))
  BY DEF Tick, AllWait, sessionVars, startVars, threadVars
<1>2. /\ WaitInv(t) /\ AwaitedInv(t) /\ CourseInv(t) /\ TypeOK /\ thread[t] # "refuse"
  BY OneSession DEF PaceInv, AloneInv, TimeInv, IInv, StageThreadInv
<1>3. [Next]_vars
  BY DEF Next
<1>4. FitInv(t)' /\ TBegin(t)' = TBegin(t)
  BY <1>1, <1>3, PaceFrame
<1>5. AwaitedInv(t)'
  BY <1>1, <1>2 DEF AwaitedInv
<1>6. ASSUME OnCourse(t)' PROVE CourseInv(t)'
  <2>1. OnCourse(t) /\ Prompt
    BY <1>1, <1>6 DEF OnCourse, Prompt, Triple, TBegin
  <2>2. StartWaits(t) /\ ThreadWaits(t) /\ pc[t] # "out"
    BY <1>1, <2>1 DEF OnCourse
  <2>3. pc[t] = "sleep" => now' <= TBegin(t)
    BY <1>2, <1>1, <2>2, Numbers DEF StartWaits
  <2>4. ASSUME Inside(t) PROVE Timely(t)'
    <3>1. Timely(t)
      BY <1>2, <2>1, <2>4 DEF CourseInv
    <3>2. pc[t] = "wait" /\ promise[t] = "empty"
      BY <1>2, <2>2, <2>4 DEF StartWaits, Inside, WaitInv, AnswerInv
    <3>3. thread[t] \notin {"none", "exit", "dead", "stray"}
      BY <1>2, <3>2 DEF AwaitedInv
    <3>4. thread[t] = "sleep" /\ now < wake[t]
      BY <2>2, <3>3 DEF ThreadWaits
    <3>5. now' <= wake[t]
      BY <1>1, <1>2, <3>4, Numbers
    <3>6. Spent(typ[t])' = Spent(typ[t])
      BY <1>1 DEF Spent, InitTime
    <3> QED
      BY <1>1, <1>4, <3>1, <3>4, <3>5, <3>6 DEF Timely
  <2>5. /\ pc[t] \notin {"cancel", "verdict"} /\ complet[t] # "TIMEOUT" /\ pc[t] # "test"
        /\ pc[t] = "over" => state[t] = "COMPLETED"
    BY <1>2, <2>1, <2>2 DEF CourseInv, StartWaits
  <2> QED
    BY <1>1, <1>4, <2>3, <2>4, <2>5 DEF CourseInv, Inside
<1> QED
  BY <1>4, <1>5, <1>6 DEF CourseInv

\* main constructs a session that fits, and starts it.
LEMMA MainPace ==
  ASSUME PaceInv, IInv', NEW t \in Sessions,
         \/ SetTooSlow \/ Start(t) \/ Stop(t) \/ (\E r \in Reservations[Triple] : Construct(t, r))
         \/ UNCHANGED vars
  PROVE  AwaitedInv(t)' /\ FitInv(t)' /\ CourseInv(t)'
<1>1. /\ SessionInv(t) /\ AwaitedInv(t) /\ CourseInv(t) /\ FitInv(t) /\ TypeOK /\ UseCaseInv
  BY OneSession DEF PaceInv, AloneInv, TimeInv, IInv
<1>2. [Next]_vars
  BY DEF Next, Main
<1>3. /\ state \in [Sessions -> SessionState \cup {"none"}] /\ pc \in [Sessions -> PC]
      /\ asked \in [Sessions -> 0 .. MaxTime] /\ stop_requested \in [Sessions -> BOOLEAN]
      /\ resv \in [Sessions -> (0 .. MaxTime) \X (0 .. MaxTime)] /\ uc \in UseCases
  BY <1>1 DEF TypeOK
<1>4. UNCHANGED <<now, complet, promise, thread, test, typ, wake, cancel>>
  BY DEF SetTooSlow, Start, Stop, Construct, vars, sessionVars, startVars, threadVars
<1>5. CASE SetTooSlow
  <2>1. /\ UNCHANGED <<state, resv, stop_requested, asked, pc>> /\ uc'.work_slowly
    BY <1>3, <1>5 DEF SetTooSlow, sessionVars, startVars, threadVars, UseCases
  <2>2. FitInv(t)' /\ ~OnCourse(t)'
    BY <1>2, <2>1, PaceFrame DEF OnCourse
  <2> QED
    BY <1>1, <1>4, <2>1, <2>2 DEF AwaitedInv, CourseInv
<1>6. CASE Start(t)
  <2>1. /\ UNCHANGED <<uc, state, resv, stop_requested>> /\ asked'[t] = now /\ pc[t] = "out"
        /\ pc'[t] = IF state[t] = "READY" THEN "sleep" ELSE "over"
    BY <1>3, <1>6 DEF Start
  <2>2. FitInv(t)' /\ TBegin(t)' = TBegin(t)
    BY <1>2, <2>1, PaceFrame
  <2>3. AwaitedInv(t)'
    BY <1>1, <1>4, <2>1 DEF AwaitedInv
  <2>4. state[t] \in {"none", "READY", "ERROR"} /\ complet[t] = "ERROR"
    BY <1>1, <2>1 DEF SessionInv, StateInv, StageInv, Fresh, Active
  <2> QED
    BY <1>4, <2>1, <2>2, <2>3, <2>4 DEF CourseInv, OnCourse, Inside
<1>7. CASE Stop(t) \/ UNCHANGED vars
  <2>1. /\ UNCHANGED <<uc, state, resv, asked, pc>>
        /\ stop_requested[t] => stop_requested'[t]
    BY <1>3, <1>7 DEF Stop, startVars, threadVars, vars
  <2>2. /\ FitInv(t)' /\ TBegin(t)' = TBegin(t)
        /\ OnCourse(t)' /\ pc[t] # "out" => OnCourse(t)
    BY <1>2, <2>1, PaceFrame
  <2>3. AwaitedInv(t)'
    BY <1>1, <1>4, <2>1 DEF AwaitedInv
  <2>4. Timely(t)' = Timely(t)
    BY <1>4, <2>1, <2>2 DEF Timely, Begun, Spent, InitTime
  <2>5. OnCourse(t)' => OnCourse(t)
    BY <2>1, <2>2 DEF OnCourse
  <2> QED
    BY <1>1, <1>4, <2>1, <2>2, <2>3, <2>4, <2>5 DEF CourseInv, Inside, StageOfSession
<1>8. ASSUME NEW r \in Reservations[Triple], Construct(t, r)
      PROVE  AwaitedInv(t)' /\ FitInv(t)' /\ CourseInv(t)'
  <2>1. /\ UNCHANGED <<uc, asked, pc>> /\ resv'[t] = r /\ state[t] = "none"
        /\ state'[t] = IF Usable(uc) /\ Fits(r) THEN "READY" ELSE "ERROR"
    BY <1>3, <1>8 DEF Construct, startVars, threadVars
  <2>2. pc[t] = "out"
    BY <1>1, <2>1 DEF SessionInv, StateInv
  <2>3. FitInv(t)'
    BY <1>1, <2>1 DEF FitInv, Fits, TEnd, TBegin, DurationMax
  <2>4. AwaitedInv(t)' /\ ~OnCourse(t)'
    BY <1>1, <1>4, <2>1, <2>2 DEF AwaitedInv, OnCourse
  <2> QED
    BY <2>3, <2>4 DEF CourseInv
<1> QED
  BY <1>5, <1>6, <1>7, <1>8

LEMMA NextPaceInv ==
  ASSUME Alone PROVE PaceInv /\ AloneInv' /\ [Next]_vars => PaceInv'
<1> SUFFICES ASSUME PaceInv, AloneInv', [Next]_vars, NEW t \in Sessions
             PROVE  AwaitedInv(t)' /\ FitInv(t)' /\ CourseInv(t)'
  BY DEF PaceInv
<1>1. \A s \in Sessions : s = t
  BY DEF Alone
<1>2. IInv' /\ TypeOK'
  BY DEF AloneInv, TimeInv, IInv
<1>3. CASE Main
  BY <1>1, <1>2, <1>3, MainPace DEF Main
<1>4. CASE Tick
  BY <1>4, TickPace
<1>5. CASE Ended \/ UNCHANGED vars
  BY <1>2, <1>5, MainPace DEF Ended
<1>6. ASSUME NEW s \in Sessions, StartStep(s)
      PROVE  AwaitedInv(t)' /\ FitInv(t)' /\ CourseInv(t)'
  BY <1>1, <1>6, StartPace
<1>7. ASSUME NEW s \in Sessions, ThreadStep(s)
      PROVE  AwaitedInv(t)' /\ FitInv(t)' /\ CourseInv(t)'
  BY <1>1, <1>2, <1>7, ThreadPace
<1> QED
  BY <1>3, <1>4, <1>5, <1>6, <1>7 DEF Next

\* The maximal duration is enough: a use case alone, at its normal pace, is completed
\* within the reservation when no thread is late, whatever its durations are.
THEOREM TheWorkFits == ASSUME Alone PROVE Spec => []WorkFits
<1>1. Init /\ AloneInv => PaceInv
  <2> SUFFICES ASSUME Init, AloneInv, NEW s \in Sessions
               PROVE  AwaitedInv(s) /\ FitInv(s) /\ CourseInv(s)
    BY DEF PaceInv
  <2>1. PICK d \in Durations : uc = NewUseCase(d[1], d[2], d[3])
    BY DEF Init
  <2>2. uc.nb_iterations = uc.work_duration_max - 1
    BY <2>1 DEF NewUseCase
  <2>3. pc[s] = "out" /\ state[s] = "none" /\ cancel[s] = FALSE
    BY DEF Init
  <2> QED
    BY <2>2, <2>3 DEF AwaitedInv, FitInv, CourseInv, OnCourse
<1>2. PaceInv => WorkFits
  <2> SUFFICES ASSUME PaceInv, Prompt, uc.work_duration_max >= 2, NEW s \in Sessions, Nominal(s)
               PROVE  state[s] = "COMPLETED" /\ complet[s] = "COMPLETED"
    BY DEF WorkFits
  <2>1. SessionInv(s) /\ StageThreadInv(s) /\ KnownInv(s) /\ CourseInv(s)
    BY OneSession DEF PaceInv, AloneInv
  <2>2. OnCourse(s) /\ pc[s] = "over"
    BY <2>1 DEF Nominal, OnCourse, SessionInv, StateInv
  <2>3. state[s] = "COMPLETED" /\ complet[s] # "TIMEOUT"
    BY <2>1, <2>2 DEF CourseInv
  <2>4. typ[s] = "FINISH" /\ thread[s] = "exit" /\ complet[s] = uc.current_completion
    BY <2>1, <2>2, <2>3 DEF SessionInv, VerdictInv, KnownInv
  <2> QED
    BY <2>1, <2>3, <2>4 DEF StageThreadInv, Rests
<1>3. PaceInv /\ AloneInv' /\ [Next]_vars => PaceInv'
  BY NextPaceInv
<1> QED
  BY <1>1, <1>2, <1>3, AloneInvariance, PTL DEF Spec
=============================================================================
