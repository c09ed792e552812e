---------------------------- MODULE SessionProofs ----------------------------
(***************************************************************************)
(* What holds of sessions for any number of them on one use case, any      *)
(* durations and reservations, and threads as late as they like: verdicts  *)
(* say what happened, stop() is honoured, and every step of a session is   *)
(* one that its lifecycle allows.                                          *)
(***************************************************************************)
EXTENDS Session, TLAPS

\* The completions a use case ever has, and a stage ever answers.
Answers == {"TO_BE_CONTINUED", "COMPLETED", "ERROR"}

\* A use case never says that it was given up: only stage_perform says that.  Its
\* durations are those it was constructed with.
UseCaseInv ==
  /\ uc.current_completion \in Answers
  /\ Triple \in Durations
  /\ \A s \in Sessions :
       goal[s][2] \in Answers /\ promise[s] \in Answers \cup {"none", "empty", "gone"}

Inside(s) == pc[s] \in {"test", "launch", "wait", "cancel", "join", "verdict"}
Active(s) == pc[s] \in {"wait", "cancel", "join"}
Fresh(s) == pc[s] \in {"out", "sleep"}

\* Where start() is and the state of the session.
StateInv(s) ==
  /\ state[s] = "none" => pc[s] = "out" /\ ~stop_requested[s]
  /\ pc[s] = "out" => state[s] \in {"none", "READY", "ERROR"}
  /\ pc[s] = "sleep" => state[s] = "READY"
  /\ Inside(s) => state[s] = "RUNNING"
  /\ Fresh(s) => test[s] = "INIT" /\ late[s] = 0

\* A stage is given up only when the reservation is over, and the last one is.
TimeoutInv(s) ==
  /\ pc[s] = "cancel" \/ complet[s] = "TIMEOUT" => now >= TEnd(s)
  /\ pc[s] \in {"launch", "wait", "cancel"} => complet[s] # "TIMEOUT"

\* The stage performed last, as SessionLifecycle knows it.
StageOfSession(s) == IF thread[s] = "none" THEN "none" ELSE typ[s]

\* Which stage that is, by the condition start() is at; where a stage was skipped
\* the conditions that follow do not hold.
StageInv(s) ==
  /\ test[s] = "INIT" /\ ~Active(s) /\ pc[s] # "over" =>
       thread[s] = "none" /\ complet[s] = "ERROR"
  /\ pc[s] = "test" /\ test[s] # "INIT" =>
       /\ StageOfSession(s) \in {"none", "INIT", "WITER"}
       /\ StageOfSession(s) = "none" => stop_requested[s]
       /\ test[s] = "WITER" => StageOfSession(s) # "WITER"
       /\ test[s] \in {"LOOP", "FINISH"} /\ StageOfSession(s) = "INIT" =>
            stop_requested[s] \/ complet[s] # "COMPLETED"
  /\ pc[s] = "launch" =>
       <<StageOfSession(s), Launches[test[s]]>> \in
         {<<"none", "INIT">>, <<"INIT", "WITER">>, <<"WITER", "WITER">>, <<"WITER", "FINISH">>}
  /\ Active(s) => thread[s] # "none" /\ typ[s] = Launches[test[s]]
  /\ pc[s] = "verdict" => StageOfSession(s) # "FINISH"

\* Only a stage that was given up is still at work between two stages.
BetweenInv(s) ==
  pc[s] \in {"test", "launch", "verdict"} =>
    complet[s] = "TIMEOUT" \/ thread[s] \in {"none", "exit"}

\* A stage launched in spite of stop() was the last.
LateInv(s) ==
  late[s] <= 1 /\ (late[s] = 1 => stop_requested[s] /\ pc[s] # "launch")

\* The properties of the runs, for one session.
VerdictInv(s) ==
  /\ state[s] = "KILLED" => now >= TEnd(s) /\ complet[s] = "TIMEOUT"
  /\ state[s] = "STOPPED" => stop_requested[s] /\ thread[s] \in {"none", "exit"}
  /\ state[s] = "COMPLETED" => test[s] = "FINISH" /\ typ[s] = "FINISH"

SessionInv(s) ==
  /\ StateInv(s) /\ TimeoutInv(s) /\ StageInv(s)
  /\ BetweenInv(s) /\ LateInv(s) /\ VerdictInv(s)

IInv == TypeOK /\ UseCaseInv /\ \A s \in Sessions : SessionInv(s)

\* A value in the promise is that of a thread that has ended, so that join does
\* not wait, and is never left by a thread that was cancelled.
AnswerInv(s) ==
  /\ promise[s] \in Completion => thread[s] = "exit"
  /\ pc[s] = "join" => promise[s] \in Completion
Answered == \A s \in Sessions : AnswerInv(s)

\* What the steps of other sessions leave alone.
Untouched(s) ==
  /\ state'[s] = state[s] /\ resv'[s] = resv[s] /\ stop_requested'[s] = stop_requested[s]
  /\ pc'[s] = pc[s] /\ test'[s] = test[s] /\ complet'[s] = complet[s]
  /\ thread'[s] = thread[s] /\ typ'[s] = typ[s] /\ late'[s] = late[s]

\* A session that is left alone keeps its invariant, also while time passes.
LEMMA Frame ==
  ASSUME NEW s \in Sessions, SessionInv(s), TypeOK, TypeOK', Untouched(s), now' >= now
  PROVE  SessionInv(s)'
<1>1. now \in Nat /\ now' \in Nat /\ TEnd(s) \in Nat /\ TEnd(s)' = TEnd(s)
  BY SessionAssumption DEF SessionAssumption, TypeOK, TEnd, Untouched
<1>2. StateInv(s)' /\ BetweenInv(s)' /\ LateInv(s)'
  BY DEF SessionInv, StateInv, BetweenInv, LateInv, Inside, Fresh, Untouched
<1>3. TimeoutInv(s)' /\ VerdictInv(s)'
  BY <1>1 DEF SessionInv, TimeoutInv, VerdictInv, Untouched
<1>4. StageInv(s)'
  BY DEF SessionInv, StageInv, StageOfSession, Active, Untouched
<1> QED
  BY <1>2, <1>3, <1>4 DEF SessionInv

\* The reservations tried with the durations of the use case are pairs of instants.
LEMMA DurationFacts ==
  ASSUME Triple \in Durations
  PROVE  Reservations[Triple] \subseteq (0 .. MaxTime) \X (0 .. MaxTime)
  BY SessionAssumption DEF SessionAssumption

\* All instants lie before the end of time.
LEMMA Instants ==
  ASSUME TypeOK
  PROVE  /\ now \in 0 .. MaxTime /\ now \in Nat /\ MaxTime \in Nat
         /\ \A d \in Int : d > 0 => After(d) \in 0 .. MaxTime
         /\ \A s \in Sessions : TBegin(s) \in Nat /\ TEnd(s) \in Nat
  BY SessionAssumption DEF SessionAssumption, TypeOK, After, TBegin, TEnd

\* The invariant holds at the start.
LEMMA InitIInv == Init => IInv
<1> SUFFICES ASSUME Init PROVE IInv
  OBVIOUS
<1>1. uc \in UseCases /\ uc.current_completion = "COMPLETED"
  <2>1. PICK d \in Durations : uc = NewUseCase(d[1], d[2], d[3])
    BY DEF Init
  <2>2. d[1] \in Nat /\ d[2] \in Nat /\ d[3] \in Nat
    BY SessionAssumption DEF SessionAssumption
  <2> QED
    BY <2>1, <2>2 DEF NewUseCase, UseCases, Stage, Completion
<1>2. TypeOK
  BY <1>1, SessionAssumption DEF SessionAssumption, Init, TypeOK, SessionState, PC, Test,
       Completion,
     ThreadPC, StageTyp, Stage, NoGoal
<1>3. UseCaseInv
  <2>1. Triple \in Durations
    <3>1. PICK d \in Durations : uc = NewUseCase(d[1], d[2], d[3])
      BY DEF Init
    <3>2. d = <<d[1], d[2], d[3]>>
      BY SessionAssumption DEF SessionAssumption
    <3> QED
      BY <3>1, <3>2 DEF NewUseCase, Triple
  <2> QED
    BY <1>1, <2>1 DEF Init, UseCaseInv, Answers, NoGoal
<1>4. ASSUME NEW s \in Sessions PROVE SessionInv(s)
  BY DEF Init, SessionInv, StateInv, TimeoutInv, StageInv, BetweenInv, LateInv, VerdictInv,
       Inside, Active,
     Fresh, StageOfSession
<1> QED
  BY <1>2, <1>3, <1>4 DEF IInv

-----------------------------------------------------------------------------
(***************************************************************************)
(* The steps of main                                                       *)
(***************************************************************************)
\* A session that is constructed has not been asked to stop.
LEMMA ConstructIInv ==
  ASSUME IInv, NEW t \in Sessions, NEW r \in Reservations[Triple], Construct(t, r)
  PROVE  IInv'
<1>1. TypeOK'
  <2>1. r \in (0 .. MaxTime) \X (0 .. MaxTime)
    BY DurationFacts DEF IInv, UseCaseInv
  <2> QED
    BY <2>1 DEF IInv, Construct, startVars, threadVars, TypeOK, SessionState
<1>2. UseCaseInv'
  BY DEF IInv, Construct, sessionVars, startVars, threadVars, TypeOK, UseCaseInv, Answers, Triple
<1>3. ASSUME NEW s \in Sessions, s # t PROVE SessionInv(s)'
  <2>1. Untouched(s) /\ now' >= now
    BY <1>3, Instants DEF IInv, Construct, sessionVars, startVars, threadVars, TypeOK, Untouched
  <2> QED
    BY <1>1, <2>1, Frame DEF IInv
<1>4. SessionInv(t)'
  BY <1>1, Instants DEF IInv, Construct, sessionVars, startVars, threadVars, TypeOK, SessionInv,
       StateInv, TimeoutInv, StageInv, BetweenInv, LateInv, VerdictInv, Inside, Active,
       Fresh, StageOfSession, TEnd
<1> QED
  BY <1>1, <1>2, <1>3, <1>4 DEF IInv

\* A stop request never disturbs what was decided without it.
LEMMA StopIInv == ASSUME IInv, NEW t \in Sessions, Stop(t) PROVE IInv'
<1>1. TypeOK'
  BY Instants DEF IInv, Stop, sessionVars, startVars, threadVars, TypeOK, SessionState, PC, Test,
       Completion, ThreadPC, StageTyp, Stage
<1>2. UseCaseInv'
  BY DEF IInv, Stop, sessionVars, startVars, threadVars, TypeOK, UseCaseInv, Answers, Triple
<1>3. ASSUME NEW s \in Sessions, s # t PROVE SessionInv(s)'
  <2>1. Untouched(s) /\ now' >= now
    BY <1>3, Instants DEF IInv, Stop, sessionVars, startVars, threadVars, TypeOK, Untouched
  <2> QED
    BY <1>1, <2>1, Frame DEF IInv
<1>4. SessionInv(t)'
  BY <1>1, Instants DEF IInv, Stop, sessionVars, startVars, threadVars, TypeOK, SessionInv,
       StateInv, TimeoutInv, StageInv, BetweenInv, LateInv, VerdictInv, Inside, Active,
       Fresh, StageOfSession, TEnd
<1> QED
  BY <1>1, <1>2, <1>3, <1>4 DEF IInv

\* The call of start() leads to the sleep or straight out again.
LEMMA StartIInv == ASSUME IInv, NEW t \in Sessions, Start(t) PROVE IInv'
<1>1. TypeOK'
  BY Instants DEF IInv, Start, sessionVars, startVars, threadVars, TypeOK, SessionState, PC,
       Test, Completion, ThreadPC, StageTyp, Stage
<1>2. UseCaseInv'
  BY DEF IInv, Start, sessionVars, startVars, threadVars, TypeOK, UseCaseInv, Answers, Triple
<1>3. ASSUME NEW s \in Sessions, s # t PROVE SessionInv(s)'
  <2>1. Untouched(s) /\ now' >= now
    BY <1>3, Instants DEF IInv, Start, sessionVars, startVars, threadVars, TypeOK, Untouched
  <2> QED
    BY <1>1, <2>1, Frame DEF IInv
<1>4. SessionInv(t)'
  BY <1>1, Instants DEF IInv, Start, sessionVars, startVars, threadVars, TypeOK, SessionInv,
       StateInv, TimeoutInv, StageInv, BetweenInv, LateInv, VerdictInv, Inside, Active,
       Fresh, StageOfSession, TEnd
<1> QED
  BY <1>1, <1>2, <1>3, <1>4 DEF IInv

-----------------------------------------------------------------------------
(***************************************************************************)
(* The steps of start()                                                    *)
(***************************************************************************)
\* Where a condition that does not hold leads to.
LEMMA Skipped ==
  ASSUME TypeOK, NEW t \in Sessions, Skip(t)
  PROVE  \/ test[t] = "INIT" /\ test' = [test EXCEPT ![t] = "WITER"] /\ pc' = pc
         \/ test[t] = "WITER" /\ test' = [test EXCEPT ![t] = "LOOP"] /\ pc' = pc
         \/ test[t] = "LOOP" /\ test' = [test EXCEPT ![t] = "FINISH"] /\ pc' = pc
         \/ test[t] = "FINISH" /\ test' = test /\ pc' = [pc EXCEPT ![t] = "verdict"]
<1>1. test[t] \in {"INIT", "WITER", "LOOP", "FINISH"}
  BY DEF TypeOK, Test
<1>2. CASE test[t] = "INIT"
  BY <1>2 DEF Skip
<1>3. CASE test[t] = "WITER"
  BY <1>3 DEF Skip
<1>4. CASE test[t] = "LOOP"
  BY <1>4 DEF Skip
<1>5. CASE test[t] = "FINISH"
  BY <1>5 DEF Skip
<1> QED
  BY <1>1, <1>2, <1>3, <1>4, <1>5

\* Where a stage that is over leads to.
LEMMA Proceeded ==
  ASSUME TypeOK, NEW t \in Sessions, Proceed(t)
  PROVE  \/ /\ test[t] = "FINISH" /\ test' = test
            /\ state' = [state EXCEPT ![t] = "COMPLETED"] /\ pc' = [pc EXCEPT ![t] = "over"]
         \/ /\ test[t] = "INIT" /\ test' = [test EXCEPT ![t] = "WITER"]
            /\ state' = state /\ pc' = [pc EXCEPT ![t] = "test"]
         \/ /\ test[t] \in {"WITER", "LOOP"} /\ test' = [test EXCEPT ![t] = "LOOP"]
            /\ state' = state /\ pc' = [pc EXCEPT ![t] = "test"]
<1>1. test[t] \in {"INIT", "WITER", "LOOP", "FINISH"}
  BY DEF TypeOK, Test
<1> QED
  BY <1>1 DEF Proceed

\* The session runs from here to its verdict.
LEMMA BeginIInv == ASSUME IInv, NEW t \in Sessions, Begin(t) PROVE IInv'
<1>1. TypeOK'
  BY Instants DEF IInv, Begin, sessionVars, startVars, threadVars, TypeOK, SessionState, PC,
       Test, Completion, ThreadPC, StageTyp, Stage
<1>2. UseCaseInv'
  BY DEF IInv, Begin, sessionVars, startVars, threadVars, TypeOK, UseCaseInv, Answers, Triple
<1>3. ASSUME NEW s \in Sessions, s # t PROVE SessionInv(s)'
  <2>1. Untouched(s) /\ now' >= now
    BY <1>3, Instants DEF IInv, Begin, sessionVars, startVars, threadVars, TypeOK, Untouched
  <2> QED
    BY <1>1, <2>1, Frame DEF IInv
<1>4. SessionInv(t)'
  BY <1>1, Instants DEF IInv, Begin, sessionVars, startVars, threadVars, TypeOK, SessionInv,
       StateInv, TimeoutInv, StageInv, BetweenInv, LateInv, VerdictInv, Inside, Active,
       Fresh, StageOfSession, TEnd, TBegin
<1> QED
  BY <1>1, <1>2, <1>3, <1>4 DEF IInv

\* A condition that holds names a stage that may follow the last one.
LEMMA PassIInv == ASSUME IInv, NEW t \in Sessions, Pass(t) PROVE IInv'
<1>1. TypeOK'
  BY Instants DEF IInv, Pass, sessionVars, startVars, threadVars, TypeOK, SessionState, PC, Test,
       Completion, ThreadPC, StageTyp, Stage
<1>2. UseCaseInv'
  BY DEF IInv, Pass, sessionVars, startVars, threadVars, TypeOK, UseCaseInv, Answers, Triple
<1>3. ASSUME NEW s \in Sessions, s # t PROVE SessionInv(s)'
  <2>1. Untouched(s) /\ now' >= now
    BY <1>3, Instants DEF IInv, Pass, sessionVars, startVars, threadVars, TypeOK, Untouched
  <2> QED
    BY <1>1, <2>1, Frame DEF IInv
<1>4. SessionInv(t)'
  BY <1>1, Instants DEF IInv, Pass, sessionVars, startVars, threadVars, TypeOK, SessionInv,
       StateInv, TimeoutInv, StageInv, BetweenInv, LateInv, VerdictInv, Inside, Active,
       Fresh, StageOfSession, TEnd, Asks, Launches
<1> QED
  BY <1>1, <1>2, <1>3, <1>4 DEF IInv

\* A condition that is skipped is skipped for good.
LEMMA SkipIInv == ASSUME IInv, NEW t \in Sessions, Skip(t) PROVE IInv'
<1>0. \/ test[t] = "INIT" /\ test' = [test EXCEPT ![t] = "WITER"] /\ pc' = pc
      \/ test[t] = "WITER" /\ test' = [test EXCEPT ![t] = "LOOP"] /\ pc' = pc
      \/ test[t] = "LOOP" /\ test' = [test EXCEPT ![t] = "FINISH"] /\ pc' = pc
      \/ test[t] = "FINISH" /\ test' = test /\ pc' = [pc EXCEPT ![t] = "verdict"]
  BY Skipped DEF IInv
<1>1. TypeOK'
  BY <1>0 DEF IInv, Skip, sessionVars, threadVars, TypeOK, Test, PC
<1>2. UseCaseInv'
  BY DEF IInv, Skip, sessionVars, startVars, threadVars, TypeOK, UseCaseInv, Answers, Triple
<1>3. ASSUME NEW s \in Sessions, s # t PROVE SessionInv(s)'
  <2>1. Untouched(s) /\ now' >= now
    BY <1>3, Instants DEF IInv, Skip, sessionVars, startVars, threadVars, TypeOK, Untouched
  <2> QED
    BY <1>1, <2>1, Frame DEF IInv
<1>4. SessionInv(t)'
  <2>1. StateInv(t)' /\ BetweenInv(t)' /\ LateInv(t)'
    BY <1>1, <1>0 DEF IInv, Skip, sessionVars, threadVars, TypeOK, SessionInv, StateInv,
         BetweenInv, LateInv, VerdictInv, StageInv, Inside, Active, Fresh
  <2>2. TimeoutInv(t)' /\ VerdictInv(t)'
    BY <1>1, Instants, <1>0 DEF IInv, Skip, sessionVars, threadVars, TypeOK, SessionInv,
         StateInv, BetweenInv, TimeoutInv, VerdictInv, StageInv, Inside, Active, TEnd, Asks
  <2>3. StageInv(t)'
    BY <1>1, <1>0 DEF IInv, Skip, sessionVars, threadVars, TypeOK, SessionInv, StateInv,
         StageInv, TimeoutInv, StageOfSession, Inside, Active, Asks
  <2> QED
    BY <2>1, <2>2, <2>3 DEF SessionInv
<1> QED
  BY <1>1, <1>2, <1>3, <1>4 DEF IInv

\* Launch makes the stage of the condition the last one performed.
LEMMA LaunchIInv == ASSUME IInv, NEW t \in Sessions, Launch(t) PROVE IInv'
<1>1. TypeOK'
  BY Instants DEF IInv, Launch, sessionVars, startVars, threadVars, TypeOK, SessionState, PC,
       Test, Completion, ThreadPC, StageTyp, Stage, Launches
<1>2. UseCaseInv'
  BY DEF IInv, Launch, sessionVars, startVars, threadVars, TypeOK, UseCaseInv, Answers, Triple
<1>3. ASSUME NEW s \in Sessions, s # t PROVE SessionInv(s)'
  <2>1. Untouched(s) /\ now' >= now
    BY <1>3, Instants DEF IInv, Launch, sessionVars, startVars, threadVars, TypeOK, Untouched
  <2> QED
    BY <1>1, <2>1, Frame DEF IInv
<1>4. SessionInv(t)'
  BY <1>1, Instants DEF IInv, Launch, sessionVars, startVars, threadVars, TypeOK, SessionInv,
       StateInv, TimeoutInv, StageInv, BetweenInv, LateInv, VerdictInv, Inside, Active,
       Fresh, StageOfSession, TEnd, Launches
<1> QED
  BY <1>1, <1>2, <1>3, <1>4 DEF IInv

\* The answer of a stage is no timeout.
LEMMA FutureReadyIInv == ASSUME IInv, NEW t \in Sessions, FutureReady(t) PROVE IInv'
<1>0. complet'[t] # "TIMEOUT" /\ state'[t] = "RUNNING" /\ UNCHANGED <<now, resv>>
  BY DEF IInv, FutureReady, UseCaseInv, Answers, sessionVars, TypeOK, SessionInv, StateInv, Inside
<1>1. TypeOK'
  BY Instants DEF IInv, FutureReady, sessionVars, startVars, threadVars, TypeOK, SessionState,
       PC, Test, Completion, ThreadPC, StageTyp, Stage
<1>2. UseCaseInv'
  BY DEF IInv, FutureReady, sessionVars, startVars, threadVars, TypeOK, UseCaseInv, Answers, Triple
<1>3. ASSUME NEW s \in Sessions, s # t PROVE SessionInv(s)'
  <2>1. Untouched(s) /\ now' >= now
    BY <1>3, Instants DEF IInv, FutureReady, sessionVars, startVars, threadVars, TypeOK, Untouched
  <2> QED
    BY <1>1, <2>1, Frame DEF IInv
<1>4. SessionInv(t)'
  <2>1. StateInv(t)' /\ BetweenInv(t)' /\ LateInv(t)'
    BY <1>1, <1>0 DEF IInv, FutureReady, sessionVars, threadVars, TypeOK, SessionInv, StateInv,
         BetweenInv, LateInv, VerdictInv, StageInv, Inside, Active, Fresh
  <2>2. TimeoutInv(t)' /\ VerdictInv(t)'
    BY <1>1, Instants, <1>0 DEF IInv, FutureReady, sessionVars, threadVars, TypeOK, SessionInv,
         StateInv, BetweenInv, TimeoutInv, VerdictInv, StageInv, Inside, Active, TEnd
  <2>3. StageInv(t)'
    BY <1>1, <1>0 DEF IInv, FutureReady, sessionVars, threadVars, TypeOK, SessionInv, StateInv,
         StageInv, TimeoutInv, StageOfSession, Inside, Active
  <2> QED
    BY <2>1, <2>2, <2>3 DEF SessionInv
<1> QED
  BY <1>1, <1>2, <1>3, <1>4 DEF IInv

\* wait_until gives up only at the end of the reservation.
LEMMA FutureTimeoutIInv == ASSUME IInv, NEW t \in Sessions, FutureTimeout(t) PROVE IInv'
<1>1. TypeOK'
  BY Instants DEF IInv, FutureTimeout, sessionVars, startVars, threadVars, TypeOK, SessionState,
       PC, Test, Completion, ThreadPC, StageTyp, Stage
<1>2. UseCaseInv'
  BY DEF IInv, FutureTimeout, sessionVars, startVars, threadVars, TypeOK, UseCaseInv, Answers,
       Triple
<1>3. ASSUME NEW s \in Sessions, s # t PROVE SessionInv(s)'
  <2>1. Untouched(s) /\ now' >= now
    BY <1>3, Instants DEF IInv, FutureTimeout, sessionVars, startVars, threadVars, TypeOK, Untouched
  <2> QED
    BY <1>1, <2>1, Frame DEF IInv
<1>4. SessionInv(t)'
  BY <1>1, Instants DEF IInv, FutureTimeout, sessionVars, startVars, threadVars, TypeOK,
       SessionInv, StateInv, TimeoutInv, StageInv, BetweenInv, LateInv, VerdictInv, Inside, Active,
       Fresh, StageOfSession, TEnd
<1> QED
  BY <1>1, <1>2, <1>3, <1>4 DEF IInv

\* The stage is given up, and its thread left to itself.
LEMMA CancelIInv == ASSUME IInv, NEW t \in Sessions, Cancel(t) PROVE IInv'
<1>0. \/ /\ test[t] = "FINISH" /\ test' = test
         /\ state' = [state EXCEPT ![t] = "COMPLETED"] /\ pc' = [pc EXCEPT ![t] = "over"]
      \/ /\ test[t] = "INIT" /\ test' = [test EXCEPT ![t] = "WITER"]
         /\ state' = state /\ pc' = [pc EXCEPT ![t] = "test"]
      \/ /\ test[t] \in {"WITER", "LOOP"} /\ test' = [test EXCEPT ![t] = "LOOP"]
         /\ state' = state /\ pc' = [pc EXCEPT ![t] = "test"]
  BY Proceeded DEF IInv, Cancel
<1>1. TypeOK'
  BY <1>0 DEF IInv, Cancel, threadVars, TypeOK, SessionState, PC, Test, Completion
<1>2. UseCaseInv'
  BY DEF IInv, Cancel, sessionVars, startVars, threadVars, TypeOK, UseCaseInv, Answers, Triple,
       Proceed
<1>3. ASSUME NEW s \in Sessions, s # t PROVE SessionInv(s)'
  <2>1. Untouched(s) /\ now' >= now
    BY <1>3, Instants DEF IInv, Cancel, sessionVars, startVars, threadVars, TypeOK, Untouched,
         Proceed, Launches
  <2> QED
    BY <1>1, <2>1, Frame DEF IInv
<1>4. SessionInv(t)'
  <2>1. StateInv(t)' /\ BetweenInv(t)' /\ LateInv(t)'
    BY <1>1, <1>0 DEF IInv, Cancel, threadVars, Launches, TypeOK, SessionInv, StateInv,
         BetweenInv, LateInv, VerdictInv, StageInv, Inside, Active, Fresh
  <2>2. TimeoutInv(t)' /\ VerdictInv(t)'
    BY <1>1, Instants, <1>0 DEF IInv, Cancel, threadVars, Launches, TypeOK, SessionInv, StateInv,
         BetweenInv, TimeoutInv, VerdictInv, StageInv, Inside, Active, TEnd
  <2>3. StageInv(t)'
    BY <1>1, <1>0 DEF IInv, Cancel, threadVars, Launches, TypeOK, SessionInv, StateInv, StageInv,
         TimeoutInv, StageOfSession, Inside, Active
  <2> QED
    BY <2>1, <2>2, <2>3 DEF SessionInv
<1> QED
  BY <1>1, <1>2, <1>3, <1>4 DEF IInv

\* The thread has ended before the next condition.
LEMMA JoinIInv == ASSUME IInv, Answered, NEW t \in Sessions, Join(t) PROVE IInv'
<1> thread[t] = "exit"
  BY DEF Answered, AnswerInv, Join
<1>0. \/ /\ test[t] = "FINISH" /\ test' = test
         /\ state' = [state EXCEPT ![t] = "COMPLETED"] /\ pc' = [pc EXCEPT ![t] = "over"]
      \/ /\ test[t] = "INIT" /\ test' = [test EXCEPT ![t] = "WITER"]
         /\ state' = state /\ pc' = [pc EXCEPT ![t] = "test"]
      \/ /\ test[t] \in {"WITER", "LOOP"} /\ test' = [test EXCEPT ![t] = "LOOP"]
         /\ state' = state /\ pc' = [pc EXCEPT ![t] = "test"]
  BY Proceeded DEF IInv, Join
<1>1. TypeOK'
  BY <1>0 DEF IInv, Join, threadVars, TypeOK, SessionState, PC, Test, Completion
<1>2. UseCaseInv'
  BY DEF IInv, Join, sessionVars, startVars, threadVars, TypeOK, UseCaseInv, Answers, Triple,
       Proceed
<1>3. ASSUME NEW s \in Sessions, s # t PROVE SessionInv(s)'
  <2>1. Untouched(s) /\ now' >= now
    BY <1>3, Instants DEF IInv, Join, sessionVars, startVars, threadVars, TypeOK, Untouched,
         Proceed, Launches
  <2> QED
    BY <1>1, <2>1, Frame DEF IInv
<1>4. SessionInv(t)'
  <2>1. StateInv(t)' /\ BetweenInv(t)' /\ LateInv(t)'
    BY <1>1, <1>0 DEF IInv, Join, threadVars, Launches, TypeOK, SessionInv, StateInv, BetweenInv,
         LateInv, VerdictInv, StageInv, Inside, Active, Fresh
  <2>2. TimeoutInv(t)' /\ VerdictInv(t)'
    BY <1>1, Instants, <1>0 DEF IInv, Join, threadVars, Launches, TypeOK, SessionInv, StateInv,
         BetweenInv, TimeoutInv, VerdictInv, StageInv, Inside, Active, TEnd
  <2>3. StageInv(t)'
    BY <1>1, <1>0 DEF IInv, Join, threadVars, Launches, TypeOK, SessionInv, StateInv, StageInv,
         TimeoutInv, StageOfSession, Inside, Active
  <2> QED
    BY <2>1, <2>2, <2>3 DEF SessionInv
<1> QED
  BY <1>1, <1>2, <1>3, <1>4 DEF IInv

\* The verdict says what happened.
LEMMA VerdictIInv == ASSUME IInv, NEW t \in Sessions, Verdict(t) PROVE IInv'
<1>1. TypeOK'
  BY Instants DEF IInv, Verdict, sessionVars, startVars, threadVars, TypeOK, SessionState, PC,
       Test, Completion, ThreadPC, StageTyp, Stage
<1>2. UseCaseInv'
  BY DEF IInv, Verdict, sessionVars, startVars, threadVars, TypeOK, UseCaseInv, Answers, Triple
<1>3. ASSUME NEW s \in Sessions, s # t PROVE SessionInv(s)'
  <2>1. Untouched(s) /\ now' >= now
    BY <1>3, Instants DEF IInv, Verdict, sessionVars, startVars, threadVars, TypeOK, Untouched
  <2> QED
    BY <1>1, <2>1, Frame DEF IInv
<1>4. SessionInv(t)'
  BY <1>1, Instants DEF IInv, Verdict, sessionVars, startVars, threadVars, TypeOK, SessionInv,
       StateInv, TimeoutInv, StageInv, BetweenInv, LateInv, VerdictInv, Inside, Active,
       Fresh, StageOfSession, TEnd
<1> QED
  BY <1>1, <1>2, <1>3, <1>4 DEF IInv

-----------------------------------------------------------------------------
(***************************************************************************)
(* The steps of a stage thread                                             *)
(***************************************************************************)

\* What the stores of a stage thread leave of the types, and of the use case.
LEMMA ThreadTypes ==
  ASSUME IInv, NEW t \in Sessions, ThreadStep(t)
  PROVE  TypeOK' /\ UseCaseInv'
<1> USE DEF IInv, To, sessionVars, startVars, TypeOK, UseCaseInv
<1>1. CASE Enter(t) \/ Wake(t) \/ Die(t)
  <2>1. TypeOK'
    <3>1. thread' \in [Sessions -> ThreadPC]
      <4>1. \E p \in {"mark", "refuse", "quit", "dead"} : thread' = [thread EXCEPT ![t] = p]
        BY <1>1 DEF Enter, Wake, Die
      <4> QED
        BY <4>1 DEF ThreadPC
    <3>2. wake' \in [Sessions -> 0 .. MaxTime]
      BY <1>1, Instants DEF Enter, Wake, Die
    <3> QED
      BY <1>1, <3>1, <3>2 DEF Enter, Wake, Die
  <2>2. UseCaseInv'
    BY <1>1 DEF Enter, Wake, Die, Triple
  <2> QED
    BY <2>1, <2>2
<1>2. CASE EnterRefused(t)
  BY <1>2 DEF EnterRefused, Refuse, UseCases, Completion, ThreadPC, Answers, Triple
<1>3. CASE Mark(t)
  <2>1. StageOf[typ[t]] \in Stage
    BY DEF StageTyp, StageOf, Stage
  <2>2. uc' \in UseCases
    BY <1>3, <2>1 DEF Mark, EnterMark, UseCases
  <2> QED
    BY <1>3, <2>2 DEF Mark, EnterMark, UseCases, ThreadPC, Triple
<1>4. CASE Fill(t)
  <2>1. uc' \in UseCases
    <3>1. uc.current_work_iter + 1 \in Nat
      BY DEF UseCases
    <3> QED
      BY <1>4, <3>1 DEF Fill, EnterFill, UseCases, Completion
  <2>2. wake' \in [Sessions -> 0 .. MaxTime]
    <3>1. StageDelay(uc, typ[t]) \in Int
      BY DEF UseCases, StageTyp, StageDelay
    <3> QED
      BY <1>4, <3>1, Instants DEF Fill
  <2>3. UseCaseInv'
    BY <1>4 DEF Fill, EnterFill, UseCases, Answers, Triple
  <2> QED
    BY <1>4, <2>1, <2>2, <2>3 DEF Fill, ThreadPC
<1>5. CASE Quit(t)
  <2>1. QuitTo(uc) \in Stage \X Completion /\ QuitTo(uc)[2] \in Answers
    BY DEF QuitTo, UseCases, Stage, Completion, Answers
  <2> QED
    BY <1>5, <2>1 DEF Quit, ThreadPC, Triple
<1>6. CASE MarkQuit(t)
  BY <1>6 DEF MarkQuit, UseCases, ThreadPC, Triple
<1>7. CASE FillQuit(t)
  <2>1. TypeOK'
    BY <1>7 DEF FillQuit, UseCases, NoGoal, Stage, Completion, ThreadPC
  <2>2. UseCaseInv'
    BY <1>7 DEF FillQuit, UseCases, NoGoal, Answers, Triple
  <2> QED
    BY <2>1, <2>2
<1>8. CASE Answer(t)
  <2>1. TypeOK'
    BY <1>8 DEF Answer, UseCases, ThreadPC
  <2>2. UseCaseInv'
    BY <1>8 DEF Answer, Answers, Triple
  <2> QED
    BY <2>1, <2>2
<1> QED
  BY <1>1, <1>2, <1>3, <1>4, <1>5, <1>6, <1>7, <1>8 DEF ThreadStep

\* A stage thread at work does not touch its session, which has not ended STOPPED.
LEMMA ThreadStepIInv == ASSUME IInv, NEW t \in Sessions, ThreadStep(t) PROVE IInv'
<1>1. TypeOK' /\ UseCaseInv'
  BY ThreadTypes
<1>2. /\ UNCHANGED <<now, state, resv, stop_requested, pc, test, complet, late, typ>>
      /\ thread[t] \notin {"none", "exit", "dead", "stray"}
      /\ \E p \in ThreadPC \ {"none"} : thread' = [thread EXCEPT ![t] = p]
  BY DEF ThreadStep, Enter, EnterRefused, Mark, Fill, Wake, Die, Quit, MarkQuit, FillQuit, Answer,
     To, ThreadPC, sessionVars, startVars
<1>3. ASSUME NEW s \in Sessions, s # t PROVE SessionInv(s)'
  <2>1. Untouched(s) /\ now' >= now
    BY <1>2, <1>3, Instants DEF IInv, TypeOK, Untouched
  <2> QED
    BY <1>1, <2>1, Frame DEF IInv
<1>4. SessionInv(t)'
  <2>1. thread[t] \notin {"none", "exit"} /\ thread'[t] # "none"
    BY <1>2 DEF IInv, TypeOK
  <2>2. StateInv(t)' /\ TimeoutInv(t)' /\ LateInv(t)'
    BY <1>2 DEF IInv, SessionInv, StateInv, TimeoutInv, LateInv, Inside, Fresh, TEnd
  <2>3. StageInv(t)' /\ BetweenInv(t)' /\ VerdictInv(t)'
    BY <1>2, <2>1 DEF IInv, SessionInv, StageInv, BetweenInv, VerdictInv, StageOfSession, Active,
       TEnd
  <2> QED
    BY <2>2, <2>3 DEF SessionInv
<1> QED
  BY <1>1, <1>3, <1>4 DEF IInv

-----------------------------------------------------------------------------
(***************************************************************************)
(* Every step                                                              *)
(***************************************************************************)

\* main slows the use case down.
LEMMA SetTooSlowIInv == ASSUME IInv, SetTooSlow PROVE IInv'
<1>1. TypeOK'
  BY DEF IInv, SetTooSlow, sessionVars, startVars, threadVars, TypeOK, UseCases
<1>2. UseCaseInv'
  BY DEF IInv, SetTooSlow, sessionVars, startVars, threadVars, TypeOK, UseCases, UseCaseInv,
       Answers, Triple
<1>3. ASSUME NEW s \in Sessions PROVE SessionInv(s)'
  <2>1. Untouched(s) /\ now' >= now
    BY Instants DEF IInv, SetTooSlow, sessionVars, startVars, threadVars, Untouched
  <2> QED
    BY <1>1, <2>1, Frame DEF IInv
<1> QED
  BY <1>1, <1>2, <1>3 DEF IInv

\* Time passes: a reservation that is over stays over.
LEMMA TickIInv == ASSUME IInv, Tick PROVE IInv'
<1>1. TypeOK'
  BY Instants DEF IInv, Tick, sessionVars, startVars, threadVars, TypeOK
<1>2. UseCaseInv'
  BY DEF IInv, Tick, sessionVars, startVars, threadVars, UseCaseInv, Answers, Triple
<1>3. ASSUME NEW s \in Sessions PROVE SessionInv(s)'
  <2>1. Untouched(s) /\ now' >= now
    BY Instants DEF IInv, Tick, sessionVars, startVars, threadVars, Untouched
  <2> QED
    BY <1>1, <2>1, Frame DEF IInv
<1> QED
  BY <1>1, <1>2, <1>3 DEF IInv

\* A step that changes nothing.
LEMMA StutterIInv == ASSUME IInv, UNCHANGED vars PROVE IInv'
<1>1. TypeOK' /\ UseCaseInv'
  BY DEF IInv, vars, TypeOK, UseCaseInv, Triple
<1>2. ASSUME NEW s \in Sessions PROVE SessionInv(s)'
  <2>1. Untouched(s) /\ now' >= now
    BY Instants DEF IInv, vars, Untouched
  <2> QED
    BY <1>1, <2>1, Frame DEF IInv
<1> QED
  BY <1>1, <1>2 DEF IInv

\* Every step keeps the invariant.
LEMMA NextIInv == IInv /\ Answered /\ [Next]_vars => IInv'
<1> SUFFICES ASSUME IInv, Answered, [Next]_vars PROVE IInv'
  OBVIOUS
<1>1. CASE Main
  BY <1>1, SetTooSlowIInv, StartIInv, StopIInv, ConstructIInv DEF Main
<1>2. CASE Tick
  BY <1>2, TickIInv
<1>3. CASE Ended \/ UNCHANGED vars
  BY <1>3, StutterIInv DEF Ended
<1>4. ASSUME NEW s \in Sessions, StartStep(s) PROVE IInv'
  BY <1>4, BeginIInv, PassIInv, SkipIInv, LaunchIInv, FutureReadyIInv, FutureTimeoutIInv,
       CancelIInv,
     JoinIInv, VerdictIInv DEF StartStep
<1>5. ASSUME NEW s \in Sessions, ThreadStep(s) PROVE IInv'
  BY <1>5, ThreadStepIInv
<1> QED
  BY <1>1, <1>2, <1>3, <1>4, <1>5 DEF Next

\* Only the answer of a stage thread, its last step, fills the promise.
LEMMA ThreadAnswers ==
  ASSUME TypeOK, Answered, NEW t \in Sessions, ThreadStep(t), NEW s \in Sessions
  PROVE  AnswerInv(s)'
<1> USE DEF TypeOK, Answered
<1>1. pc' = pc
  BY DEF ThreadStep, Enter, EnterRefused, Mark, Fill, Wake, Die, Quit, MarkQuit, FillQuit, Answer,
     startVars
<1>2. CASE Answer(t)
  <2>1. \/ /\ promise[t] = "empty" /\ thread' = [thread EXCEPT ![t] = "exit"]
           /\ promise' = [promise EXCEPT ![t] = uc.current_completion]
        \/ thread' = [thread EXCEPT ![t] = "stray"] /\ promise' = promise
    BY <1>2 DEF Answer, To
  <2>2. thread[t] = "answer" /\ uc.current_completion \in Completion
    BY <1>2 DEF Answer, UseCases
  <2> QED
    BY <1>1, <2>1, <2>2 DEF AnswerInv, Completion
<1>3. CASE ~Answer(t)
  <2>1. thread[t] # "exit" /\ promise' = promise
    BY <1>3 DEF ThreadStep, Enter, EnterRefused, Mark, Fill, Wake, Die, Quit, MarkQuit, FillQuit,
       To, startVars
  <2>2. \E p \in ThreadPC : thread' = [thread EXCEPT ![t] = p]
    BY <1>3 DEF ThreadStep, Enter, EnterRefused, Mark, Fill, Wake, Die, Quit, MarkQuit, FillQuit,
       To, ThreadPC
  <2> QED
    BY <1>1, <2>1, <2>2 DEF AnswerInv
<1> QED
  BY <1>2, <1>3

\* start() makes the promise empty before a thread is launched, and joins only
\* when it has read a value.
LEMMA StartAnswers ==
  ASSUME TypeOK, Answered, NEW t \in Sessions, StartStep(t), NEW s \in Sessions
  PROVE  AnswerInv(s)'
<1> USE DEF TypeOK, Answered, sessionVars, startVars, threadVars
<1>1. CASE Begin(t) \/ Pass(t) \/ Launch(t)
  BY <1>1 DEF Begin, Pass, Launch, AnswerInv, Completion
<1>2. CASE FutureReady(t) \/ FutureTimeout(t) \/ Verdict(t)
  BY <1>2 DEF FutureReady, FutureTimeout, Verdict, AnswerInv
<1>3. CASE Skip(t)
  BY <1>3, Skipped DEF Skip, AnswerInv
<1>4. CASE Cancel(t) \/ Join(t)
  <2>1. /\ thread' = thread /\ pc' \in {[pc EXCEPT ![t] = "over"], [pc EXCEPT ![t] = "test"]}
        /\ promise' \in {[promise EXCEPT ![t] = "gone"], [promise EXCEPT ![t] = "none"]}
    BY <1>4, Proceeded DEF Cancel, Join
  <2> QED
    BY <2>1 DEF AnswerInv, Completion
<1> QED
  BY <1>1, <1>2, <1>3, <1>4 DEF StartStep

LEMMA NextAnswered == IInv /\ Answered /\ [Next]_vars => Answered'
<1> SUFFICES ASSUME IInv, Answered, [Next]_vars, NEW s \in Sessions PROVE AnswerInv(s)'
  BY DEF Answered
<1> USE DEF IInv, TypeOK, Answered, sessionVars, startVars, threadVars
<1>1. CASE SetTooSlow \/ Tick \/ Ended \/ UNCHANGED vars
  BY <1>1 DEF SetTooSlow, Tick, Ended, vars, AnswerInv
<1>2. ASSUME NEW t \in Sessions,
             Start(t) \/ Stop(t) \/ \E r \in Reservations[Triple] : Construct(t, r)
      PROVE  AnswerInv(s)'
  BY <1>2 DEF Start, Stop, Construct, AnswerInv
<1>3. ASSUME NEW t \in Sessions, StartStep(t) \/ ThreadStep(t)
      PROVE  AnswerInv(s)'
  BY <1>3, StartAnswers, ThreadAnswers
<1> QED
  BY <1>1, <1>2, <1>3 DEF Next, Main

\* The two invariants hold throughout.
LEMMA Invariance == Spec => [](IInv /\ Answered)
<1>1. Init => IInv /\ Answered
  BY InitIInv DEF Init, Answered, AnswerInv, Completion
<1> QED
  BY <1>1, NextIInv, NextAnswered, PTL DEF Spec

\* Every variable keeps its type, for any sessions, durations and reservations.
THEOREM TypeCorrect == Spec => []TypeOK
<1>1. IInv => TypeOK
  BY DEF IInv
<1> QED
  BY <1>1, Invariance, PTL

\* A verdict says what happened, however many sessions share the use case: KILLED
\* after the reservation, STOPPED after stop(), COMPLETED after the finish stage.
THEOREM VerdictsAreJustified == Spec => []VerdictJustified
<1>1. IInv => VerdictJustified
  BY DEF IInv, SessionInv, VerdictInv, VerdictJustified
<1> QED
  BY <1>1, Invariance, PTL

\* At most one stage is launched after stop().
THEOREM StopsAreHonoured == Spec => []StopHonoured
<1>1. IInv => StopHonoured
  BY DEF IInv, SessionInv, LateInv, StopHonoured
<1> QED
  BY <1>1, Invariance, PTL

\* A session that ends STOPPED has no thread in the use case.
THEOREM StopsBetweenStages == Spec => []StoppedBetweenStages
<1>1. IInv => StoppedBetweenStages
  BY DEF IInv, SessionInv, VerdictInv, StoppedBetweenStages
<1> QED
  BY <1>1, Invariance, PTL

-----------------------------------------------------------------------------
(***************************************************************************)
(* The lifecycle                                                           *)
(***************************************************************************)

\* Whether the reservation of a session is over.
Due(s) == state[s] # "none" /\ now >= TEnd(s)

\* A step in which nothing is to be seen of a session.
Invisible(s) ==
  /\ state'[s] = state[s] /\ stop_requested'[s] = stop_requested[s]
  /\ StageOfSession(s)' = StageOfSession(s)
  /\ Active(s)' <=> Active(s)
  /\ Due(s)' <=> Due(s)
  /\ complet'[s] = "TIMEOUT" <=> complet[s] = "TIMEOUT"

\* Nothing to be seen of any session is nothing at all for the lifecycle.
LEMMA AllInvisible ==
  ASSUME TypeOK, TypeOK', \A s \in Sessions : Invisible(s)
  PROVE  UNCHANGED Lifecycle!vars
<1>1. state' = state /\ stop_requested' = stop_requested
  BY DEF TypeOK, Invisible
<1> QED
  BY <1>1 DEF Lifecycle!vars, Invisible, StageOfSession, Active, Due

\* What every step of a thread inside start() has in common for the lifecycle.
LEMMA Hidden ==
  ASSUME IInv, IInv', NEW t \in Sessions,
         Start(t) \/ Pass(t) \/ Skip(t) \/ FutureReady(t) \/ FutureTimeout(t) \/ ThreadStep(t)
  PROVE  UNCHANGED Lifecycle!vars
<1>1. UNCHANGED <<now, state, resv, stop_requested, typ>>
  BY DEF Start, Pass, Skip, FutureReady, FutureTimeout, ThreadStep, Enter, EnterRefused, Mark,
       Fill, Wake,
     Die, Quit, MarkQuit, FillQuit, Answer, To, sessionVars, threadVars
<1>2. ASSUME NEW s \in Sessions
      PROVE  /\ thread'[s] = "none" <=> thread[s] = "none"
             /\ Active(s)' <=> Active(s)
             /\ complet'[s] = "TIMEOUT" <=> complet[s] = "TIMEOUT"
  <2>1. CASE ThreadStep(t)
    BY <2>1 DEF IInv, TypeOK, ThreadStep, Enter, EnterRefused, Mark, Fill, Wake, Die, Quit,
         MarkQuit,
       FillQuit, Answer, To, startVars, Active
  <2>2. CASE Start(t) \/ Pass(t) \/ Skip(t) \/ FutureTimeout(t)
    BY <2>2 DEF IInv, TypeOK, Start, Pass, Skip, FutureTimeout, threadVars, Active
  <2>3. CASE FutureReady(t)
    <3>1. complet'[t] # "TIMEOUT" /\ complet[t] # "TIMEOUT"
      BY <2>3 DEF IInv, TypeOK, FutureReady, UseCaseInv, Answers, SessionInv, TimeoutInv
    <3> QED
      BY <2>3, <3>1 DEF IInv, TypeOK, FutureReady, threadVars, Active
  <2> QED
    BY <2>1, <2>2, <2>3
<1>3. \A s \in Sessions : Invisible(s)
  BY <1>1, <1>2 DEF Invisible, StageOfSession, Due, TEnd
<1> QED
  BY <1>3, AllInvisible DEF IInv

\* The constructor is the reservation.
LEMMA ConstructReserves ==
  ASSUME IInv, IInv', NEW t \in Sessions, NEW r \in Reservations[Triple], Construct(t, r)
  PROVE  Lifecycle!Reserve(t)
<1>1. stop_requested' = stop_requested
  BY DEF IInv, TypeOK, Construct, SessionInv, StateInv
<1>2. ASSUME NEW s \in Sessions, s # t PROVE Due(s)' <=> Due(s)
  BY <1>2 DEF IInv, TypeOK, Construct, Due, TEnd
<1>3. ~Due(t)
  BY DEF Construct, Due
<1>4. PICK v \in {"READY", "ERROR"} : state' = [state EXCEPT ![t] = v]
  BY DEF Construct
<1>5. Due(t)' \in BOOLEAN
  BY DEF Due
<1>6. [s \in Sessions |-> Due(s)]' = [[s \in Sessions |-> Due(s)] EXCEPT ![t] = Due(t)']
  <2>1. \A s \in Sessions : Due(s)' = IF s = t THEN Due(t)' ELSE Due(s)
    BY <1>2 DEF Due
  <2> QED
    BY <2>1
<1> QED
  BY <1>1, <1>4, <1>5, <1>6 DEF Construct, Due, startVars, threadVars, Lifecycle!Reserve

\* stop() is the request.
LEMMA StopRequests ==
  ASSUME IInv, NEW t \in Sessions, Stop(t) PROVE Lifecycle!RequestStop(t)
  BY DEF Stop, startVars, threadVars, TEnd, Lifecycle!RequestStop

\* The clock may end any number of reservations.
LEMMA TickExpires == ASSUME IInv, IInv', Tick PROVE Lifecycle!Expire
<1>1. now \in Nat /\ now' \in Nat /\ now' >= now /\ \A s \in Sessions : TEnd(s) \in Nat
  BY Instants DEF IInv, Tick
<1>2. UNCHANGED <<state, resv, stop_requested, thread, typ, pc, complet>>
  BY DEF Tick, sessionVars, startVars, threadVars
<1>3. \A s \in Sessions : (Due(s) => Due(s)') /\ (state[s] = "none" => ~Due(s)')
  BY <1>1, <1>2 DEF Due, TEnd
<1>4. [s \in Sessions |-> Due(s)]' \in [Sessions -> BOOLEAN]
  BY DEF Due
<1> QED
  BY <1>2, <1>3, <1>4 DEF Due, Lifecycle!Expire

\* The end of sleep_until is where the session runs.
LEMMA BeginRuns ==
  ASSUME IInv, NEW t \in Sessions, Begin(t) PROVE Lifecycle!Run(t)
<1>1. state[t] = "READY" /\ state' = [state EXCEPT ![t] = "RUNNING"]
  BY DEF IInv, Begin, SessionInv, StateInv
<1>2. \A s \in Sessions : Active(s)' <=> Active(s)
  BY DEF IInv, TypeOK, Begin, Active
<1>3. \A s \in Sessions : Due(s)' <=> Due(s)
  BY <1>1 DEF IInv, TypeOK, Begin, Due, TEnd
<1> QED
  BY <1>1, <1>2, <1>3 DEF Begin, threadVars, Active, Due, Lifecycle!Run

\* The launch of a stage thread is the stage's begin.
LEMMA LaunchPerforms ==
  ASSUME IInv, NEW t \in Sessions, Launch(t)
  PROVE  \E x \in {"INIT", "WITER", "FINISH"} : Lifecycle!Perform(t, x)
<1> DEFINE x == Launches[test[t]]
<1>1. x \in {"INIT", "WITER", "FINISH"}
  BY DEF IInv, TypeOK, Test, Launches
<1>2. state[t] = "RUNNING" /\ ~Active(t) /\ complet[t] # "TIMEOUT"
  BY DEF IInv, Launch, SessionInv, StateInv, TimeoutInv, Inside, Active
<1>3. <<StageOfSession(t), x>> \in Lifecycle!Follows
  BY DEF IInv, Launch, SessionInv, StageInv, Lifecycle!Follows
<1>4. [s \in Sessions |-> StageOfSession(s)]' = [[s \in Sessions |-> StageOfSession(s)] EXCEPT ![t] = x]
  BY DEF IInv, TypeOK, Launch, StageOfSession
<1>5. [s \in Sessions |-> Active(s)]' = [[s \in Sessions |-> Active(s)] EXCEPT ![t] = TRUE]
  BY DEF IInv, TypeOK, Launch, Active
<1> HIDE DEF x
<1> QED
  BY <1>1, <1>2, <1>3, <1>4, <1>5 DEF Launch, sessionVars, StageOfSession, Active, TEnd,
       Lifecycle!Perform

\* join, or the detachment of a thread given up, is the stage's end.
LEMMA StageEnds ==
  ASSUME IInv, NEW t \in Sessions, Cancel(t) \/ Join(t) PROVE Lifecycle!StageOver(t)
<1>1. Proceed(t) /\ UNCHANGED <<now, resv, stop_requested, thread, typ>>
  BY DEF Cancel, Join, threadVars
<1>2. Active(t) /\ state[t] = "RUNNING" /\ thread[t] # "none" /\ typ[t] = Launches[test[t]]
  BY DEF IInv, Cancel, Join, SessionInv, StateInv, StageInv, Inside, Active
<1>3. \/ test[t] = "FINISH" /\ StageOfSession(t) = "FINISH"
         /\ state' = [state EXCEPT ![t] = "COMPLETED"]
      \/ test[t] # "FINISH" /\ StageOfSession(t) # "FINISH" /\ state' = state
  BY <1>1, <1>2, Proceeded DEF IInv, TypeOK, Test, Launches, StageOfSession
<1>4. state' = [state EXCEPT ![t] = IF StageOfSession(t) = "FINISH" THEN "COMPLETED" ELSE @]
  BY <1>3 DEF IInv, TypeOK
<1>5. [s \in Sessions |-> Active(s)]' = [[s \in Sessions |-> Active(s)] EXCEPT ![t] = FALSE]
  <2>1. pc' = [pc EXCEPT ![t] = "over"] \/ pc' = [pc EXCEPT ![t] = "test"]
    BY <1>1, Proceeded DEF IInv
  <2>2. \A s \in Sessions : pc'[s] = IF s = t THEN pc'[t] ELSE pc[s]
    BY <2>1 DEF IInv, TypeOK
  <2>3. pc'[t] \in {"over", "test"}
    BY <2>1 DEF IInv, TypeOK
  <2>4. \A s \in Sessions : Active(s)' = IF s = t THEN FALSE ELSE Active(s)
    <3>1. ASSUME NEW s \in Sessions, s # t PROVE Active(s)' = Active(s)
      BY <2>2, <3>1 DEF Active
    <3>2. Active(t)' = FALSE
      BY <2>3 DEF Active
    <3> QED
      BY <3>1, <3>2
  <2> QED
    BY <2>4
<1>6. \A s \in Sessions : Due(s)' <=> Due(s)
  BY <1>1, <1>2, <1>4 DEF IInv, TypeOK, Due, TEnd
<1>7. [s \in Sessions |-> Due(s)]' = [s \in Sessions |-> Due(s)]
  BY <1>6 DEF Due
<1>8. [s \in Sessions |-> StageOfSession(s)]' = [s \in Sessions |-> StageOfSession(s)]
  BY <1>1 DEF StageOfSession
<1>9. \/ UNCHANGED complet
      \/ Due(t) /\ [s \in Sessions |-> complet'[s] = "TIMEOUT"] =
                     [[s \in Sessions |-> complet[s] = "TIMEOUT"] EXCEPT ![t] = TRUE]
  <2>1. CASE Join(t)
    BY <2>1 DEF Join
  <2>2. CASE Cancel(t)
    <3>1. Due(t)
      BY <2>2, <1>2 DEF IInv, Cancel, SessionInv, TimeoutInv, Due
    <3> QED
      BY <2>2, <3>1 DEF IInv, TypeOK, Cancel
  <2> QED
    BY <2>1, <2>2
<1> QED
  BY <1>1, <1>2, <1>4, <1>5, <1>7, <1>8, <1>9 DEF StageOfSession, Active, Due, Lifecycle!StageOver

\* The else branch gives the verdict, or none.
LEMMA VerdictGiven ==
  ASSUME IInv, IInv', NEW t \in Sessions, Verdict(t)
  PROVE  Lifecycle!GiveVerdict(t) \/ UNCHANGED Lifecycle!vars
<1>1. state[t] = "RUNNING" /\ ~Active(t) /\ StageOfSession(t) # "FINISH"
  BY DEF IInv, Verdict, SessionInv, StateInv, StageInv, Inside, Active
<1>2. \A s \in Sessions : Active(s)' <=> Active(s)
  BY DEF IInv, TypeOK, Verdict, Active
<1>3. \A s \in Sessions : Due(s)' <=> Due(s)
  BY <1>1 DEF IInv, TypeOK, Verdict, Due, TEnd
<1>4. CASE complet[t] = "TIMEOUT" \/ stop_requested[t]
  <2>1. UNCHANGED <<stop_requested, complet, thread, typ>>
    BY DEF Verdict, threadVars
  <2>2. \/ complet[t] = "TIMEOUT" /\ state' = [state EXCEPT ![t] = "KILLED"]
        \/ complet[t] # "TIMEOUT" /\ stop_requested[t] /\ state' = [state EXCEPT ![t] = "STOPPED"]
    BY <1>4 DEF Verdict
  <2>3. [s \in Sessions |-> Active(s)]' = [s \in Sessions |-> Active(s)]
    BY <1>2 DEF Active
  <2>4. [s \in Sessions |-> Due(s)]' = [s \in Sessions |-> Due(s)]
    BY <1>3 DEF Due
  <2> QED
    BY <1>1, <2>1, <2>2, <2>3, <2>4 DEF StageOfSession, Active, Due, Lifecycle!GiveVerdict
<1>5. CASE ~(complet[t] = "TIMEOUT" \/ stop_requested[t])
  <2>1. \A s \in Sessions : Invisible(s)
    BY <1>2, <1>3, <1>5 DEF IInv, TypeOK, Verdict, threadVars, Invisible, StageOfSession
  <2> QED
    BY <2>1, AllInvisible DEF IInv
<1> QED
  BY <1>4, <1>5

\* Every step of the threads is a step of the lifecycle, or is not to be seen.
LEMMA StepRefines ==
  ASSUME IInv, IInv', [Next]_vars PROVE [Lifecycle!Next]_(Lifecycle!vars)
<1>1. CASE SetTooSlow \/ Ended \/ UNCHANGED vars
  <2>1. \A s \in Sessions : Invisible(s)
    BY <1>1 DEF SetTooSlow, Ended, vars, sessionVars, startVars, threadVars, Invisible,
         StageOfSession,
       Active, Due, TEnd
  <2> QED
    BY <2>1, AllInvisible DEF IInv
<1>2. CASE Tick
  BY <1>2, TickExpires DEF Lifecycle!Next
<1>3. ASSUME NEW s \in Sessions, Start(s) \/ Stop(s) \/ \E r \in Reservations[Triple] : Construct(s, r)
      PROVE  [Lifecycle!Next]_(Lifecycle!vars)
  BY <1>3, Hidden, StopRequests, ConstructReserves DEF Lifecycle!Next
<1>4. ASSUME NEW s \in Sessions, StartStep(s) PROVE [Lifecycle!Next]_(Lifecycle!vars)
  BY <1>4, Hidden, BeginRuns, LaunchPerforms, StageEnds, VerdictGiven
     DEF StartStep, Lifecycle!Next, Lifecycle!Step
<1>5. ASSUME NEW s \in Sessions, ThreadStep(s) PROVE [Lifecycle!Next]_(Lifecycle!vars)
  BY <1>5, Hidden
<1> QED
  BY <1>1, <1>2, <1>3, <1>4, <1>5 DEF Next, Main

\* The lifecycle without what must happen.
LifecycleSafety == Lifecycle!Init /\ [][Lifecycle!Next]_(Lifecycle!vars)

\* Every session keeps the order of the stages and the meaning of the verdicts,
\* however many share the use case and however late their threads are.
THEOREM LifecycleImplemented == Spec => LifecycleSafety
<1>1. Init => Lifecycle!Init
  <2> SUFFICES ASSUME Init PROVE Lifecycle!Init
    OBVIOUS
  <2>1. \A s \in Sessions : /\ StageOfSession(s) = "none"
                            /\ Active(s) = FALSE /\ Due(s) = FALSE /\ (complet[s] = "TIMEOUT") = FALSE
    BY DEF Init, StageOfSession, Active, Due
  <2> QED
    BY <2>1 DEF Init, StageOfSession, Active, Due, Lifecycle!Init
<1>2. IInv /\ IInv' /\ [Next]_vars => [Lifecycle!Next]_(Lifecycle!vars)
  BY StepRefines
<1> QED
  BY <1>1, <1>2, Invariance, PTL DEF Spec, LifecycleSafety
-----------------------------------------------------------------------------
(***************************************************************************)
(* The reservation, when no thread is late                                 *)
(***************************************************************************)

\* What is waited for comes: join returns at once, and a reservation that was
\* accepted ends after it begins.
WaitInv(s) ==
  /\ AnswerInv(s)
  /\ state[s] \in {"READY", "RUNNING"} => TBegin(s) <= TEnd(s)

\* One session keeps to its reservation.
Held(s) == pc[s] \notin {"out", "over"} => now <= TEnd(s) \/ now <= asked[s]

TimeInv ==
  /\ IInv
  /\ \A s \in Sessions : WaitInv(s) /\ (Prompt => Held(s))

\* Nobody changes the durations of a use case.
LEMMA TripleKept == ASSUME IInv, [Next]_vars PROVE Triple' = Triple
<1> USE DEF IInv, TypeOK, UseCases, Triple, sessionVars, startVars, threadVars
<1>1. CASE Tick \/ Ended \/ SetTooSlow \/ UNCHANGED vars
  BY <1>1 DEF Tick, Ended, SetTooSlow, vars
<1>2. ASSUME NEW s \in Sessions,
             Start(s) \/ Stop(s) \/ \E r \in Reservations[Triple] : Construct(s, r)
      PROVE  Triple' = Triple
  BY <1>2 DEF Start, Stop, Construct
<1>3. ASSUME NEW s \in Sessions, StartStep(s) PROVE Triple' = Triple
  BY <1>3 DEF StartStep, Begin, Pass, Skip, Launch, FutureReady, FutureTimeout, Cancel, Join,
     Verdict
<1>4. ASSUME NEW s \in Sessions, ThreadStep(s) PROVE Triple' = Triple
  <2>1. CASE Enter(s) \/ Wake(s) \/ Die(s) \/ Quit(s) \/ Answer(s)
    BY <2>1 DEF Enter, Wake, Die, Quit, Answer
  <2>2. CASE EnterRefused(s) \/ Mark(s) \/ Fill(s) \/ MarkQuit(s) \/ FillQuit(s)
    BY <2>2 DEF EnterRefused, Mark, Fill, MarkQuit, FillQuit, Refuse, EnterMark, EnterFill
  <2> QED
    BY <1>4, <2>1, <2>2 DEF ThreadStep
<1> QED
  BY <1>1, <1>2, <1>3, <1>4 DEF Next, Main

\* The longest duration of a use case is a duration.
LEMMA DurationNat == ASSUME TypeOK PROVE DurationMax(uc) \in Nat
  BY DEF TypeOK, UseCases, DurationMax

\* A session that is left alone, while no time passes, goes on as it was.
LEMMA WaitFrame ==
  ASSUME NEW s \in Sessions, WaitInv(s), Prompt => Held(s), Triple' = Triple, Untouched(s),
         promise'[s] = promise[s], asked'[s] = asked[s], now' = now
  PROVE  WaitInv(s)' /\ (Prompt' => Held(s)')
  BY DEF WaitInv, AnswerInv, Held, Prompt, Untouched, TBegin, TEnd

\* A step of start() takes no time.
LEMMA StartWaitsNot ==
  ASSUME TimeInv, IInv', Answered', Triple' = Triple, NEW t \in Sessions, StartStep(t)
  PROVE  TimeInv'
<1> USE DEF TimeInv, IInv, TypeOK, sessionVars, startVars, threadVars
<1>1. UNCHANGED <<now, resv, asked>>
  BY DEF StartStep, Begin, Pass, Skip, Launch, FutureReady, FutureTimeout, Cancel, Join, Verdict
<1>2. ASSUME NEW s \in Sessions, s # t PROVE WaitInv(s)' /\ (Prompt' => Held(s)')
  <2>1. Untouched(s) /\ promise'[s] = promise[s]
    <3>1. CASE Begin(t) \/ Pass(t) \/ Launch(t) \/ FutureReady(t) \/ FutureTimeout(t) \/ Verdict(t)
      BY <1>2, <3>1 DEF Begin, Pass, Launch, FutureReady, FutureTimeout, Verdict, Untouched
    <3>2. CASE Skip(t)
      BY <1>2, <3>2, Skipped DEF Skip, Untouched
    <3>3. CASE Cancel(t) \/ Join(t)
      <4>1. /\ state'[s] = state[s] /\ pc'[s] = pc[s] /\ test'[s] = test[s]
            /\ complet'[s] = complet[s] /\ promise'[s] = promise[s]
        BY <1>2, <3>3, Proceeded DEF Cancel, Join
      <4> QED
        BY <3>3, <4>1 DEF Cancel, Join, Untouched
    <3> QED
      BY <3>1, <3>2, <3>3 DEF StartStep
  <2> QED
    BY <1>1, <2>1, WaitFrame
<1>3. WaitInv(t)'
  <2>1. CASE Begin(t) \/ Pass(t) \/ Launch(t) \/ FutureReady(t) \/ FutureTimeout(t) \/ Verdict(t)
    BY <2>1 DEF Answered, Begin, Pass, Launch, FutureReady, FutureTimeout, Verdict, WaitInv, TBegin,
       TEnd, SessionInv, StateInv, Inside
  <2>2. CASE Skip(t)
    BY <2>2, Skipped DEF Answered, Skip, WaitInv, TBegin, TEnd
  <2>3. CASE Cancel(t) \/ Join(t)
    <3>1. state'[t] \in {state[t], "COMPLETED"} /\ TBegin(t)' = TBegin(t) /\ TEnd(t)' = TEnd(t)
      BY <1>1, <2>3, Proceeded DEF Cancel, Join, TBegin, TEnd
    <3> QED
      BY <3>1 DEF Answered, WaitInv
  <2> QED
    BY <2>1, <2>2, <2>3 DEF StartStep
<1>4. Prompt => Held(t)'
  BY <1>1 DEF Held, TEnd, StartStep, Begin, Pass, Skip, Launch, FutureReady, FutureTimeout, Cancel,
     Join, Verdict
<1> QED
  BY <1>2, <1>3, <1>4 DEF Prompt

\* Nor does a step of a stage thread.
LEMMA ThreadWaitsNot ==
  ASSUME TimeInv, IInv', Answered', Triple' = Triple, NEW t \in Sessions, ThreadStep(t)
  PROVE  TimeInv'
<1> USE DEF TimeInv, IInv, TypeOK
<1>1. UNCHANGED <<now, state, resv, stop_requested, pc, test, complet, late, typ, asked>>
  BY DEF ThreadStep, Enter, EnterRefused, Mark, Fill, Wake, Die, Quit, MarkQuit, FillQuit, Answer,
     sessionVars, startVars
<1>2. ASSUME NEW s \in Sessions PROVE WaitInv(s)' /\ (Prompt' => Held(s)')
  BY <1>1 DEF Answered, WaitInv, Held, Prompt, TBegin, TEnd
<1> QED
  BY <1>2

\* A second passes only while every session waits for something that is to come
\* before the end of its reservation.
LEMMA TickHolds ==
  ASSUME TimeInv, IInv', Answered', Triple' = Triple, Tick
  PROVE  TimeInv'
<1> USE DEF TimeInv, IInv, Tick, sessionVars, startVars, threadVars
<1>1. ASSUME NEW s \in Sessions PROVE WaitInv(s)'
  BY DEF Answered, WaitInv, TBegin, TEnd
<1>2. ASSUME NEW s \in Sessions, Prompt PROVE Held(s)'
  <2>1. now \in Nat /\ TBegin(s) \in Nat /\ TEnd(s) \in Nat /\ TEnd(s)' = TEnd(s)
    BY Instants DEF TEnd
  <2>2. StartWaits(s)
    BY <1>2 DEF AllWait
  <2>3. pc[s] = "sleep" => TBegin(s) <= TEnd(s)
    BY DEF WaitInv, SessionInv, StateInv
  <2>4. pc[s] = "join" => thread[s] = "exit"
    BY DEF WaitInv, AnswerInv
  <2> QED
    BY <2>1, <2>2, <2>3, <2>4 DEF StartWaits, Held
<1> QED
  BY <1>1, <1>2 DEF Prompt

\* main constructs, starts and stops sessions.
LEMMA MainHolds ==
  ASSUME TimeInv, IInv', Answered', Triple' = Triple, Main
  PROVE  TimeInv'
<1> USE DEF TimeInv, IInv, TypeOK, sessionVars, startVars, threadVars
<1>1. CASE SetTooSlow
  BY <1>1 DEF SetTooSlow, Answered, WaitInv, Held, Prompt, TBegin, TEnd
<1>2. ASSUME NEW t \in Sessions, Stop(t) PROVE TimeInv'
  BY <1>2 DEF Answered, Stop, WaitInv, Held, Prompt, TBegin, TEnd
<1>3. ASSUME NEW t \in Sessions, Start(t) PROVE TimeInv'
  <2>1. \A s \in Sessions : WaitInv(s)'
    BY <1>3 DEF Start, Answered, WaitInv, TBegin, TEnd
  <2>2. \A s \in Sessions : Prompt => Held(s)'
    BY <1>3, Instants DEF Start, Held, TEnd
  <2> QED
    BY <2>1, <2>2 DEF Prompt
<1>4. ASSUME NEW t \in Sessions, NEW r \in Reservations[Triple], Construct(t, r) PROVE TimeInv'
  <2>1. r[1] \in Nat /\ r[2] \in Nat
    BY DurationFacts, SessionAssumption DEF UseCaseInv, SessionAssumption
  <2>2. Fits(r) => r[1] <= r[2]
    BY <2>1, DurationNat DEF Fits
  <2>3. WaitInv(t)'
    BY <1>4, <2>2 DEF Construct, Answered, WaitInv, TBegin, TEnd, SessionInv, StateInv
  <2>4. pc[t] = "out" /\ pc' = pc
    BY <1>4 DEF Construct, SessionInv, StateInv
  <2>5. ASSUME NEW s \in Sessions, s # t PROVE WaitInv(s)' /\ (Prompt' => Held(s)')
    BY <1>4, <2>5 DEF Construct, Answered, WaitInv, Held, Prompt, TBegin, TEnd
  <2> QED
    BY <2>3, <2>4, <2>5 DEF Held
<1> QED
  BY <1>1, <1>2, <1>3, <1>4 DEF Main

LEMMA NextTimeInv == TimeInv /\ IInv' /\ Answered' /\ [Next]_vars => TimeInv'
<1> SUFFICES ASSUME TimeInv, IInv', Answered', [Next]_vars PROVE TimeInv'
  OBVIOUS
<1>1. Triple' = Triple
  BY TripleKept DEF TimeInv
<1>2. CASE Ended \/ UNCHANGED vars
  <2>1. ASSUME NEW s \in Sessions PROVE WaitInv(s)' /\ (Prompt' => Held(s)')
    <3>1. UNCHANGED vars
      BY <1>2 DEF Ended
    <3> QED
      BY <1>1, <3>1, WaitFrame DEF vars, TimeInv, Untouched
  <2> QED
    BY <2>1 DEF TimeInv
<1> QED
  BY <1>1, <1>2, StartWaitsNot, ThreadWaitsNot, TickHolds, MainHolds DEF Next

\* The invariant with the waiting and the times holds throughout.
LEMMA TimeInvariance == Spec => []TimeInv
<1>1. Init /\ IInv => TimeInv
  BY DEF Init, TimeInv, WaitInv, AnswerInv, Held, Completion
<1> QED
  BY <1>1, NextTimeInv, InitIInv, Invariance, PTL DEF Spec

\* start() does not outlast the reservation, or its call, when no thread is late,
\* for any number of sessions.
THEOREM ReservationsAreHeld == Spec => []ReservationHeld
<1>1. TimeInv => ReservationHeld
  BY DEF TimeInv, Held, ReservationHeld
<1> QED
  BY <1>1, TimeInvariance, PTL
=============================================================================
