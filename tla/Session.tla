------------------------------ MODULE Session ------------------------------
(***************************************************************************)
(* Sessions that run one use case: threads/session.cpp with                *)
(* threads/use_case.cpp below it, driven as session_tst.cpp drives them.   *)
(* Every session has the thread that calls start(), at most one stage      *)
(* thread at a time, the promise the two share, and a main thread that     *)
(* constructs it and may call stop().  Time is a clock of whole seconds;   *)
(* it may pass between any two steps, except in the instances where        *)
(* threads with something to do are never late (Punctual).                 *)
(***************************************************************************)
EXTENDS UseCase, FiniteSets

CONSTANTS
  Sessions,      \* the session objects
  Durations,     \* duration triples <<init, work, finish>> of the use case
  Reservations,  \* the reservations <<t_begin, t_end>> tried with each triple
  MaxTime,       \* the clock stops here, after the end of every reservation
  Punctual       \* the triples with which time passes only when every thread
                 \* is waiting for it

ASSUME SessionAssumption ==
  /\ MaxTime \in Nat
  /\ Durations \subseteq Nat \X Nat \X Nat
  /\ Reservations \in [Durations -> SUBSET ((0 .. MaxTime) \X (0 .. MaxTime))]
  /\ Punctual \subseteq Durations

VARIABLES
  now,             \* system_clock::now ()
  uc,              \* the use case all sessions point to
  state,           \* session_t::state, "none" before the constructor ran
  resv,            \* t_begin and t_end of each session
  stop_requested,  \* the atomic flag
  pc,              \* where the thread inside start() is, "out" before the call
  test,            \* the stage whose condition start() evaluates now or next
  complet,         \* the local variable of start()
  promise,         \* stage_promise: "none", "empty", its value, or "gone"
  thread,          \* where the stage thread is
  typ,             \* the stage it runs
  wake,            \* when its sleep is over
  goal,            \* the stage and completion its quit_stage is storing
  cancel,          \* pthread_cancel was called on it
  asked,           \* history: when start() was called
  late             \* history: stages launched with stop already requested

vars == <<now, uc, state, resv, stop_requested, pc, test, complet, promise,
          thread, typ, wake, goal, cancel, asked, late>>

SessionState == {"ERROR", "READY", "RUNNING", "STOPPED", "KILLED", "COMPLETED"}

\* The conditions of start(), in order; "LOOP" is the one of the while.
Test == {"INIT", "WITER", "LOOP", "FINISH"}

\* The stage each condition launches.
Launches == [INIT |-> "INIT", WITER |-> "WITER", LOOP |-> "WITER", FINISH |-> "FINISH"]

PC == {"out", "sleep", "test", "launch", "wait", "cancel", "join", "verdict", "over"}

ThreadPC == {"none", "enter", "refuse", "mark", "fill", "sleep", "quit",
             "markquit", "fillquit", "answer", "exit", "dead", "stray"}

\* The value of goal[s] outside quit_stage; likewise wake[s] is 0 outside a sleep.
NoGoal == <<"NEW", "ERROR">>

TypeOK ==
  /\ now \in 0 .. MaxTime
  /\ uc \in UseCases
  /\ state \in [Sessions -> SessionState \cup {"none"}]
  /\ resv \in [Sessions -> (0 .. MaxTime) \X (0 .. MaxTime)]
  /\ stop_requested \in [Sessions -> BOOLEAN]
  /\ pc \in [Sessions -> PC]
  /\ test \in [Sessions -> Test]
  /\ complet \in [Sessions -> Completion]
  /\ promise \in [Sessions -> Completion \cup {"none", "empty", "gone"}]
  /\ thread \in [Sessions -> ThreadPC]
  /\ typ \in [Sessions -> StageTyp]
  /\ wake \in [Sessions -> 0 .. MaxTime]
  /\ goal \in [Sessions -> Stage \X Completion]
  /\ cancel \in [Sessions -> BOOLEAN]
  /\ asked \in [Sessions -> 0 .. MaxTime]
  /\ late \in [Sessions -> Nat]

Init ==
  /\ now = 0
  /\ \E d \in Durations : uc = NewUseCase(d[1], d[2], d[3])
  /\ state = [s \in Sessions |-> "none"]
  /\ resv = [s \in Sessions |-> <<0, 0>>]
  /\ stop_requested = [s \in Sessions |-> FALSE]
  /\ pc = [s \in Sessions |-> "out"]
  /\ test = [s \in Sessions |-> "INIT"]
  /\ complet = [s \in Sessions |-> "ERROR"]
  /\ promise = [s \in Sessions |-> "none"]
  /\ thread = [s \in Sessions |-> "none"]
  /\ typ = [s \in Sessions |-> "INIT"]
  /\ wake = [s \in Sessions |-> 0]
  /\ goal = [s \in Sessions |-> NoGoal]
  /\ cancel = [s \in Sessions |-> FALSE]
  /\ asked = [s \in Sessions |-> 0]
  /\ late = [s \in Sessions |-> 0]

\* The triple the use case was constructed with, and whether nobody is late.
Triple == <<uc.init_duration_max, uc.work_duration_max, uc.finish_duration_max>>
Prompt == Triple \in Punctual

TBegin(s) == resv[s][1]
TEnd(s) == resv[s][2]

\* The instant d seconds from now.  All instants from MaxTime on are one:
\* every reservation is over by then.
After(d) == IF now + d < MaxTime THEN now + d ELSE MaxTime

sessionVars == <<state, resv, stop_requested, asked>>
startVars   == <<pc, test, complet, promise, late>>
threadVars  == <<thread, typ, wake, goal, cancel>>

-----------------------------------------------------------------------------
(***************************************************************************)
(* The main thread                                                         *)
(***************************************************************************)

\* A use case is turned down when it is neither new NOR completed, a reservation
\* when it is shorter than the use case may last.
Usable(u) == u.current_stage = "NEW" \/ u.current_completion = "COMPLETED"
Fits(r) == r[2] - r[1] >= DurationMax(uc)

\* The constructor.
Construct(s, r) ==
  /\ state[s] = "none"
  /\ state' = [state EXCEPT ![s] = IF Usable(uc) /\ Fits(r) THEN "READY" ELSE "ERROR"]
  /\ resv' = [resv EXCEPT ![s] = r]
  /\ stop_requested' = [stop_requested EXCEPT ![s] = FALSE]
  /\ UNCHANGED <<now, uc, asked, startVars, threadVars>>

\* session_tst.cpp slows the use case down before it starts the session.
SetTooSlow ==
  /\ \A s \in Sessions : pc[s] = "out"
  /\ uc' = [uc EXCEPT !.work_slowly = TRUE]
  /\ UNCHANGED <<now, sessionVars, startVars, threadVars>>

Stop(s) ==
  /\ state[s] # "none"
  /\ stop_requested' = [stop_requested EXCEPT ![s] = TRUE]
  /\ UNCHANGED <<now, uc, state, resv, asked, startVars, threadVars>>

-----------------------------------------------------------------------------
(***************************************************************************)
(* The thread that calls start()                                           *)
(***************************************************************************)

\* The call: nothing unless READY, else a look at the clock.
Start(s) ==
  /\ pc[s] = "out"
  /\ state[s] # "none"
  /\ pc' = [pc EXCEPT ![s] = IF state[s] = "READY" THEN "sleep" ELSE "over"]
  /\ asked' = [asked EXCEPT ![s] = now]
  /\ UNCHANGED <<now, uc, state, resv, stop_requested, test, complet, promise,
                 late, threadVars>>

\* sleep_until (t_begin), at once when t_begin is past; stop() does not end it.
Begin(s) ==
  /\ pc[s] = "sleep"
  /\ now >= TBegin(s)
  /\ state' = [state EXCEPT ![s] = "RUNNING"]
  /\ pc' = [pc EXCEPT ![s] = "test"]
  /\ UNCHANGED <<now, uc, resv, stop_requested, asked, test, complet, promise,
                 late, threadVars>>

\* The completion that the condition of a stage asks for.
Asks(t, c) ==
  \/ t = "INIT"
  \/ t \in {"WITER", "FINISH"} /\ c = "COMPLETED"
  \/ t = "LOOP" /\ c = "TO_BE_CONTINUED"

\* Mutant: the while does not look at the stop request.
PassLoop(s) ==
  /\ pc[s] = "test"
  /\ test[s] = "LOOP" \/ ~stop_requested[s]
  /\ Asks(test[s], complet[s])
  /\ pc' = [pc EXCEPT ![s] = "launch"]
  /\ UNCHANGED <<now, uc, sessionVars, test, complet, promise, late, threadVars>>

\* A condition that holds: the stage is going to be launched.
Pass(s) ==
  /\ pc[s] = "test"
  /\ ~stop_requested[s]
  /\ Asks(test[s], complet[s])
  /\ pc' = [pc EXCEPT ![s] = "launch"]
  /\ UNCHANGED <<now, uc, sessionVars, test, complet, promise, late, threadVars>>

\* A condition that does not hold: on to the next one, or to the verdict.
Skip(s) ==
  /\ pc[s] = "test"
  /\ stop_requested[s] \/ ~Asks(test[s], complet[s])
  /\ \/ /\ test[s] # "FINISH"
        /\ test' = [test EXCEPT ![s] = CASE @ = "INIT"  -> "WITER"
                                         [] @ = "WITER" -> "LOOP"
                                         [] @ = "LOOP"  -> "FINISH"]
        /\ UNCHANGED pc
     \/ /\ test[s] = "FINISH"
        /\ pc' = [pc EXCEPT ![s] = "verdict"]
        /\ UNCHANGED test
  /\ UNCHANGED <<now, uc, sessionVars, complet, promise, late, threadVars>>

\* stage_perform creates the promise and the stage thread.
Launch(s) ==
  /\ pc[s] = "launch"
  /\ pc' = [pc EXCEPT ![s] = "wait"]
  /\ promise' = [promise EXCEPT ![s] = "empty"]
  /\ thread' = [thread EXCEPT ![s] = "enter"]
  /\ typ' = [typ EXCEPT ![s] = Launches[test[s]]]
  /\ late' = [late EXCEPT ![s] = IF stop_requested[s] THEN @ + 1 ELSE @]
  /\ UNCHANGED <<now, uc, sessionVars, test, complet, wake, goal, cancel>>

\* Mutant: the future is read before it is ready.
FutureUnready(s) ==
  /\ pc[s] = "wait"
  /\ complet' = [complet EXCEPT ![s] = promise[s]]
  /\ pc' = [pc EXCEPT ![s] = "join"]
  /\ UNCHANGED <<now, uc, sessionVars, test, promise, late, threadVars>>

\* wait_until (t_end) finds the value.
FutureReady(s) ==
  /\ pc[s] = "wait"
  /\ promise[s] \in Completion
  /\ complet' = [complet EXCEPT ![s] = promise[s]]
  /\ pc' = [pc EXCEPT ![s] = "join"]
  /\ UNCHANGED <<now, uc, sessionVars, test, promise, late, threadVars>>

\* wait_until (t_end) gives up.
FutureTimeout(s) ==
  /\ pc[s] = "wait"
  /\ promise[s] = "empty"
  /\ now >= TEnd(s)
  /\ pc' = [pc EXCEPT ![s] = "cancel"]
  /\ UNCHANGED <<now, uc, sessionVars, test, complet, promise, late, threadVars>>

\* After a stage: the next condition, or the end of the FINISH branch, which
\* sets COMPLETED whatever the stage answered.
Proceed(s) ==
  IF test[s] = "FINISH"
  THEN /\ state' = [state EXCEPT ![s] = "COMPLETED"]
       /\ pc' = [pc EXCEPT ![s] = "over"]
       /\ UNCHANGED test
  ELSE /\ pc' = [pc EXCEPT ![s] = "test"]
       /\ test' = [test EXCEPT ![s] = IF @ = "INIT" THEN "WITER" ELSE "LOOP"]
       /\ UNCHANGED state

\* Mutants: the thread that is late is joined instead of detached; and it is not
\* cancelled either.
JoinLate(s) ==
  /\ pc[s] = "cancel"
  /\ complet' = [complet EXCEPT ![s] = "TIMEOUT"]
  /\ pc' = [pc EXCEPT ![s] = "join"]
  /\ UNCHANGED <<now, uc, sessionVars, test, promise, late, threadVars>>

CancelAndJoin(s) ==
  /\ pc[s] = "cancel"
  /\ cancel' = [cancel EXCEPT ![s] = TRUE]
  /\ complet' = [complet EXCEPT ![s] = "TIMEOUT"]
  /\ pc' = [pc EXCEPT ![s] = "join"]
  /\ UNCHANGED <<now, uc, sessionVars, test, promise, late, thread, typ, wake, goal>>

\* pthread_cancel is a request that the thread takes up in its next sleep; the
\* setcanceltype and setcancelstate calls before it concern the caller only.
\* The detach and the return from stage_perform end the promise's life.
Cancel(s) ==
  /\ pc[s] = "cancel"
  /\ cancel' = [cancel EXCEPT ![s] = TRUE]
  /\ complet' = [complet EXCEPT ![s] = "TIMEOUT"]
  /\ promise' = [promise EXCEPT ![s] = "gone"]
  /\ Proceed(s)
  /\ UNCHANGED <<now, uc, resv, stop_requested, asked, late, thread, typ, wake, goal>>

\* join, which returns when the thread has ended, in whatever way.
Join(s) ==
  /\ pc[s] = "join"
  /\ thread[s] \in {"exit", "dead"}
  /\ promise' = [promise EXCEPT ![s] = "none"]
  /\ Proceed(s)
  /\ UNCHANGED <<now, uc, resv, stop_requested, asked, complet, late, threadVars>>

\* Mutants: the two tests of the else branch in the other order, the second one
\* missing, and the first one missing.
VerdictSwapped(s) ==
  /\ pc[s] = "verdict"
  /\ state' = [state EXCEPT ![s] = IF stop_requested[s] THEN "STOPPED"
                                   ELSE IF complet[s] = "TIMEOUT" THEN "KILLED" ELSE @]
  /\ pc' = [pc EXCEPT ![s] = "over"]
  /\ UNCHANGED <<now, uc, resv, stop_requested, asked, test, complet, promise,
                 late, threadVars>>

VerdictNoKill(s) ==
  /\ pc[s] = "verdict"
  /\ state' = [state EXCEPT ![s] = IF stop_requested[s] THEN "STOPPED" ELSE @]
  /\ pc' = [pc EXCEPT ![s] = "over"]
  /\ UNCHANGED <<now, uc, resv, stop_requested, asked, test, complet, promise,
                 late, threadVars>>

VerdictAlwaysStop(s) ==
  /\ pc[s] = "verdict"
  /\ state' = [state EXCEPT ![s] = IF complet[s] = "TIMEOUT" THEN "KILLED" ELSE "STOPPED"]
  /\ pc' = [pc EXCEPT ![s] = "over"]
  /\ UNCHANGED <<now, uc, resv, stop_requested, asked, test, complet, promise,
                 late, threadVars>>

\* The else branch: stop is read once more, and a timeout overrides it.
Verdict(s) ==
  /\ pc[s] = "verdict"
  /\ state' = [state EXCEPT ![s] = IF complet[s] = "TIMEOUT" THEN "KILLED"
                                   ELSE IF stop_requested[s] THEN "STOPPED" ELSE @]
  /\ pc' = [pc EXCEPT ![s] = "over"]
  /\ UNCHANGED <<now, uc, resv, stop_requested, asked, test, complet, promise,
                 late, threadVars>>

-----------------------------------------------------------------------------
(***************************************************************************)
(* The stage thread.  The accesses of enter_stage and quit_stage to the    *)
(* use case, which takes no lock, are several steps: what they test, the   *)
(* store to current_stage, the other stores.                               *)
(***************************************************************************)
To(s, p) == thread' = [thread EXCEPT ![s] = p]

Enter(s) ==
  /\ thread[s] = "enter"
  /\ To(s, IF CanEnter(uc, typ[s]) THEN "mark" ELSE "refuse")
  /\ UNCHANGED <<now, uc, sessionVars, startVars, typ, wake, goal, cancel>>

EnterRefused(s) ==
  /\ thread[s] = "refuse"
  /\ uc' = Refuse(uc)
  /\ To(s, "answer")
  /\ UNCHANGED <<now, sessionVars, startVars, typ, wake, goal, cancel>>

Mark(s) ==
  /\ thread[s] = "mark"
  /\ uc' = EnterMark(uc, typ[s])
  /\ To(s, "fill")
  /\ UNCHANGED <<now, sessionVars, startVars, typ, wake, goal, cancel>>

\* The last stores of enter_stage, and sleep_for with its delay; without a
\* positive delay it returns before it can be a cancellation point.
Fill(s) ==
  /\ thread[s] = "fill"
  /\ uc' = EnterFill(uc, typ[s])
  /\ LET d == StageDelay(uc, typ[s])
     IN  /\ To(s, IF d > 0 THEN "sleep" ELSE "quit")
         /\ wake' = [wake EXCEPT ![s] = IF d > 0 THEN After(d) ELSE @]
  /\ UNCHANGED <<now, sessionVars, startVars, typ, goal, cancel>>

\* The sleep is over; a pending cancellation does not let it get there.
Wake(s) ==
  /\ thread[s] = "sleep"
  /\ ~cancel[s]
  /\ now >= wake[s]
  /\ To(s, "quit")
  /\ wake' = [wake EXCEPT ![s] = 0]
  /\ UNCHANGED <<now, uc, sessionVars, startVars, typ, goal, cancel>>

Die(s) ==
  /\ thread[s] = "sleep"
  /\ cancel[s]
  /\ To(s, "dead")
  /\ UNCHANGED <<now, uc, sessionVars, startVars, typ, wake, goal, cancel>>

\* quit_stage tests the completion and decides what it is going to store.
Quit(s) ==
  /\ thread[s] = "quit"
  /\ goal' = [goal EXCEPT ![s] = IF Closed(uc) THEN @ ELSE QuitTo(uc)]
  /\ To(s, IF Closed(uc) THEN "answer"
           ELSE IF uc.current_stage \in {"INITIALIZING", "WORKING", "FINISHING"}
                THEN "markquit" ELSE "fillquit")
  /\ UNCHANGED <<now, uc, sessionVars, startVars, typ, wake, cancel>>

MarkQuit(s) ==
  /\ thread[s] = "markquit"
  /\ uc' = [uc EXCEPT !.current_stage = goal[s][1]]
  /\ To(s, "fillquit")
  /\ UNCHANGED <<now, sessionVars, startVars, typ, wake, cancel, goal>>

FillQuit(s) ==
  /\ thread[s] = "fillquit"
  /\ uc' = [uc EXCEPT !.current_completion = goal[s][2]]
  /\ goal' = [goal EXCEPT ![s] = NoGoal]
  /\ To(s, "answer")
  /\ UNCHANGED <<now, sessionVars, startVars, typ, wake, cancel>>

\* The stage returns the completion it reads and set_value hands it over.  On a
\* promise whose life is over set_value touches freed memory: the thread is
\* "stray" and nothing more is said of it.
Answer(s) ==
  /\ thread[s] = "answer"
  /\ IF promise[s] = "empty"
     THEN /\ promise' = [promise EXCEPT ![s] = uc.current_completion]
          /\ To(s, "exit")
     ELSE /\ To(s, "stray")
          /\ UNCHANGED promise
  /\ UNCHANGED <<now, uc, sessionVars, pc, test, complet, late, typ, wake, cancel, goal>>

-----------------------------------------------------------------------------
(***************************************************************************)
(* Time                                                                    *)
(***************************************************************************)

\* The threads that wait for time, or for nothing at all.
StartWaits(s) ==
  \/ pc[s] \in {"out", "over"}
  \/ pc[s] = "sleep" /\ now < TBegin(s)
  \/ pc[s] = "wait" /\ promise[s] = "empty" /\ now < TEnd(s)
  \/ pc[s] = "join" /\ thread[s] \notin {"exit", "dead"}
ThreadWaits(s) ==
  \/ thread[s] \in {"none", "exit", "dead", "stray"}
  \/ thread[s] = "sleep" /\ ~cancel[s] /\ now < wake[s]

AllWait == \A s \in Sessions : StartWaits(s) /\ ThreadWaits(s)

Tick ==
  /\ now < MaxTime
  /\ Prompt => AllWait
  /\ now' = now + 1
  /\ UNCHANGED <<uc, sessionVars, startVars, threadVars>>

\* The program has ended: the only state in which it may do nothing for ever.
Ended ==
  /\ now = MaxTime
  /\ AllWait
  /\ UNCHANGED vars

StartStep(s) ==
  \/ Begin(s) \/ Pass(s) \/ Skip(s) \/ Launch(s) \/ FutureReady(s)
  \/ FutureTimeout(s) \/ Cancel(s) \/ Join(s) \/ Verdict(s)

ThreadStep(s) ==
  \/ Enter(s) \/ EnterRefused(s) \/ Mark(s) \/ Fill(s) \/ Wake(s) \/ Die(s)
  \/ Quit(s) \/ MarkQuit(s) \/ FillQuit(s) \/ Answer(s)

Main ==
  \/ SetTooSlow
  \/ \E s \in Sessions : Start(s) \/ Stop(s) \/ \E r \in Reservations[Triple] : Construct(s, r)

Next ==
  \/ Main \/ Tick \/ Ended
  \/ \E s \in Sessions : StartStep(s) \/ ThreadStep(s)

\* The clock runs and the thread inside start() is scheduled.  Of the stage
\* threads nothing is assumed, unless they are punctual: the session is there to
\* outlive them.
Fairness ==
  /\ WF_vars(Tick)
  /\ \A s \in Sessions : WF_vars(StartStep(s)) /\ WF_vars(Prompt /\ ThreadStep(s))

Spec == Init /\ [][Next]_vars /\ Fairness

-----------------------------------------------------------------------------
(***************************************************************************)
(* Properties that hold for any number of sessions on one use case         *)
(***************************************************************************)

\* A verdict says what happened: KILLED is given only after the end of the
\* reservation and to a session that was running, STOPPED only after stop(),
\* COMPLETED only by a session that got as far as the finish stage.
VerdictJustified ==
  \A s \in Sessions :
    /\ state[s] = "KILLED" => now >= TEnd(s) /\ complet[s] = "TIMEOUT"
    /\ state[s] = "STOPPED" => stop_requested[s]
    /\ state[s] = "COMPLETED" => test[s] = "FINISH" /\ typ[s] = "FINISH"

\* "la session peut interrompre le use case entre chaque etape ou iteration":
\* once stop() has been called at most one more stage is launched, the one
\* whose condition had been evaluated before.
StopHonoured == \A s \in Sessions : late[s] <= 1

\* ... and it is BETWEEN stages that it interrupts: when start() gives STOPPED,
\* the stage thread of the session is not in the use case.
StoppedBetweenStages ==
  \A s \in Sessions : state[s] = "STOPPED" => thread[s] \in {"none", "exit"}

\* start() returns, whatever becomes of the stage thread: a stage that hangs is
\* given up at t_end, and a join waits only for a thread that has answered.
StartReturns == \A s \in Sessions : (pc[s] # "out") ~> (pc[s] = "over")

(***************************************************************************)
(* Properties of a session that has its use case for itself                *)
(***************************************************************************)

\* The conditions of start() and those of enter_stage fit together: no stage
\* is ever launched that the use case refuses.
NoStageRefused == \A s \in Sessions : thread[s] # "refuse"

\* COMPLETED is true of the use case.  start() also gives it when the finish stage
\* did not answer in time; even then all iterations are done, and with an answer
\* the use case is FINISHED.
CompletedIsFinished ==
  \A s \in Sessions : state[s] = "COMPLETED" =>
    /\ uc.current_work_iter = Iterations(uc)
    /\ uc.current_stage \in {"WORKED", "FINISHING", "FINISHED"}
    /\ complet[s] = "COMPLETED" => uc.current_stage = "FINISHED"

\* No constructor takes a use case that a stage is in, also when the stage was given
\* up: one that is past its sleep has it until its last store, and one killed in
\* its sleep for good, so that a killed stage never looks completed.
KilledNotReused ==
  \A s \in Sessions :
    /\ thread[s] \in {"sleep", "dead", "quit", "markquit", "fillquit"} => ~Usable(uc)
    /\ thread[s] = "dead" =>
         uc.current_stage = StageOf[typ[s]] /\ uc.current_completion = "TO_BE_CONTINUED"

(***************************************************************************)
(* Properties of timing, when no thread is late (Prompt)                   *)
(***************************************************************************)

\* start() does not outlast the reservation, or the call when it came later.
ReservationHeld ==
  Prompt => \A s \in Sessions :
    pc[s] \notin {"out", "over"} => now <= TEnd(s) \/ now <= asked[s]

\* A use case at its normal pace, started no later than t_begin and never
\* stopped, whose reservation the constructor accepted.
Nominal(s) ==
  pc[s] = "over" /\ state[s] # "ERROR" /\ asked[s] <= TBegin(s)
  /\ ~stop_requested[s] /\ ~uc.work_slowly

\* The maximal duration is enough: such a use case is completed in time, if its
\* work stage may last at least two seconds.  (One whole iteration runs even when
\* the work stage may last less.)
WorkFits ==
  Prompt /\ uc.work_duration_max >= 2 =>
    \A s \in Sessions : Nominal(s) => state[s] = "COMPLETED" /\ complet[s] = "COMPLETED"

(***************************************************************************)
(* Refinement                                                              *)
(***************************************************************************)

\* The lifecycle as one sees it from here.  A session has performed a stage
\* when it has had a stage thread, and performs it until it has left
\* stage_perform.
Lifecycle == INSTANCE SessionLifecycle WITH
  stage    <- [s \in Sessions |-> IF thread[s] = "none" THEN "none" ELSE typ[s]],
  active   <- [s \in Sessions |-> pc[s] \in {"wait", "cancel", "join"}],
  stopping <- stop_requested,
  due      <- [s \in Sessions |-> state[s] # "none" /\ now >= TEnd(s)],
  lost     <- [s \in Sessions |-> complet[s] = "TIMEOUT"]

\* A session that has its use case for itself keeps the order of the stages and
\* the meaning of the verdicts, and gets to a verdict.
LifecycleSpec == Lifecycle!Spec

(***************************************************************************)
(* What the notes beside the code say and the code does not do             *)
(***************************************************************************)

\* "en cas d'erreur d'une etape -> on arrete tout": a session whose stage
\* answered ERROR does not go on running, nor does it end COMPLETED.
ErrorStopsSession ==
  \A s \in Sessions :
    pc[s] = "over" /\ state[s] # "ERROR" /\ complet[s] = "ERROR" =>
      state[s] \in {"STOPPED", "KILLED"}
=============================================================================
