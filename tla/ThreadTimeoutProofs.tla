------------------------ MODULE ThreadTimeoutProofs ------------------------
(***************************************************************************)
(* The promise of main () outlives a punctual thread, for every TST_SEC.   *)
(* The argument: when main () sleeps its last five seconds the thread has  *)
(* ended or was cancelled; a cancelled thread that has not ended can run,  *)
(* whatever it does; and while a punctual thread can run no second passes. *)
(***************************************************************************)
EXTENDS ThreadTimeout, TLAPS

Ended == thread \in {"exit", "dead"}
Parted == main \in {"sleep", "leave", "over"}

\* What main () knows of the promise and the thread.
PromiseInv ==
  /\ promise = "gone" <=> main \in {"leave", "over"}
  /\ promise = "set" => thread = "exit"
  /\ main \in {"get", "join"} => promise = "set"
  /\ main = "detach" \/ Parted => cancelled \/ thread = "exit"

\* What time says of a punctual thread.
TimeInv ==
  Prompt => /\ thread # "wild"
            /\ main = "sleep" => Ended \/ now < until
            /\ main \in {"leave", "over"} => Ended

\* The thread is inside the loop.
LoopInv == thread \in {"say", "sleep"} => count < TST_SEC

IInv == TypeOK /\ LoopInv /\ PromiseInv /\ TimeInv

\* The invariant holds at the start.
LEMMA InitIInv == Init => IInv
<1> SUFFICES ASSUME Init PROVE IInv
  OBVIOUS
<1>1. TypeOK /\ LoopInv
  <2>1. TST_SEC \in Durations /\ TST_SEC \in Nat
    BY TimeoutAssumption DEF TimeoutAssumption, Init
  <2>2. now \in Nat /\ until \in Nat /\ wake \in Nat /\ count \in 0 .. TST_SEC
    BY <2>1 DEF Init
  <2>3. cancelled \in BOOLEAN
    BY DEF Init
  <2> QED
    BY <2>1, <2>2, <2>3 DEF Init, TypeOK, LoopInv
<1>2. PromiseInv /\ TimeInv
  BY DEF Init, PromiseInv, TimeInv, Parted, Ended
<1> QED
  BY <1>1, <1>2 DEF IInv

\* A step of the thread keeps it: a promise that is gone is out of the reach of
\* a punctual thread, which has ended by then.
LEMMA ThreadStepIInv == ASSUME IInv, ThreadStep PROVE IInv'
<1> USE DEF IInv, LoopInv, PromiseInv, TimeInv, Parted, Ended, Prompt, Turn, mainVars
<1>1. CASE Loop
  BY <1>1 DEF Loop, TypeOK
<1>2. CASE Say
  BY <1>2 DEF Say, TypeOK
<1>3. CASE Wake
  <2>1. TST_SEC \in Durations /\ TST_SEC \in Nat
    BY TimeoutAssumption DEF TimeoutAssumption, TypeOK
  <2> QED
    BY <1>3, <2>1 DEF Wake, TypeOK
<1>4. CASE Die
  BY <1>4 DEF Die, TypeOK
<1>5. CASE Tell
  BY <1>5 DEF Tell, TypeOK
<1> QED
  BY <1>1, <1>2, <1>3, <1>4, <1>5 DEF ThreadStep

\* A step of main () keeps it: its promise goes after a sleep that outlasted
\* the thread.
LEMMA MainStepIInv == ASSUME IInv, MainStep PROVE IInv'
<1> USE DEF IInv, TypeOK, LoopInv, PromiseInv, TimeInv, Parted, Ended, Prompt, Go, Rest,
            threadVars
<1>1. CASE WaitReady
  BY <1>1 DEF WaitReady
<1>2. CASE WaitTimeout
  BY <1>2 DEF WaitTimeout
<1>3. CASE Cancel
  BY <1>3 DEF Cancel
<1>4. CASE Detach
  BY <1>4 DEF Detach
<1>5. CASE Get
  BY <1>5 DEF Get
<1>6. CASE Join
  BY <1>6 DEF Join
<1>7. CASE Return
  BY <1>7 DEF Return
<1>8. CASE Exit
  BY <1>8 DEF Exit
<1> QED
  BY <1>1, <1>2, <1>3, <1>4, <1>5, <1>6, <1>7, <1>8 DEF MainStep

\* A second that goes by keeps it: when main () sleeps a punctual thread that has
\* not ended was cancelled, so it can run, and the second does not go by.
LEMMA TickIInv == ASSUME IInv, Tick PROVE IInv'
<1> USE DEF IInv, TypeOK, Tick, mainVars, threadVars
<1>1. TypeOK' /\ LoopInv' /\ PromiseInv'
  BY DEF LoopInv, PromiseInv, Parted
<1>2. ASSUME Prompt, main = "sleep" PROVE Ended
  <2>1. ~CanRun /\ thread # "wild"
    BY <1>2 DEF TimeInv
  <2>2. cancelled \/ thread = "exit"
    BY <1>2 DEF PromiseInv, Parted
  <2> QED
    BY <2>1, <2>2 DEF CanRun, Ended
<1>3. TimeInv'
  BY <1>2 DEF TimeInv, Ended, Prompt
<1> QED
  BY <1>1, <1>3

LEMMA NextIInv == IInv /\ [Next]_vars => IInv'
<1> SUFFICES ASSUME IInv, [Next]_vars PROVE IInv'
  OBVIOUS
<1>1. CASE UNCHANGED vars
  BY <1>1 DEF vars, IInv, TypeOK, LoopInv, PromiseInv, TimeInv, Parted, Ended, Prompt
<1> QED
  BY <1>1, ThreadStepIInv, MainStepIInv, TickIInv DEF Next

LEMMA Invariance == Spec => []IInv
  BY InitIInv, NextIInv, PTL DEF Spec

\* Every variable keeps its type, for every TST_SEC.
THEOREM TypeCorrect == Spec => []TypeOK
<1>1. IInv => TypeOK
  BY DEF IInv
<1> QED
  BY <1>1, Invariance, PTL

\* A punctual thread never sets a promise that is gone, for every TST_SEC: the
\* five seconds before the return of main () are enough.
THEOREM PromiseSafe == Spec => []PromiseOutlives
<1>1. IInv => PromiseOutlives
  BY DEF IInv, TimeInv, PromiseOutlives
<1> QED
  BY <1>1, Invariance, PTL
=============================================================================
