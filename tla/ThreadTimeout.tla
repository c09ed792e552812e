--------------------------- MODULE ThreadTimeout ---------------------------
(***************************************************************************)
(* threads/thread_timeout_tst.cpp: a thread that takes TST_SEC seconds to  *)
(* set a promise that belongs to main (), which waits five seconds for it  *)
(* and otherwise cancels the thread and detaches it.                       *)
(***************************************************************************)
EXTENDS Integers

CONSTANTS
  Durations,  \* the values of TST_SEC
  Punctual,   \* those with which the thread runs whenever it can
  MaxTime     \* bound: from then on time only goes on while main () sleeps

ASSUME TimeoutAssumption ==
  /\ Durations \subseteq Nat /\ Punctual \subseteq Durations /\ MaxTime \in Nat

VARIABLES
  TST_SEC,
  now,        \* in seconds
  main,       \* where main () is
  until,      \* the end of what main () waits or sleeps for
  promise,    \* "empty", "set", or "gone" with main ()
  thread,     \* where the thread is
  wake,       \* the end of its sleep
  count,      \* its iterations
  cancelled   \* pthread_cancel was called

vars == <<TST_SEC, now, main, until, promise, thread, wake, count, cancelled>>
mainVars == <<main, until, cancelled>>
threadVars == <<thread, wake, count>>

TypeOK ==
  /\ TST_SEC \in Durations
  /\ now \in Nat
  /\ main \in {"wait", "cancel", "detach", "get", "join", "sleep", "leave", "over"}
  /\ until \in Nat
  /\ promise \in {"empty", "set", "gone"}
  /\ thread \in {"loop", "say", "sleep", "tell", "exit", "dead", "wild"}
  /\ wake \in Nat
  /\ count \in 0 .. TST_SEC
  /\ cancelled \in BOOLEAN

Init ==
  /\ TST_SEC \in Durations
  /\ now = 0
  /\ main = "wait" /\ until = 5
  /\ promise = "empty"
  /\ thread = "loop" /\ wake = 0 /\ count = 0
  /\ cancelled = FALSE

-----------------------------------------------------------------------------
(***************************************************************************)
(* fn_test                                                                 *)
(***************************************************************************)
Turn(p) == thread' = p /\ UNCHANGED <<TST_SEC, now, mainVars>>

\* The head of the loop, where it goes on or not.
Loop ==
  /\ thread = "loop"
  /\ Turn(IF count < TST_SEC THEN "say" ELSE "tell")
  /\ UNCHANGED <<promise, wake, count>>

\* The line of the loop is written, and the sleep begins.
Say ==
  /\ thread = "say"
  /\ Turn("sleep")
  /\ wake' = now + 1
  /\ UNCHANGED <<promise, count>>

Wake ==
  /\ thread = "sleep" /\ ~cancelled
  /\ now >= wake
  /\ Turn("loop")
  /\ count' = count + 1
  /\ UNCHANGED <<promise, wake>>

\* Cancellation is deferred to the next point where it acts: the sleep, or a
\* write, which may have been passed already.
Die ==
  /\ cancelled
  /\ thread \in {"say", "sleep", "tell"}
  /\ Turn("dead")
  /\ UNCHANGED <<promise, wake, count>>

\* set_value, on a promise that may be no more.
Tell ==
  /\ thread = "tell"
  /\ Turn(IF promise = "gone" THEN "wild" ELSE "exit")
  /\ promise' = IF promise = "gone" THEN "gone" ELSE "set"
  /\ UNCHANGED <<wake, count>>

ThreadStep == main # "over" /\ (Loop \/ Say \/ Wake \/ Die \/ Tell)

-----------------------------------------------------------------------------
(***************************************************************************)
(* main                                                                    *)
(***************************************************************************)
Go(p) == main' = p /\ UNCHANGED <<TST_SEC, now, threadVars>>

\* wait_for, which has an answer or five seconds.
WaitReady ==
  /\ main = "wait" /\ promise = "set"
  /\ Go("get")
  /\ UNCHANGED <<until, promise, cancelled>>

WaitTimeout ==
  /\ main = "wait" /\ promise = "empty"
  /\ now >= until
  /\ Go("cancel")
  /\ UNCHANGED <<until, promise, cancelled>>

\* pthread_setcanceltype and pthread_setcancelstate concern the caller, and the
\* first is given a state, the second a type; what matters is pthread_cancel.
Cancel ==
  /\ main = "cancel"
  /\ cancelled' = TRUE
  /\ Go("detach")
  /\ UNCHANGED <<until, promise>>

Rest(p) == until' = now + 5 /\ Go(p)

\* Mutant: the thread is joined, cancelled or not.
DetachJoins ==
  /\ main = "detach"
  /\ thread \in {"exit", "dead", "wild"}
  /\ Rest("sleep")
  /\ UNCHANGED <<promise, cancelled>>

Detach ==
  /\ main = "detach"
  /\ Rest("sleep")
  /\ UNCHANGED <<promise, cancelled>>

Get ==
  /\ main = "get"
  /\ Go("join")
  /\ UNCHANGED <<until, promise, cancelled>>

Join ==
  /\ main = "join"
  /\ thread \in {"exit", "dead", "wild"}
  /\ Rest("sleep")
  /\ UNCHANGED <<promise, cancelled>>

\* Mutant: there is no sleep at the end.
ReturnAtOnce ==
  /\ main = "sleep"
  /\ promise' = "gone"
  /\ Go("leave")
  /\ UNCHANGED <<until, cancelled>>

\* After the sleep main () returns, and its promise goes.
Return ==
  /\ main = "sleep"
  /\ now >= until
  /\ promise' = "gone"
  /\ Go("leave")
  /\ UNCHANGED <<until, cancelled>>

\* The process ends, and with it the thread.
Exit ==
  /\ main = "leave"
  /\ Go("over")
  /\ UNCHANGED <<until, promise, cancelled>>

MainStep ==
  WaitReady \/ WaitTimeout \/ Cancel \/ Detach \/ Get \/ Join \/ Return \/ Exit

-----------------------------------------------------------------------------
Prompt == TST_SEC \in Punctual

CanRun ==
  \/ thread \in {"loop", "say", "tell"}
  \/ thread = "sleep" /\ (cancelled \/ now >= wake)

\* A second goes by; a punctual thread has done what it could before.
Tick ==
  /\ main # "over"
  /\ now < MaxTime \/ now < until
  /\ Prompt => ~CanRun
  /\ now' = now + 1
  /\ UNCHANGED <<TST_SEC, mainVars, promise, threadVars>>

Next == ThreadStep \/ MainStep \/ Tick

\* Time and main () go on; the thread need not, unless it is punctual.
Spec == Init /\ [][Next]_vars /\ WF_vars(MainStep) /\ WF_vars(Tick)
             /\ WF_vars(Prompt /\ ThreadStep)

-----------------------------------------------------------------------------
(***************************************************************************)
(* Properties                                                              *)
(***************************************************************************)

\* The promise outlives whoever may set it: the five seconds that main () sleeps
\* before it returns are enough for a punctual thread that was past its last
\* cancellation point when it was cancelled.
PromiseOutlives == Prompt => thread # "wild"

\* main () ends, however long the thread takes and even when it hangs.
MainEnds == <>(main = "over")
=============================================================================
