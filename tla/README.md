# VireSandbox in TLA+

TLA+ modules, TLC runs and TLAPS proofs for the VireSandbox repository: the
thread prototypes of the Vire server (`src/threads`) and the programs that try
out and set up its message broker (`src/cms_tests`).  Paths below are relative
to the repository, line numbers are those of the commit that was modelled.

Run a check with `tlc -config <run>.cfg <module>` and the proofs with `tlapm` on
`UseCaseProofs`, `SessionProofs`, `SessionAloneProofs`, `ApplicationProofs`,
`RpcProofs`, `EventsProofs`, `ProvisioningProofs` and `ThreadTimeoutProofs`.  `PROJECT.json` maps every definition to the
lines it stands for, and lists the hazards, the runs and, for every property, a
plausible bug of the code that breaks it.

## 1. Inventory

| component | state it keeps | operations | talks to | modules |
|---|---|---|---|---|
| use case, `threads/use_case.cpp` | `current_stage`, `current_completion`, `current_work_iter`, `nb_iterations`, the duration maxima, `work_slowly` | `init_stage`, `work_iteration`, `finish_stage` (each `enter_stage`, sleep, `quit_stage`), `set_too_slow` | called by stage threads, no lock | `UseCase`, `UseCaseCaller`, `UseCaseProofs` |
| session, `threads/session.cpp` | `state`, `t_begin`, `t_end`, the atomic `stop_requested`, `complet`, the stage promise and thread | constructor, `start`, `stop`, `stage_perform` | a thread per stage, a promise, `pthread_cancel` / `detach` / `join` | `Session`, `SessionLifecycle`, `SessionProofs`, `SessionAloneProofs` |
| shop, `threads/mut_cond_1.cpp` | `stock`, `stop`, `stock_lock`, `store_cond`, `client_cond` | `fn_store`, `fn_clients`, `Stop`, `main` | threads under one mutex | `Application`, `Stock`, `ApplicationProofs` |
| RPC servers, `connection_server`, `echo_exchange_server`, `OLD_SAV/echo_direct_server` | their queue, the unacknowledged request | declare, bind, consume, answer, acknowledge; killed with Return | broker | `Topics`, `Rpc`, `RpcProofs` |
| RPC clients, `connection_request`, `disconnection_request`, `fetch_status`, `rpc_request`, `OLD_SAV/direct_request_perms` | reply queue, correlation id | options, subscribe, publish, wait for the answer | broker | `Topics`, `Rpc`, `RpcProofs` |
| provisioning, `vire_domains`, `add_tmpuser_wxCVbn`, `del_tmpuser_wxCVbn` | the result so far, one object of type `permissions` | `add_vhost`, `add_user`, `exchange_declare`, `set_permissions`, `delete_*` | management interface of the broker | `Broker`, `Scripts`, `Provisioning`, `ProvisioningProofs` |
| tests of permissions, the nine `OLD_SAV/*perms.cxx` | the same, and a connection | set up, connect, work, clean up | broker | `Broker`, `Scripts`, `Provisioning`, `ProvisioningProofs` |
| events, `event_listener`, `status_event_producer`, the four `OLD_SAV/*event_listener_perms`, `*event_producer_perms` | queue of a listener, what was delivered to it and not yet heard | declare, bind topic by topic, consume without acknowledgement, end with the first event; publish | broker | `Topics`, `Events`, `EventsProofs` |
| `thread_timeout_tst` | a promise local to `main`, one thread | wait with timeout, cancel, detach, get, join, return | `pthread_cancel`, a promise | `ThreadTimeout`, `ThreadTimeoutProofs` |
| `time_tools`, earlier versions, shell scripts, build files | – | – | – | not modelled |

The two halves of the repository do not call one another.  In `threads` a
session drives a use case through stage threads; in `cms_tests` every program is
a process of its own and all interaction goes through the broker: provisioning
creates the virtual hosts, exchanges and rights that servers and clients rely on.

What is hard in each, and what makes it correct:

* **use case**: calls in any order; an iteration counter tested twice.  Stage,
  counter and answer must agree, and an error must be final.
* **session**: `stop()` and `t_end` at any moment, a stage thread that may never
  answer, its answer racing the timeout, and threads of two sessions on the same
  unlocked use case.  Verdicts must say what happened, `start()` must return and
  hold the reservation, the stages must come in order.
* **shop**: notifications that overtake the sleep they are for, spurious
  wake-ups, `Stop()` without the lock.  No overselling, no lost request, an end.
* **RPC**: a kill between reply and acknowledgement, requests nobody can decode
  or that no server is bound for, a prefetch of one, correlation ids that are
  equal in all clients.  No lost request, no foreign answer, bounded duplicates.
* **events**: an event between any two steps of a listener that is setting up,
  consumption without acknowledgement by a program that ends with the first
  event, names that a queue may inherit, connections that are cut.  What is heard
  was due, nothing is missed while a listener waits, a wait ends.
* **thread timeout**: a detached thread with a pointer into `main`.  The promise
  outlives it, and `main` ends.
* **provisioning**: the failure of one call, half-done runs, programs that
  overlap on the same objects.  A reported success is one; no right too many;
  what is left behind is reported.

The complete list of hazards, each at its line, is in `PROJECT.json`.

## 2. Modules and how they correspond to the code

**`UseCase`** is the use case as data: its record, and what `enter_stage` tests
(`CanEnter`), stores (`EnterMark`, `EnterFill`, `Refuse`) and what `quit_stage`
goes to (`QuitTo`).  **`UseCaseCaller`** puts them together for a single thread
that calls the member functions in any order, well beyond what
`use_case_tst.cpp` does.

**`Session`** extends `UseCase` with the threads.  Per session: `pc` is where
the thread inside `start()` is (`sleep_until`, a condition, the launch, the wait
on the future, `cancel`/`detach`, `join`, the else branch), `test` which
condition it is at, `thread` where the stage thread is.  Actions are the steps at
which another thread can be seen:

| action | code |
|---|---|
| `Construct`, `SetTooSlow`, `Stop`, `Start` | the calls of `session_tst.cpp` |
| `Begin`, `Pass`, `Skip`, `Verdict` | `sleep_until`, the conditions and the else branch of `start()` |
| `Launch`, `FutureReady`, `FutureTimeout`, `Cancel`, `Join` | `stage_perform` |
| `Enter`, `EnterRefused`, `Mark`, `Fill` | `enter_stage`: its tests, the store to `current_stage`, the other stores |
| `Wake`, `Die` | the sleep of a stage, which is its only cancellation point |
| `Quit`, `MarkQuit`, `FillQuit`, `Answer` | `quit_stage`, and `set_value` on the promise |
| `Tick` | the clock, in whole seconds |

`Cancel` ends the life of the promise: a thread that is past its sleep when it is
cancelled goes on storing into the use case, and calls `set_value` on a promise
that is gone.  That is undefined; the thread is then "stray" and nothing is said
of it.  **`SessionProofs`** has the proofs for any number of sessions,
**`SessionAloneProofs`** those for one that has its use case for itself.

**`SessionLifecycle`** is the abstract specification of `session.h`: which stage
a session performs, whether it was asked to stop, whether its time is up, and its
verdict; no threads, promise or use case.  `Session` is checked to implement it
(`LifecycleSpec`, safety and liveness) under a mapping that says a stage is
performed from its launch until `stage_perform` is left.

**`Application`** has one action per critical step of `fn_store`, `fn_clients`,
`Stop` and `main`; a `wait` with a predicate is the decision (`Wait`,
`StoreWait`), the sleep, the wake-up and the way back to the mutex.  `StoreWait`
and `StoreSleep` are two steps because `Stop()` takes no lock and can fall
between them; a client's decision and sleep are one, as every notification of
`client_cond` is made under the mutex.  **`Stock`** is the abstract
shop, and **`ApplicationProofs`** the proofs.

**`Topics`** is what the servers and listeners do with their four topic options
(`Given`, `Bindings`), and how the broker matches a routing key.

**`Rpc`** has a server's loop (`Serve`, `Consume`, one action per kind of request,
`Reply`, `Ack`, `Kill`, `Close`), a client's (`Subscribe`, `Request`,
`RequestFails`, `Receive`, `ReceiveAny`, `Quit`) and of the broker what they use:
queues bound to the exchange or named, prefetch 1, exclusive queues that go with
their connection, redelivery from a named one.  What the programs are started
with, and how many servers are killed, is a *cast*; a behaviour has one of the
casts from start to end.  The broker is not in the repository; its semantics is
assumed: first in first out, no loss in a live queue, an unacknowledged request
goes back to the front.  A server that throws on an unreadable request leaves its
parent waiting for Return: "crashed".  Its child destroys a connection that both
have from before the fork; whether that ends it for the broker is left open
(`Unreadable`).  **`RpcProofs`** has the proofs.

**`Events`** has the listeners (`Declare`, `Bind`, `Consume`, `Listen`, with
`HearFirst` for the one that ends and `HearAll` for those that go on, `Interrupt`)
and those who publish (`Publish`), again in casts.  Every `queue_bind` is a step,
since an event may come between two.  The broker hands over all it has as soon
as there is a consumer (`Deliver`) and forgets it; what was handed over and not
heard is in `buffer`, and goes with the program.  **`EventsProofs`** has the
proofs.

**`ThreadTimeout`** has the steps of `fn_test` and of `main`, and time.  A write to
the log is a cancellation point that may or may not act; `Tell` on a promise that
is gone makes the thread "wild".  **`ThreadTimeoutProofs`** has the proof that this
does not happen to a punctual thread.

**`Broker`** says when the management interface accepts a call and what it
changes (external).  **`Scripts`** holds the call sequences of the twelve
programs.  **`Provisioning`** runs them: `Launch`, then `Perform`, `Refused` or
`Fault` for each call, `Connects` or `CannotConnect`, `WorkEnds` or `WorkFails`.
Deleting a virtual host takes exchanges, queues and permissions with it, and
connections of users that lose theirs are closed.  A program that cannot connect
ends with an exception, without cleaning up: also an assumption about a library
that is not in the repository.  **`ProvisioningProofs`** has the proofs.

`MC*` modules give the constants their values for TLC.

## 3. The runs

| run | question | instance | distinct states |
|---|---|---|---|
| `use_case` | does a use case keep stage, counter and answers together in every order of calls? | one caller, work maxima 0–12 s, so −1 to 11 iterations | 888 |
| `session` | are verdicts right, is `stop()` honoured, does `start()` return, is the reservation held, does an accepted use case fit it, is the lifecycle implemented? | one session; threads arbitrarily late in a use case of 2 iterations with three reservations, and on time in twelve others with six reservations from zero to longer than all | 275 k |
| `session_pair` | what survives when two sessions share a use case? | two sessions, 1 iteration, symmetric | 2.7 M |
| `shop_many` | is nothing oversold and no request lost? | three clients, two rounds, stock 5, threshold 3, one spurious wake-up | 93 k |
| `rpc` | is a request kept and answered, once, to its own client? | four casts: two servers on a named queue and two kills; echo and connection server on one exchange with an unreadable request; a connection server killed and started again; servers bound topic by topic, addressed through the exchange, directly and not at all. Three requests each, equal ids | 176 k |
| `events` | is what is heard due, is nothing missed, does a wait end? | five casts of two listeners and up to three events: topics with and without a gap; one name for two queues; a queue as asynchronous address beside an exchange that is not there; the tests of permissions, apart and on one queue | 132 k |
| `thread_timeout` | does the promise outlive its thread, and does `main` end? | `TST_SEC` 0 to 7 and 17 as in the program; 3 and more with a punctual thread | 7.5 k |
| `provisioning` | is a reported success one, and is nothing left behind? | six casts of programs, each run any number of times, one fault | 299 k |

Four more runs have a violation as their result; each contradicts a line of the repository:

| run | what TLC shows |
|---|---|
| `session_error` | `session_and_use_case.mmo:9` stops everything when a stage fails; with the use case of another session a stage answers ERROR and `start()` returns with the session still RUNNING (`session.cpp:76`). |
| `shop_starved` | with three clients one sleeps for ever: the refill that woke it was used up by others, and it does not notify again (`mut_cond_1.cpp:75`), so `main` stays at "Attente de la fin des threads." |
| `shop_stop` | `Stop()` without the lock (`mut_cond_1.cpp:29`) falls between the store's test and its sleep, and `main` never joins the store. |
| `rpc_awaiting` | `basic_ack` is in the branch for connection requests only (`connection_server.cxx:243`): after any other one the server awaits requests it can never get. |

What the properties say, beside the types:

* *Use case*: `Progress` ties stage and iteration counter, `AnswerTellsNext` the
  answer to what the next call will do, `ErrorIsFinal` that nothing leads out of
  an error.
* *Session*: `StopHonoured` (at most the one stage that was already decided on is
  launched after `stop()`), `StartReturns`, `ReservationHeld`, `WorkFits`,
  `LifecycleSpec` and, for a session alone with its use case, `NoStageRefused`,
  `CompletedIsFinished` (all iterations are done, and after an answer of the finish
  stage the use case is FINISHED) and `KilledNotReused` (no constructor accepts a
  use case that a stage is in, from its sleep to its last store, and one killed in
  its sleep keeps it for good).  `VerdictJustified` and `StoppedBetweenStages`
  also hold of sessions that share one; the others fail there, which is what
  `session_error` shows.
* *Shop*: `NeverOversold`, `RequestPending`, `RequestAnswered`,
  `StopAfterClients`, and `ShopSpec`, the refinement of `Stock`.
* *RPC*: `AnswerIsMine`, `RequestKept`, `RepliesBounded` (a reply for each queue
  that took a copy, and one more per death only where a queue outlives its
  server), `AckMeansAnswered`, `RoutedAnswered`.
* *Events*: `HeardWasDue` (meant for the listener, published since it was there,
  in order, by one listener of a queue only), `NothingMissed` (by a listener that
  waits; of one that has ended only what came later than the event it heard is
  lost), `WaitingEnds`.
* *Thread timeout*: `PromiseOutlives`, `MainEnds`.
* *Provisioning*: `SuccessMeansProvided`, `ScriptsPermitted` (what the shell
  scripts beside the programs do is permitted), `NoUndueRight`, `OrphanReported`,
  `NothingLeft`, `ConnectedIsWhole`.

### Bounds, and why they are enough

* Clocks stop at `MaxTime`, after every reservation; all later instants are alike
  to the code, which only compares with `t_begin` and `t_end`.  Durations reach
  both sides of each limit: delays of zero, and 0 or 1 s of work, where
  `nb_iterations` is −1 or 0.
* `session_pair` has one iteration per use case and a clock up to 2, or its state
  space would not finish; every interleaving of accesses of the two stage
  threads is there.  `session` has the loop of iterations.
* Three clients are the least with which a refill can be used up by *others*
  before the client it woke gets the mutex; a stock of 5 with a threshold of 3 and
  wishes up to 2 has the relations of the code's 20, 10 and 6.  The proofs
  lift these bounds.
* Two kills let a request be delivered three times and both servers be down.
  Three requests are the least for one in hand, one behind it and one of a kind
  that disturbs.  A run sends each request once, as the programs do.
* Two listeners are the least for a name or a queue that is shared; of three
  events one can be heard, one be behind it and one be for somebody else.  A
  listener may be started again any number of times, an event is published once.
* Up to five seconds `main` of `thread_timeout_tst` waits, after that it gives
  up: the durations lie on both sides.  With `TST_SEC` 6 the thread is about to
  set its promise when it is cancelled.
* One fault in `provisioning` reaches every call of every program.  A program
  never runs twice at the same time; six casts stand for the sets of programs that
  share objects.

### Fairness

* `Session`: the clock and the thread in `start()`.  Nothing is assumed of the
  stage threads, so `StartReturns` covers a stage that hangs.
* `Application`: each of store, `main` and clients runs when it can, as the
  scheduler of the operating system provides; the mutex is not assumed to be
  fair (weak fairness only), and no spurious wake-up is due.
* `Rpc`: a program that was started goes on.  Nobody has to start, kill or
  give up one.  `RoutedAnswered` is conditional on a server that stays up.
* `Events`: the broker delivers and a program that has an event hears it.  Nobody
  has to start, publish, interrupt or cut; `WaitingEnds` counts a cut connection
  as the end of the wait.
* `ThreadTimeout`: time and `main` go on.  The thread may hang, except for the
  durations in `Punctual`, where it has done all it can before a second is over;
  `PromiseOutlives` is about those.  The same holds for `Punctual` in `Session`.
* `UseCaseCaller` and `Provisioning` have safety properties only.

`CHECK_DEADLOCK FALSE` is there for `Rpc`, `Events` and `ThreadTimeout`, where all
programs may have ended, and
in the runs of `Application`, where the deadlocks are what `shop_starved` and
`shop_stop` show by name.

### Modelling decisions

* Accesses of a thread to `use_case_t` that are adjacent and race with another
  thread are grouped as the table above says: tests, `current_stage`, the rest.
  The two assignments of the verdict are one step; a thread that called
  `get_state()` between them could see STOPPED just before KILLED.
* `pthread_cancel` takes effect in the sleep of a stage only, the cancellation
  type being deferred: the calls in `stage_perform` that set it concern the
  calling thread, not the stage's.
* A finish stage that is given up still ends the session COMPLETED
  (`session.cpp:75`).  `CompletedIsFinished` therefore says of FINISHED only that it
  follows from an answer; that all iterations are done holds either way.
* `pthread_join` returns for a thread that has ended in whatever way (`Join`); that
  `start()` only ever joins one that has answered is a consequence, and proved.
* With a work maximum of 0 or 1 s one whole iteration runs all the same and may
  overrun; `WorkFits` starts at 2 s.
* `rand()` is never seeded, so all clients draw the same correlation ids; the
  run gives them equal ids.  Answers are kept apart by the reply queues alone.
* The *named* queue is taken to outlive its server: `echo_direct_server.cxx:39`
  has the line that would make it exclusive commented out, and nothing else asks
  the broker to delete it.
* The default exchange of `rpc_request`, `resource_request` (`rpc_request.cxx:124`),
  is declared by no program, so a request without options ends it.
* A topic after one that is missing is never bound (`event_listener.cxx:111`),
  although the help offers each by itself (`event_listener.cxx:302`).  The
  properties take "meant for the listener" from what the program binds.
* When its connection is cut, `event_listener` catches the exception inside its
  loop and spins until ctrl-C; such a listener is there, waits for nothing, and is
  heard of again when it is interrupted.
* A cut is modelled while a listener waits.  Before that it ends the program, as
  `Interrupt` does.
* The answer to an asynchronous request comes from outside the repository: an
  event that is published straight to the queue of a listener.
* The queue of `direct_event_listener` is there as long as a behaviour of `Events`
  lasts; that other programs delete it is in `Provisioning`.
* `pthread_setcancelstate` and `pthread_setcanceltype` in `thread_timeout_tst` are
  given one another's argument, and concern the caller anyway: cancellation of
  the thread is deferred.
* A test of permissions that ends with an exception leaves behind what it had set
  up, as `direct_request_perms` its user when the virtual host is gone
  (`direct_request_perms.cxx:71`).  `NothingLeft` allows for just that: everything
  that is left was set up by a program whose last run ended so.  It speaks of runs
  in which no call failed without need, as results of deletions are only printed.
* Contents of requests, answers and events are left out, except for what a
  server tells apart; so are users' passwords and the arguments of the programs.
* `vire_domains_old.cxx:196` names an exchange `vire_server.event` that is
  nowhere declared.  `vire_domains` has it right; the old form is the bug that
  `ScriptsPermitted` is tried with.

## 4. What is proved

`ApplicationProofs`, for any set of clients, any stock, threshold, wish, number
of rounds and of spurious wake-ups with `MaxTake <= Threshold <= InitialStock`
(6, 10 and 20 in the code; without it a client could find too little although the
stock is not low, or a full stock could be too small):

| theorem | property |
|---|---|
| `TypeCorrect` | every variable keeps its type |
| `NoOverselling` | `NeverOversold`: the stock stays in range, and whoever is about to take holds the lock and finds enough |
| `RequestsReachStore` | `RequestPending`: a client asleep on a request of its own has a low stock and a store on its way to it |
| `StopComesLast` | `StopAfterClients`: stop is set, and the store ends, only when all clients have finished all rounds |
| `ShopImplemented` | `ShopSpec`: the threads implement the abstract shop |

None of these is inductive.  `IInv` adds what each thread relies on:

* `MutexInv`: a thread holds `stock_lock` exactly in the part of its code inside
  the mutex.  Without it a second thread could take between test and taking.
* `WishInv`: between draw and taking a client has a wish in range and a round to
  go, so that a client served is a `Serve` of `Stock`.
* `StockInv`: a client about to take has enough.
* `OpenInv`: the store goes on only with a low stock or to close, so that a
  refill is a `FillUp` of `Stock`.
* `PendingInv`: a client with a pending request still finds too little, and the
  store cannot decide for sleep.  It holds because the notification is made under
  the mutex, before the wait, and stock only falls until the refill; it needs
  `MaxTake <= Threshold`.
* `StopInv`: `main` goes on only with all clients done.

The proof has a lemma per action, with a step per conjunct; `Invariance` joins
them and the theorems follow.  `ShopImplemented` maps `Take` to `Serve` and `Refill` to `FillUp`; every other
step leaves the variables of `Stock` alone.

`UseCaseProofs`, for any durations, 0 included, and any order of calls:

| theorem | property |
|---|---|
| `TypeCorrect` | the fields keep their types |
| `StageAndCounterAgree` | `Progress` |
| `AnswersTellNext` | `AnswerTellsNext` |
| `ErrorsAreFinal` | `ErrorIsFinal` |

Its `IInv` adds to `Progress` that between two calls a use case is never inside
INITIALIZING or FINISHING, that an open one has the completion TO_BE_CONTINUED
exactly while WORKING (`RestInv`), and that the last answer is its completion
(`AnswerInv`).  The step that carries the weight is `WorkCallStep`: the limit in
`enter_stage` and the one in `quit_stage` meet, so what is left WORKING has an
iteration to go, and what is left WORKED has had all, also when
`nb_iterations` is 0 or −1.

`SessionProofs`, for any number of sessions on one use case, any durations and
reservations, and stage threads that are as late as they like or hang:

| theorem | property |
|---|---|
| `TypeCorrect` | every variable keeps its type |
| `VerdictsAreJustified` | `VerdictJustified` |
| `StopsAreHonoured` | `StopHonoured` |
| `StopsBetweenStages` | `StoppedBetweenStages` |
| `LifecycleImplemented` | `LifecycleSafety`, the safety part of `LifecycleSpec` |
| `ReservationsAreHeld` | `ReservationHeld`, where the threads are punctual |

`LifecycleImplemented` says more than the run: the run has the whole `LifecycleSpec`
for a session alone, the theorem the order of the stages and the meaning of the
verdicts also for sessions that disturb one another.  `IInv` is a conjunction for
each session, and a step of one session leaves that of the others alone (`Frame`):

* `UseCaseInv`: a use case, and so a promise, never has TIMEOUT as its answer; only
  `stage_perform` says that.  Without it a verdict KILLED could come too early.
* `StateInv`: where `start()` is and `get_state()` agree.
* `TimeoutInv`: a stage is given up only when the reservation is over, and no
  stage is launched after one that was.
* `StageInv`: which stage was performed last at each condition.  A condition that
  was skipped leaves behind a stop request or a completion that also rules out
  the conditions after it; so FINISH never follows INIT.
* `BetweenInv`: between stages no thread is at work but one that was given up.
* `LateInv`: a stage launched in spite of `stop()` is followed by none.

`ReservationsAreHeld` needs what time says as well (`TimeInv`): a session that is
accepted has `t_begin <= t_end`, and a promise that has been answered is that of a
thread that has ended, so that no `join` makes `start()` wait (`AnswerInv`).  `IInv`
needs this as well: after the join of a thread that was cancelled there would be one
in the use case between two stages.

`SessionAloneProofs`, for any durations and reservations, under the hypothesis
`Alone` that there is one session.  The theorems are false without it:
`session_error` shows a second session on the same use case refusing stages to the
first.

| theorem | property |
|---|---|
| `NothingIsRefused` | `NoStageRefused` |
| `CompletedMeansFinished` | `CompletedIsFinished` |
| `KilledIsNotReused` | `KilledNotReused` |
| `TheWorkFits` | `WorkFits`, where the threads are punctual |

The first three hold however late the stage thread is.  `AloneInv` ties the two
sides together: `StageThreadInv` says in which state the use case is at each place
of the stage thread, between the stores of `enter_stage` and of `quit_stage` too,
and `KnownInv` that `start()` has its completion unless it has given the stage up.
A stage that was given up is on its way through the same places, so what
`CompletedIsFinished` and `KilledNotReused` say of it is read off there.
The conditions of `start()` then imply those of `enter_stage`.  `PaceInv` counts
the seconds for `TheWorkFits`: each stage has to end by `t_begin` and what the
stages up to it may take (`CourseInv`), which is within the reservation because the
constructor has compared it with the maximal duration (`FitInv`).

`RpcProofs`, for any servers, clients, topics, correlation ids, casts and kills:

| theorem | property |
|---|---|
| `TypeCorrect` | every variable keeps its type |
| `AnswersReachTheirClient` | `AnswerIsMine` |
| `AckComesLast` | `AckMeansAnswered` |
| `RequestsAreKept` | `RequestKept` |
| `RepliesAreBounded` | `RepliesBounded` |

The servers are assumed to be finitely many, for their queues to be counted.
`IInv` adds that a server inside its handler has a request, to which it has
replied before it is about to acknowledge it (`HandInv`), and that a reply queue
has only replies to its own client (`InboxInv`).  The second makes the comparison
of correlation ids superfluous, as it has to be with ids that are equal in
all clients.  Exclusive reply queues are the reason.

The last two follow the copies of a request (`CopyInv`): a copy is in a queue the
request was sent to or with a server of that queue (`PlaceInv`), there is no second
one for the same queue (`OneCopyInv`), a server about to acknowledge leaves the
reply in the inbox of a client that waits (`RepliedInv`), and there is nothing of a
request that was not sent (`UnsentInv`).  `CountInv` adds the replies given to the
queues that may still lead to one (`Open`): a reply takes a queue away, and only a
death gives one back, and only where the queue outlives its server.

`EventsProofs`, for any listeners, events, exchanges, keys and casts:

| theorem | property |
|---|---|
| `TypeCorrect` | every variable keeps its type |
| `OnlyTheDueIsHeard` | `HeardWasDue` |
| `NothingIsMissed` | `NothingMissed` |

The assumptions on the constants keep names apart: no listener is called
"everyone" or like the owner of a queue that is not there, no queue has the empty
name.  `IInv` goes along the way of an event:

* `HistInv`: an event is published once, so that it has a place in the history.
* `OwnInv`: an exclusive queue is there exactly as long as the connection of its
  listener; other queues were there before.
* `LineInv`: what was heard, what is in the buffer and what is in the queue follow
  one another in the order of publication.
* `DueInv`: all of this is due to the listener, and no two listeners of a queue
  have the same event.
* `MissInv`: a listener that waits has bound all its topics, and what is due to it
  since then is somewhere on this way.  One that was cut off or has ended has the
  first of it.  It holds because binding is over before the first `Consume`.

`ProvisioningProofs`, for any casts of the twelve programs, run as often as one
likes, and any number of calls that fail:

| theorem | property |
|---|---|
| `TypeCorrect` | every variable keeps its type, and nothing on the broker lacks what it depends on |
| `ConnectedKeepTheirs` | `ConnectedIsWhole` |
| `TheTestsCleanUp` | `NothingLeft` |
| `SuccessIsProvision` | `SuccessMeansProvided` |
| `TheScriptsArePermitted` | `ScriptsPermitted` |
| `OrphansAreReported` | `OrphanReported` |
| `NoRightIsUndue` | `NoUndueRight`, under the hypothesis `Apart` |

`Apart` says that the programs of `vire_domains` and of the temporary user are not
run together with the tests of permissions.  The tests give rights to queues, and
the second half of the property is about exchanges; the casts of the run are
apart.  The other theorems need no such hypothesis.

The scripts are twelve sequences of up to 27 calls.  Going through them
for each invariant would be hopeless, so they are read once, in `CallsAreSound`:
what each program may add and delete, and that the rights a user has on a virtual
host are the same whoever gives them (`RightsOf`), so that `set_permissions` of
one program takes nothing away from another.  `Survival` says that no call takes
away what is lasting.  Each property then has an invariant about the place of a
program in its script:

* `ObjectInv`: all objects are of known kinds with these rights.
* `HostInv`: a host at work has its permissions, and with them its virtual host and
  what it serves.
* `LeftInv`: for every object there is a program that sets it up and either runs and
  is going to remove it (`Dooms`) or has ended with an exception.  When all have
  ended, only the latter are left.
* `VireInv`, `TmpInv`: what `vire_domains` and `add_tmpuser` have added so far is
  still there.  A user whose `add_user` failed unnoticed is there all the same at
  the end: its permissions could not have been set.
* `OrphanInv`: without its user, the virtual host of the temporary user is about to
  be deleted, or `add_tmpuser` about to fail.
* `GrantInv`: permissions on the virtual host of the temporary user come after its
  exchanges.

`ThreadTimeoutProofs`, for every `TST_SEC` and every bound of time: `TypeCorrect`,
and `PromiseSafe` (`PromiseOutlives`).  `IInv` adds what `main` knows of promise
and thread (`PromiseInv`: in its last sleep the thread has answered or is
cancelled) and what time says (`TimeInv`): a cancelled thread that has not ended
can always run, at a cancellation point or past it, and while a punctual thread
can run no second passes, so that it has ended when `main` returns.

Every safety property of the passing runs is stated by one of these theorems.
Only model-checked is liveness: `StartReturns`, `RequestAnswered`, `RoutedAnswered`,
`WaitingEnds`, `MainEnds` and the liveness part of `LifecycleSpec`.  Fairness and
ENABLED are out of reach of the prover.  That the code does not do what is
said of it somewhere is shown by the counterexamples of `session_error`,
`shop_starved`, `shop_stop` and `rpc_awaiting`; these are about small instances by
nature.

## 5. Not modelled

* Contents of messages beyond what a program tells apart: what a status event
  says, how requests and answers are encoded, the decoding of an answer (a server
  echoes a request it could decode, or builds the answer itself).
* `config_scripts`, a second way to set up the broker, with `rabbitmqctl`
  (`vire_domains2.sh`, `add_tmpuser_wxCVbn.sh`, `del_tmpuser_wxCVbn.sh`).  These
  scripts look at no result, and they do not do what the programs do that are
  modelled: `add_tmpuser_wxCVbn.sh:23` gives `wxCVbn` read on `vireserver.service` in
  its own virtual host, and no write.  `NoUndueRight` calls that right undue, and
  `ScriptsPermitted` asks for uses that need others.  The script also uses `X_QUEST`,
  which it never sets (`:21`, `:22`), declares no exchanges (`:16`, `:17` are commented
  out) and gives `vireserver` no rights there.  What is checked and proved of
  provisioning is about the `.cxx` programs only.
* What serves an asynchronous address: no program in the repository does.
* `time_tools` and the printing of logs: formatting only.
* `vire_domains_old` and `session.cpp.old`, which later versions replace; build
  files; shell scripts other than as the uses in `ScriptsPermitted` and as the
  options in the casts.

## 6. Plan

Done, in this order: `UseCase`, `UseCaseCaller`, `UseCaseProofs` → `Session`
(composes it with the threads) → `SessionLifecycle` (abstract) → `Application`,
`Stock`, `ApplicationProofs` → `Rpc` → `Broker`, `Scripts`, `Provisioning` →
`Topics`, `Events` → `ThreadTimeout`, `ThreadTimeoutProofs` → `RpcProofs` →
`SessionProofs` → `EventsProofs` → `SessionAloneProofs` → `ProvisioningProofs`.

Next:

1. The safety half of the liveness properties: that a `start()` which has not
   returned can always step or let time pass (`StartReturns`), and that a listener
   that waits with an event in its queue can be given it (`WaitingEnds`).
2. An abstract specification of a queue with acknowledgement (a request is sent,
   answered, paid for) that `Rpc` implements; `CopyInv` has what the proof needs.
3. Shorter proofs where one lemma serves several modules: the sequences of
   `EventsProofs` and `RpcProofs` have much in common.
