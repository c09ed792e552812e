-------------------------- MODULE SessionLifecycle --------------------------
(***************************************************************************)
(* What a session promises to whoever constructs, starts and stops it: the *)
(* abstract specification of threads/session.h.  It knows no threads, no   *)
(* promise and no use case; only which stage the session performs, whether *)
(* it was asked to stop, whether its reservation is over, and its state.   *)
(***************************************************************************)
CONSTANT Sessions

VARIABLES
  state,     \* what get_state () returns, "none" before the constructor
  stage,     \* the last stage performed, "none" before the first
  active,    \* that stage is being performed
  stopping,  \* stop () was called
  due,       \* the reservation is over
  lost       \* a stage was given up

vars == <<state, stage, active, stopping, due, lost>>

Init ==
  /\ state = [s \in Sessions |-> "none"]
  /\ stage = [s \in Sessions |-> "none"]
  /\ active = [s \in Sessions |-> FALSE]
  /\ stopping = [s \in Sessions |-> FALSE]
  /\ due = [s \in Sessions |-> FALSE]
  /\ lost = [s \in Sessions |-> FALSE]

\* A reservation made for the past is over from the start.
Reserve(s) ==
  /\ state[s] = "none"
  /\ \E v \in {"READY", "ERROR"}, d \in BOOLEAN :
       /\ state' = [state EXCEPT ![s] = v]
       /\ due' = [due EXCEPT ![s] = d]
  /\ UNCHANGED <<stage, active, stopping, lost>>

RequestStop(s) ==
  /\ stopping' = [stopping EXCEPT ![s] = TRUE]
  /\ UNCHANGED <<state, stage, active, due, lost>>

\* Time passes for all sessions together.
Expire ==
  /\ UNCHANGED <<state, stage, active, stopping, lost>>
  /\ due' \in [Sessions -> BOOLEAN]
  /\ \A s \in Sessions : due[s] => due'[s]
  /\ \A s \in Sessions : state[s] = "none" => ~due'[s]

Run(s) ==
  /\ state[s] = "READY"
  /\ state' = [state EXCEPT ![s] = "RUNNING"]
  /\ UNCHANGED <<stage, active, stopping, due, lost>>

\* INIT first, then WITER once or more, then FINISH, one at a time.
Follows == {<<"none", "INIT">>, <<"INIT", "WITER">>, <<"WITER", "WITER">>,
            <<"WITER", "FINISH">>}

Perform(s, t) ==
  /\ state[s] = "RUNNING"
  /\ ~active[s] /\ ~lost[s]
  /\ <<stage[s], t>> \in Follows
  /\ stage' = [stage EXCEPT ![s] = t]
  /\ active' = [active EXCEPT ![s] = TRUE]
  /\ UNCHANGED <<state, stopping, due, lost>>

\* The stage is over, or is given up once the reservation is.  A FINISH stage
\* takes the session to COMPLETED either way.
StageOver(s) ==
  /\ active[s]
  /\ active' = [active EXCEPT ![s] = FALSE]
  /\ \/ UNCHANGED lost
     \/ due[s] /\ lost' = [lost EXCEPT ![s] = TRUE]
  /\ state' = [state EXCEPT ![s] = IF stage[s] = "FINISH" THEN "COMPLETED" ELSE @]
  /\ UNCHANGED <<stage, stopping, due>>

\* Without a finish stage the verdict is KILLED if a stage was given up, else
\* STOPPED.
GiveVerdict(s) ==
  /\ state[s] = "RUNNING"
  /\ ~active[s]
  /\ stage[s] # "FINISH"
  /\ \/ lost[s] /\ state' = [state EXCEPT ![s] = "KILLED"]
     \/ ~lost[s] /\ stopping[s] /\ state' = [state EXCEPT ![s] = "STOPPED"]
  /\ UNCHANGED <<stage, active, stopping, due, lost>>

Step(s) == (\E t \in {"INIT", "WITER", "FINISH"} : Perform(s, t))
           \/ StageOver(s) \/ GiveVerdict(s)

Next == Expire \/ \E s \in Sessions : Reserve(s) \/ RequestStop(s) \/ Run(s) \/ Step(s)

\* A session that runs goes on: it performs, ends or leaves its stages.
Spec == Init /\ [][Next]_vars /\ \A s \in Sessions : WF_vars(Step(s))
=============================================================================
