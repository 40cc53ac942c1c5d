---------------------------- MODULE PlanExecutor ----------------------------
(***************************************************************************)
(* The execution of one query plan: PlanExecutor.execute validates the     *)
(* plan, cuts its steps into topological layers, and runs a layer at a     *)
(* time on a pool of threads.  A step checks its dependencies, resolves    *)
(* its bindings and calls its tool, at most twice, with a reservation of   *)
(* the shared budget before each call.  A call that exceeds its timeout is *)
(* abandoned: its thread goes on and nobody waits for it.  Steps are       *)
(* numbers in the order in which the plan declares them.                   *)
(***************************************************************************)
EXTENDS Naturals, FiniteSets, Functions

CONSTANTS
    Steps,          \* the steps of a plan
    Plans,          \* the plans that may be submitted
    Concurrency,    \* threads of a layer
    RetryTimeouts   \* the steps whose tool declares TimeoutError as retryable

ASSUME StepsAssumption == Steps \subseteq Nat /\ IsFiniteSet(Steps)
QueryPlan ==
    [hard : [Steps -> SUBSET Steps], optional : [Steps -> SUBSET Steps],
     corpora : [Steps -> Nat], calls : [Steps -> Nat], budget : Nat]

ASSUME PlansAssumption == Plans \subseteq QueryPlan
ASSUME ConcurrencyAssumption == Concurrency \in Nat \ {0}

VARIABLES
    plan,      \* the plan being executed
    phase,     \* where execute() is
    placed,    \* steps of the layers that are over
    task,      \* step -> where its thread is, and the attempts it made
    result,    \* step -> what its thread returned
    results,   \* step -> its result as far as later layers can see it
    used,      \* units of the budget that are spent
    late       \* step -> abandoned calls that still run

execVars == <<plan, phase, placed, task, result, results, used, late>>

Phases == {"validate", "layer", "done", "raised"}
Places == {"waiting", "queued", "reserve", "calling", "finished", "failed_closed"}
StepStatus == {"succeeded", "failed", "timed_out", "skipped_dependency", "budget_exhausted"}

StepResult == [status : StepStatus, evidence : BOOLEAN, consumed : Nat]
NoResult == [status |-> "none", evidence |-> FALSE, consumed |-> 0]

-----------------------------------------------------------------------------
(* The plan and its validation.                                            *)

all_dependency_ids(p, s) == p.hard[s] \cup p.optional[s]

\* Mutant: the graph of the validator has the hard edges only.
Bug_Upstream_hard_only(p, s) == p.hard[s]

\* The edges of the validator's graph (PlanValidator._build_edges).
Upstream(p, s) == p.hard[s] \cup p.optional[s]

\* Kahn's algorithm: remove what has no upstream left, round after round.
_has_cycle(p) ==
    LET visited[k \in 0 .. Cardinality(Steps)] ==
            IF k = 0 THEN {}
            ELSE {s \in Steps : Upstream(p, s) \subseteq visited[k - 1]}
    IN  visited[Cardinality(Steps)] # Steps

\* Mutant: only the single steps are compared with the global budget.
Bug_BudgetsFit_no_total(p) == \A s \in Steps : p.calls[s] <= p.budget

\* The static budget check: every step, and all of them together.
BudgetsFit(p) ==
    /\ \A s \in Steps : p.calls[s] <= p.budget
    /\ SumFunction(p.calls) <= p.budget

\* What validation and the check of the corpus counts let through.
Accepted(p) ==
    /\ \A s \in Steps : p.hard[s] \cap p.optional[s] = {}
    /\ ~_has_cycle(p)
    /\ BudgetsFit(p)
    /\ \A s \in Steps : p.calls[s] >= p.corpora[s]

\* Mutant: a step does not wait for its optional dependencies.
Bug_Ready_hard_only(done) == {s \in Steps \ done : plan.hard[s] \subseteq done}

\* The layer that follows the steps in `done`: in-degree zero once these are gone.
Ready(done) == {s \in Steps \ done : all_dependency_ids(plan, s) \subseteq done}

\* The threads of the layer S are submitted.
Submit(S) ==
    task' = [s \in Steps |-> IF s \in S THEN [at |-> "queued", attempts |-> 0] ELSE task[s]]

validate ==
    /\ phase = "validate"
    /\ IF Accepted(plan) THEN phase' = "layer" /\ Submit(Ready({}))
                         ELSE phase' = "raised" /\ UNCHANGED task
    /\ UNCHANGED <<plan, placed, result, results, used, late>>

-----------------------------------------------------------------------------
(* One step on its thread.                                                 *)

At(s, place) == task[s].at = place

Layer == {s \in Steps : task[s].at # "waiting"} \ placed

Goto(s, place) == task' = [task EXCEPT ![s].at = place]

\* Mutant: the result of a step reports its last attempt only.
Bug_Return_last_attempt(s, status, evidence) ==
    /\ Goto(s, "finished")
    /\ result' = [result EXCEPT ![s] =
          [status |-> status, evidence |-> evidence, consumed |-> plan.corpora[s]]]

\* The thread of s returns with this status.
Return(s, status, evidence) ==
    /\ Goto(s, "finished")
    /\ result' = [result EXCEPT ![s] =
          [status |-> status, evidence |-> evidence,
           consumed |-> task[s].attempts * plan.corpora[s]]]

Blocked(s) == \E d \in plan.hard[s] : results[d].status # "succeeded"

\* The pool takes the steps in plan order.  The tool is looked up first, which
\* may fail the step or the execution; then come the required dependencies, then
\* the bindings, which may lack a required value.
_execute_single_step(s) ==
    /\ At(s, "queued")
    /\ \A r \in Layer : At(r, "queued") => s <= r
    /\ Cardinality({r \in Layer : At(r, "reserve") \/ At(r, "calling")}) < Concurrency
    /\ \/ Return(s, "failed", FALSE)
       \/ Goto(s, "failed_closed") /\ UNCHANGED result
       \/ Blocked(s) /\ Return(s, "skipped_dependency", FALSE)
       \/ ~Blocked(s) /\ Goto(s, "reserve") /\ UNCHANGED result
    /\ UNCHANGED <<plan, phase, placed, results, used, late>>

\* Mutant: every step may be retried.
Bug_max_attempts_always_two(s) == 2

max_attempts(s) ==
    IF plan.calls[s] >= 2 * plan.corpora[s] THEN 2
    ELSE IF plan.calls[s] >= plan.corpora[s] THEN 1 ELSE 0

\* Mutant: one retry too many.
Bug_MayRetry_off_by_one(s) == task[s].attempts <= max_attempts(s)

MayRetry(s) == task[s].attempts < max_attempts(s)

\* One unit per corpus, all or none, under the lock of the budget.
try_reserve(s) ==
    /\ At(s, "reserve")
    /\ IF used + plan.corpora[s] <= plan.budget
       THEN /\ used' = used + plan.corpora[s]
            /\ task' = [task EXCEPT ![s] = [at |-> "calling", attempts |-> @.attempts + 1]]
            /\ UNCHANGED result
       ELSE Return(s, "budget_exhausted", FALSE) /\ UNCHANGED used
    /\ UNCHANGED <<plan, phase, placed, results, late>>

\* The call comes back in time: with outputs, with an error that may be retried
\* or not, or with one that must end the whole execution.
Answer(s) ==
    /\ At(s, "calling")
    /\ \/ \E evidence \in BOOLEAN : Return(s, "succeeded", evidence)
       \/ Return(s, "failed", FALSE)
       \/ MayRetry(s) /\ Goto(s, "reserve") /\ UNCHANGED result
       \/ Goto(s, "failed_closed") /\ UNCHANGED result
    /\ UNCHANGED <<plan, phase, placed, results, used, late>>

\* A declared TimeoutError is caught as a retryable error, which ends as
\* "failed" once the attempts are used up; any other one as "timed_out".
Timeout(s) ==
    /\ At(s, "calling")
    /\ late' = [late EXCEPT ![s] = @ + 1]
    /\ IF s \in RetryTimeouts /\ MayRetry(s)
       THEN Goto(s, "reserve") /\ UNCHANGED result
       ELSE Return(s, IF s \in RetryTimeouts THEN "failed" ELSE "timed_out", FALSE)
    /\ UNCHANGED <<plan, phase, placed, results, used>>

\* An abandoned call ends: its outcome is dropped with its future.
LateAnswer(s) ==
    /\ late[s] > 0
    /\ late' = [late EXCEPT ![s] = @ - 1]
    /\ UNCHANGED <<plan, phase, placed, task, result, results, used>>

-----------------------------------------------------------------------------
(* The end of a layer.  Leaving the pool waits for all its threads, also   *)
(* when one of them has failed closed.                                     *)

\* Mutant: the pool of a tool call is left only when its thread has ended.
Bug_Over_waits_for_late(s) == task[s].at \in {"finished", "failed_closed"} /\ late[s] = 0

Over(s) == task[s].at \in {"finished", "failed_closed"}

\* Mutant: the layer goes on with the results that it has.
Bug_FailsClosed_never == FALSE

FailsClosed == \E s \in Layer : At(s, "failed_closed")

Usable(rs) == \E s \in Steps : rs[s].status = "succeeded" /\ rs[s].evidence

\* Results become visible to later layers all at once; after the last layer the
\* report is built, which takes some evidence.
_execute_layer ==
    LET done == placed \cup Layer IN
    /\ phase = "layer"
    /\ \A s \in Layer : Over(s)
    /\ IF FailsClosed
       THEN phase' = "raised" /\ UNCHANGED <<placed, results, task>>
       ELSE /\ results' = [s \in Steps |-> IF s \in Layer THEN result[s] ELSE results[s]]
            /\ placed' = done
            /\ Submit(Ready(done))
            /\ phase' = CASE Ready(done) # {} -> "layer"
                          [] Ready(done) = {} /\ Usable(results') -> "done"
                          [] OTHER -> "raised"
    /\ UNCHANGED <<plan, result, used, late>>

-----------------------------------------------------------------------------
ExecInit ==
    /\ plan \in Plans
    /\ phase = "validate"
    /\ placed = {}
    /\ task = [s \in Steps |-> [at |-> "waiting", attempts |-> 0]]
    /\ result = [s \in Steps |-> NoResult]
    /\ results = [s \in Steps |-> NoResult]
    /\ used = 0
    /\ late = [s \in Steps |-> 0]

\* What a thread of the pool does on its own.
Advance(s) == _execute_single_step(s) \/ try_reserve(s)

ExecNext ==
    \/ validate
    \/ \E s \in Steps : Advance(s) \/ Answer(s) \/ Timeout(s) \/ LateAnswer(s)
    \/ _execute_layer

ExecSpec == ExecInit /\ [][ExecNext]_execVars

\* Threads run and deadlines pass; no tool need ever answer.
ExecFairness ==
    /\ WF_execVars(validate)
    /\ \A s \in Steps : WF_execVars(Advance(s)) /\ WF_execVars(Timeout(s))
    /\ WF_execVars(_execute_layer)

FairExecSpec == ExecSpec /\ ExecFairness

-----------------------------------------------------------------------------
(* Properties.                                                             *)

\* Types of the execution; no step makes a third attempt.
ExecTypeOK ==
    /\ plan \in QueryPlan
    /\ phase \in Phases
    /\ placed \in SUBSET Steps
    /\ task \in [Steps -> [at : Places, attempts : 0 .. 2]]
    /\ result \in [Steps -> StepResult \cup {NoResult}]
    /\ results \in [Steps -> StepResult \cup {NoResult}]
    /\ used \in Nat
    /\ late \in [Steps -> 0 .. 2]

\* The budget that is spent is what the attempts of all steps cost, and the
\* results of a report account for all of it, abandoned calls included.
BudgetAccounted ==
    /\ used = SumFunction([s \in Steps |-> task[s].attempts * plan.corpora[s]])
    /\ used <= plan.budget
    /\ phase = "done" => used = SumFunction([s \in Steps |-> results[s].consumed])

\* An accepted plan never runs out of budget: its static check leaves room for
\* every retry of every step, in whatever order they reserve.
NeverExhausted ==
    \A s \in Steps : result[s].status # "budget_exhausted"

\* A step spends no more than the plan allows it, retries included.
StepWithinItsCalls ==
    \A s \in Steps : task[s].attempts * plan.corpora[s] <= plan.calls[s]

\* A tool is called only after all required dependencies of its step have
\* succeeded and all optional ones have come to an end, and none of them
\* changes afterwards.
CalledAfterDependencies ==
    \A s \in Steps : task[s].attempts > 0 =>
        /\ \A d \in plan.hard[s] : results[d].status = "succeeded"
        /\ \A d \in plan.optional[s] : results[d].status # "none"

\* In a report every step has its result: what the validator lets through is
\* what the layers can reach.  A step was skipped only for a required dependency
\* that did not succeed.
EveryStepAnswered ==
    phase = "done" =>
        \A s \in Steps :
            /\ results[s].status # "none"
            /\ results[s].status = "skipped_dependency" =>
                  \E d \in plan.hard[s] : results[d].status # "succeeded"

\* An error of authorization or tenant binding in any step, whatever the other
\* threads of its layer do, leaves no report.
FailedClosedIsRaised ==
    phase = "done" => \A s \in Steps : ~At(s, "failed_closed")

\* execute() returns or raises although tools may hang for ever.
Terminates == <>(phase \in {"done", "raised"})
=============================================================================
