------------------------- MODULE PlanExecutorProofs -------------------------
(***************************************************************************)
(* Theorems about the execution of a plan, for every set of steps, every   *)
(* plan, every number of threads and every choice of retryable timeouts.   *)
(* The last part is about sums and about the graph of dependencies, whose  *)
(* recursive functions are treated by their smallest counterexamples.      *)
(***************************************************************************)
EXTENDS PlanExecutor, FiniteSetTheorems, WellFoundedInduction, TLAPS

\* Where the thread of a step may be, and what its attempts have shown.
Tasks ==
    \A s \in Steps :
        /\ task[s].at \in {"waiting", "queued"} => task[s].attempts = 0
        /\ task[s].at = "reserve" => task[s].attempts < max_attempts(s)
        /\ task[s].attempts <= max_attempts(s)
        /\ late[s] <= task[s].attempts
        /\ task[s].at = "calling" => late[s] < task[s].attempts
        /\ task[s].at = "finished" => result[s].status # "none"
        /\ task[s].at # "waiting" =>
              /\ plan.corpora[s] <= plan.calls[s]
              /\ all_dependency_ids(plan, s) \subseteq placed

\* The steps of the layers that are over have their final results.
Placed ==
    \A s \in placed : task[s].at = "finished" /\ results[s].status # "none"

\* Who has passed the check of the required dependencies passes it for good.
Passed ==
    \A s \in Steps :
        task[s].at \in {"reserve", "calling"} \/ task[s].attempts > 0 => ~Blocked(s)

\* No thread runs outside the layers.
Phased ==
    /\ phase = "validate" => \A s \in Steps : task[s].at = "waiting"
    /\ phase = "layer" => \A s \in Steps : plan.corpora[s] <= plan.calls[s]
    /\ phase = "done" => \A s \in Steps : task[s].at \in {"waiting", "finished"}

IInv == ExecTypeOK /\ Tasks /\ Placed /\ Passed /\ Phased

-----------------------------------------------------------------------------
\* A step makes at most as many attempts as its calls pay for, two at most.
LEMMA MaxAttempts ==
    ASSUME ExecTypeOK, NEW s \in Steps
    PROVE  /\ max_attempts(s) \in 0 .. 2
           /\ \A n \in 0 .. 2 : n <= max_attempts(s) => n * plan.corpora[s] <= plan.calls[s]
           /\ plan.corpora[s] <= plan.calls[s] => 0 < max_attempts(s)
<1>1. plan.corpora[s] \in Nat /\ plan.calls[s] \in Nat
  BY DEF ExecTypeOK, QueryPlan
<1>2. max_attempts(s) \in 0 .. 2
  BY DEF max_attempts
<1>3. ASSUME NEW n \in 0 .. 2, n <= max_attempts(s)
      PROVE  n * plan.corpora[s] <= plan.calls[s]
  <2>1. CASE n = 0
    BY <1>1, <2>1
  <2>2. CASE n = 1
    BY <1>1, <1>3, <2>2 DEF max_attempts
  <2>3. CASE n = 2
    BY <1>1, <1>3, <2>3 DEF max_attempts
  <2> QED
    BY <2>1, <2>2, <2>3
<1>4. plan.corpora[s] <= plan.calls[s] => 0 < max_attempts(s)
  BY <1>1 DEF max_attempts
<1> QED
  BY <1>2, <1>3, <1>4

\* A step of one thread, which is past its submission and not over, keeps the
\* invariant if what it leaves behind is in order.
LEMMA ThreadKeepsIInv ==
    ASSUME IInv, NEW s \in Steps, task[s].at \in {"queued", "reserve", "calling"},
           UNCHANGED <<plan, phase, placed, results>>,
           NEW t \in [at : Places \ {"waiting", "queued"}, attempts : 0 .. 2],
           NEW r \in StepResult \cup {NoResult}, NEW n \in 0 .. 2,
           task' = [task EXCEPT ![s] = t], result' = [result EXCEPT ![s] = r],
           late' = [late EXCEPT ![s] = n], used' \in Nat,
           t.at = "reserve" => t.attempts < max_attempts(s),
           t.attempts <= max_attempts(s),
           n <= t.attempts,
           t.at = "calling" => n < t.attempts,
           t.at = "finished" => r.status # "none",
           t.at \in {"reserve", "calling"} \/ t.attempts > 0 => ~Blocked(s)
    PROVE  IInv'
<1>1. s \notin placed /\ phase \notin {"validate", "done"}
  BY DEF IInv, Placed, Phased
<1>2. ExecTypeOK'
  BY DEF IInv, ExecTypeOK, Places
<1>3. \A q \in Steps \ {s} : task'[q] = task[q] /\ result'[q] = result[q] /\ late'[q] = late[q]
  BY DEF IInv, ExecTypeOK
<1>4. task'[s] = t /\ result'[s] = r /\ late'[s] = n
  BY DEF IInv, ExecTypeOK
<1>5. \A q \in Steps : max_attempts(q)' = max_attempts(q) /\ (Blocked(q)' <=> Blocked(q))
  BY DEF max_attempts, Blocked
<1>6. Tasks'
  <2> SUFFICES ASSUME NEW q \in Steps
      PROVE  /\ task'[q].at \in {"waiting", "queued"} => task'[q].attempts = 0
             /\ task'[q].at = "reserve" => task'[q].attempts < max_attempts(q)
             /\ task'[q].attempts <= max_attempts(q)
             /\ late'[q] <= task'[q].attempts
             /\ task'[q].at = "calling" => late'[q] < task'[q].attempts
             /\ task'[q].at = "finished" => result'[q].status # "none"
             /\ task'[q].at # "waiting" =>
                   /\ plan.corpora[q] <= plan.calls[q]
                   /\ all_dependency_ids(plan, q) \subseteq placed
    BY <1>5 DEF Tasks, all_dependency_ids
  <2>1. CASE q = s
    BY <1>4, <2>1 DEF IInv, Tasks, Places
  <2>2. CASE q # s
    BY <1>3, <2>2 DEF IInv, Tasks
  <2> QED
    BY <2>1, <2>2
<1>7. Placed'
  BY <1>1, <1>3 DEF IInv, Placed, ExecTypeOK
<1>8. Passed'
  BY <1>3, <1>4, <1>5 DEF IInv, Passed
<1>9. Phased'
  BY <1>1 DEF IInv, Phased
<1> QED
  BY <1>2, <1>6, <1>7, <1>8, <1>9 DEF IInv

-----------------------------------------------------------------------------
\* The invariant holds at the start.
LEMMA InitIInv == ExecInit => IInv
<1> SUFFICES ASSUME ExecInit
    PROVE  IInv
  OBVIOUS
<1>1. ExecTypeOK
  BY PlansAssumption DEF ExecInit, ExecTypeOK, Phases, Places
<1>2. \A s \in Steps : max_attempts(s) \in 0 .. 2
  BY <1>1, MaxAttempts
<1>3. Tasks
  BY <1>2 DEF ExecInit, Tasks
<1> QED
  BY <1>1, <1>3 DEF ExecInit, IInv, Placed, Passed, Phased

\* The start of a layer, of steps that wait and whose dependencies are over.
LEMMA SubmitKeepsTasks ==
    ASSUME IInv, NEW S, S \subseteq Steps, Submit(S),
           UNCHANGED <<plan, result, late>>, placed \subseteq placed',
           \A s \in S : task[s].at = "waiting" /\ all_dependency_ids(plan, s) \subseteq placed',
           \A s \in Steps : plan.corpora[s] <= plan.calls[s]
    PROVE  /\ task' \in [Steps -> [at : Places, attempts : 0 .. 2]]
           /\ \A s \in Steps : s \in S => task'[s] = [at |-> "queued", attempts |-> 0]
           /\ \A s \in Steps : s \notin S => task'[s] = task[s]
           /\ Tasks'
<1>1. /\ \A s \in Steps : s \in S => task'[s] = [at |-> "queued", attempts |-> 0]
      /\ \A s \in Steps : s \notin S => task'[s] = task[s]
  BY DEF Submit
<1>2. task' \in [Steps -> [at : Places, attempts : 0 .. 2]]
  BY DEF Submit, IInv, ExecTypeOK, Places
<1>3. \A s \in Steps : max_attempts(s) \in 0 .. 2
  BY MaxAttempts DEF IInv
<1>4. Tasks'
  <2> SUFFICES ASSUME NEW s \in Steps
      PROVE  /\ task'[s].at \in {"waiting", "queued"} => task'[s].attempts = 0
             /\ task'[s].at = "reserve" => task'[s].attempts < max_attempts(s)
             /\ task'[s].attempts <= max_attempts(s)
             /\ late[s] <= task'[s].attempts
             /\ task'[s].at = "calling" => late[s] < task'[s].attempts
             /\ task'[s].at = "finished" => result[s].status # "none"
             /\ task'[s].at # "waiting" =>
                   /\ plan.corpora[s] <= plan.calls[s]
                   /\ all_dependency_ids(plan, s) \subseteq placed'
    BY DEF Tasks, max_attempts, all_dependency_ids
  <2>1. CASE s \in S
    BY <1>1, <1>3, <2>1 DEF IInv, Tasks
  <2>2. CASE s \notin S
    BY <1>1, <2>2 DEF IInv, Tasks
  <2> QED
    BY <2>1, <2>2
<1> QED
  BY <1>1, <1>2, <1>4

\* Validation starts a layer of waiting steps without dependencies.
LEMMA ValidateKeepsIInv == IInv /\ validate => IInv'
<1> SUFFICES ASSUME IInv, validate
    PROVE  IInv'
  OBVIOUS
<1>1. CASE ~Accepted(plan)
  BY <1>1 DEF validate, IInv, ExecTypeOK, Phases, Tasks, Placed, Passed, Phased,
              max_attempts, Blocked, all_dependency_ids
<1>2. CASE Accepted(plan)
  <2> DEFINE S == Ready({})
  <2>1. \A s \in Steps : plan.corpora[s] <= plan.calls[s]
    BY <1>2 DEF Accepted, IInv, ExecTypeOK, QueryPlan
  <2>2. Submit(S) /\ phase' = "layer"
    BY <1>2 DEF validate
  <2>3. S \subseteq Steps
    BY DEF Ready
  <2>4. \A s \in S : task[s].at = "waiting" /\ all_dependency_ids(plan, s) \subseteq placed'
    BY DEF Ready, validate, IInv, Phased
  <2>5. UNCHANGED <<plan, placed, result, results, used, late>>
    BY DEF validate
  <2> HIDE DEF S
  <2>6. /\ task' \in [Steps -> [at : Places, attempts : 0 .. 2]]
        /\ \A s \in Steps : s \in S => task'[s] = [at |-> "queued", attempts |-> 0]
        /\ \A s \in Steps : s \notin S => task'[s] = task[s]
        /\ Tasks'
    BY <2>1, <2>2, <2>3, <2>4, <2>5, SubmitKeepsTasks
  <2>7. ExecTypeOK'
    BY <2>2, <2>5, <2>6 DEF IInv, ExecTypeOK, Phases
  <2>8. Placed'
    BY <2>4, <2>5, <2>6 DEF IInv, Placed, ExecTypeOK
  <2>9. Passed'
    BY <2>5, <2>6 DEF IInv, Passed, Blocked
  <2>10. Phased'
    BY <2>1, <2>2, <2>5 DEF Phased
  <2> QED
    BY <2>6, <2>7, <2>8, <2>9, <2>10 DEF IInv
<1> QED
  BY <1>1, <1>2

\* The end of an abandoned call changes nothing but its count.
LEMMA LateAnswerKeepsIInv ==
    ASSUME IInv, NEW s \in Steps, LateAnswer(s)
    PROVE  IInv'
<1>1. late' \in [Steps -> 0 .. 2] /\ \A q \in Steps : late'[q] <= late[q]
  BY DEF LateAnswer, IInv, ExecTypeOK
<1>2. ExecTypeOK'
  BY <1>1 DEF LateAnswer, IInv, ExecTypeOK
<1>3. Tasks'
  BY <1>1 DEF LateAnswer, IInv, ExecTypeOK, Tasks, max_attempts, all_dependency_ids
<1> QED
  BY <1>2, <1>3 DEF LateAnswer, IInv, Placed, Passed, Phased, Blocked

-----------------------------------------------------------------------------
\* The threads.  Every action of a thread leaves its step in order.
LEMMA StepParts ==
    ASSUME IInv, NEW s \in Steps
    PROVE  /\ task[s] \in [at : Places, attempts : 0 .. 2]
           /\ task[s] = [at |-> task[s].at, attempts |-> task[s].attempts]
           /\ late[s] \in 0 .. 2 /\ result[s] \in StepResult \cup {NoResult}
           /\ late = [late EXCEPT ![s] = late[s]]
           /\ result = [result EXCEPT ![s] = result[s]]
           /\ plan.corpora[s] \in Nat /\ used \in Nat
BY DEF IInv, ExecTypeOK, QueryPlan

\* A thread that moves keeps its attempts.
LEMMA GotoSets ==
    ASSUME IInv, NEW s \in Steps, NEW place, Goto(s, place)
    PROVE  task' = [task EXCEPT ![s] = [at |-> place, attempts |-> task[s].attempts]]
<1>1. task[s] \in [at : Places, attempts : 0 .. 2]
  BY DEF IInv, ExecTypeOK
<1>2. [task[s] EXCEPT !.at = place] = [at |-> place, attempts |-> task[s].attempts]
  BY <1>1
<1> QED
  BY <1>2 DEF Goto

\* A thread that returns, whatever its status.
LEMMA ReturnKeepsIInv ==
    ASSUME IInv, NEW s \in Steps, task[s].at \in {"queued", "reserve", "calling"},
           UNCHANGED <<plan, phase, placed, results, used>>,
           NEW status \in StepStatus, NEW evidence \in BOOLEAN, Return(s, status, evidence),
           NEW n \in 0 .. 2, late' = [late EXCEPT ![s] = n], n <= task[s].attempts
    PROVE  IInv'
<1> DEFINE t == [at |-> "finished", attempts |-> task[s].attempts]
           r == [status |-> status, evidence |-> evidence,
                 consumed |-> task[s].attempts * plan.corpora[s]]
<1>1. task[s].attempts \in 0 .. 2 /\ plan.corpora[s] \in Nat /\ used' \in Nat
  BY StepParts
<1>2. t \in [at : Places \ {"waiting", "queued"}, attempts : 0 .. 2]
  BY <1>1 DEF Places
<1>3. task[s].attempts * plan.corpora[s] \in Nat
  BY <1>1
<1>4. r \in StepResult \cup {NoResult} /\ r.status # "none"
  BY <1>3 DEF StepResult, StepStatus
<1>5. task' = [task EXCEPT ![s] = t] /\ result' = [result EXCEPT ![s] = r]
  BY GotoSets DEF Return
<1>6. /\ t.at = "finished" /\ t.attempts <= max_attempts(s)
      /\ n <= t.attempts
      /\ t.attempts > 0 => ~Blocked(s)
  BY <1>1 DEF IInv, Tasks, Passed
<1> HIDE DEF t, r
<1> QED
  BY <1>1, <1>2, <1>4, <1>5, <1>6, ThreadKeepsIInv

\* A thread that goes on or fails closed, its result untouched.
LEMMA GotoKeepsIInv ==
    ASSUME IInv, NEW s \in Steps, task[s].at \in {"queued", "reserve", "calling"},
           UNCHANGED <<plan, phase, placed, results, result, used>>,
           NEW place \in {"reserve", "failed_closed"}, Goto(s, place),
           NEW n \in 0 .. 2, late' = [late EXCEPT ![s] = n], n <= task[s].attempts,
           place = "reserve" => task[s].attempts < max_attempts(s) /\ ~Blocked(s)
    PROVE  IInv'
<1> DEFINE t == [at |-> place, attempts |-> task[s].attempts]
<1>1. task[s].attempts \in 0 .. 2 /\ used' \in Nat
  BY StepParts
<1>2. t \in [at : Places \ {"waiting", "queued"}, attempts : 0 .. 2]
  BY <1>1 DEF Places
<1>3. task' = [task EXCEPT ![s] = t] /\ result' = [result EXCEPT ![s] = result[s]]
  <2>1. task' = [task EXCEPT ![s] = t]
    BY GotoSets
  <2>2. result = [result EXCEPT ![s] = result[s]]
    BY StepParts
  <2> QED
    BY <2>1, <2>2
<1>4. /\ t.at = place /\ t.attempts = task[s].attempts /\ t.attempts <= max_attempts(s)
      /\ t.at \in {"reserve", "calling"} \/ t.attempts > 0 => ~Blocked(s)
      /\ result[s] \in StepResult \cup {NoResult}
  BY <1>1, StepParts DEF IInv, Tasks, Passed
<1> HIDE DEF t
<1> QED
  BY <1>1, <1>2, <1>3, <1>4, ThreadKeepsIInv

\* The start of a step on its thread.
LEMMA ExecuteSingleStepKeepsIInv ==
    ASSUME IInv, NEW s \in Steps, _execute_single_step(s)
    PROVE  IInv'
<1>1. /\ task[s].at = "queued" /\ task[s].attempts = 0 /\ late[s] \in 0 .. 2
      /\ late[s] <= task[s].attempts
      /\ UNCHANGED <<plan, phase, placed, results, used, late>>
      /\ late' = [late EXCEPT ![s] = late[s]]
  BY StepParts DEF _execute_single_step, At, IInv, Tasks
<1>2. 0 < max_attempts(s)
  BY <1>1, MaxAttempts DEF IInv, Tasks
<1>3. CASE Return(s, "failed", FALSE)
  BY <1>1, <1>3, ReturnKeepsIInv DEF StepStatus
<1>4. CASE Goto(s, "failed_closed") /\ UNCHANGED result
  BY <1>1, <1>4, GotoKeepsIInv
<1>5. CASE Return(s, "skipped_dependency", FALSE)
  BY <1>1, <1>5, ReturnKeepsIInv DEF StepStatus
<1>6. CASE ~Blocked(s) /\ Goto(s, "reserve") /\ UNCHANGED result
  BY <1>1, <1>2, <1>6, GotoKeepsIInv
<1> QED
  BY <1>3, <1>4, <1>5, <1>6 DEF _execute_single_step

\* A reservation, granted or refused.
LEMMA TryReserveKeepsIInv ==
    ASSUME IInv, NEW s \in Steps, try_reserve(s)
    PROVE  IInv'
<1>1. /\ task[s].at = "reserve" /\ task[s].attempts < max_attempts(s) /\ ~Blocked(s)
      /\ late[s] \in 0 .. 2 /\ late[s] <= task[s].attempts
      /\ UNCHANGED <<plan, phase, placed, results, late>>
      /\ late' = [late EXCEPT ![s] = late[s]]
  BY StepParts DEF try_reserve, At, IInv, Tasks, Passed
<1>2. CASE Return(s, "budget_exhausted", FALSE) /\ UNCHANGED used
  BY <1>1, <1>2, ReturnKeepsIInv DEF StepStatus
<1>3. CASE /\ used' = used + plan.corpora[s]
           /\ task' = [task EXCEPT ![s] = [at |-> "calling", attempts |-> @.attempts + 1]]
           /\ UNCHANGED result
  <2> DEFINE t == [at |-> "calling", attempts |-> task[s].attempts + 1]
  <2>1. task[s].attempts \in 0 .. 2 /\ used' \in Nat /\ max_attempts(s) \in 0 .. 2
    <3>1. task[s].attempts \in 0 .. 2 /\ used \in Nat /\ plan.corpora[s] \in Nat
      BY StepParts
    <3>2. max_attempts(s) \in 0 .. 2
      BY MaxAttempts DEF IInv
    <3> QED
      BY <1>3, <3>1, <3>2
  <2>2. t \in [at : Places \ {"waiting", "queued"}, attempts : 0 .. 2]
    BY <1>1, <2>1 DEF Places
  <2>3. task' = [task EXCEPT ![s] = t] /\ result' = [result EXCEPT ![s] = result[s]]
    BY <1>3, StepParts DEF IInv, ExecTypeOK
  <2>4. /\ t.at = "calling" /\ t.attempts <= max_attempts(s)
        /\ late[s] < t.attempts /\ late[s] <= t.attempts
        /\ result[s] \in StepResult \cup {NoResult}
    <3>1. result[s] \in StepResult \cup {NoResult}
      BY StepParts
    <3> QED
      BY <1>1, <2>1, <3>1
  <2> HIDE DEF t
  <2> QED
    BY <1>1, <2>1, <2>2, <2>3, <2>4, ThreadKeepsIInv
<1> QED
  BY <1>2, <1>3 DEF try_reserve

\* An answer in time.
LEMMA AnswerKeepsIInv ==
    ASSUME IInv, NEW s \in Steps, Answer(s)
    PROVE  IInv'
<1>1. /\ task[s].at = "calling" /\ ~Blocked(s)
      /\ late[s] \in 0 .. 2 /\ late[s] <= task[s].attempts
      /\ UNCHANGED <<plan, phase, placed, results, used, late>>
      /\ late' = [late EXCEPT ![s] = late[s]]
  BY StepParts DEF Answer, At, IInv, Tasks, Passed
<1>2. CASE \E evidence \in BOOLEAN : Return(s, "succeeded", evidence)
  BY <1>1, <1>2, ReturnKeepsIInv DEF StepStatus
<1>3. CASE Return(s, "failed", FALSE)
  BY <1>1, <1>3, ReturnKeepsIInv DEF StepStatus
<1>4. CASE MayRetry(s) /\ Goto(s, "reserve") /\ UNCHANGED result
  BY <1>1, <1>4, GotoKeepsIInv DEF MayRetry
<1>5. CASE Goto(s, "failed_closed") /\ UNCHANGED result
  BY <1>1, <1>5, GotoKeepsIInv
<1> QED
  BY <1>2, <1>3, <1>4, <1>5 DEF Answer

\* A call that is abandoned adds one to the late ones.
LEMMA TimeoutKeepsIInv ==
    ASSUME IInv, NEW s \in Steps, Timeout(s)
    PROVE  IInv'
<1> DEFINE n == late[s] + 1
<1>1. /\ task[s].at = "calling" /\ ~Blocked(s)
      /\ UNCHANGED <<plan, phase, placed, results, used>>
  BY DEF Timeout, At, IInv, Passed
<1>2. n \in 0 .. 2 /\ n <= task[s].attempts
  <2>1. late[s] \in 0 .. 2 /\ task[s].attempts \in 0 .. 2
    BY StepParts
  <2>2. late[s] < task[s].attempts
    BY <1>1 DEF IInv, Tasks
  <2> QED
    BY <2>1, <2>2
<1>3. late' = [late EXCEPT ![s] = n]
  BY DEF Timeout, IInv, ExecTypeOK
<1> HIDE DEF n
<1>4. CASE MayRetry(s) /\ Goto(s, "reserve") /\ UNCHANGED result
  BY <1>1, <1>2, <1>3, <1>4, GotoKeepsIInv DEF MayRetry
<1>5. CASE Return(s, "failed", FALSE)
  BY <1>1, <1>2, <1>3, <1>5, ReturnKeepsIInv DEF StepStatus
<1>6. CASE Return(s, "timed_out", FALSE)
  BY <1>1, <1>2, <1>3, <1>6, ReturnKeepsIInv DEF StepStatus
<1> QED
  BY <1>4, <1>5, <1>6 DEF Timeout

-----------------------------------------------------------------------------
\* The end of a layer.
LEMMA ExecuteLayerKeepsIInv == IInv /\ _execute_layer => IInv'
<1> SUFFICES ASSUME IInv, _execute_layer
    PROVE  IInv'
  OBVIOUS
<1>1. CASE FailsClosed
  <2>1. phase' = "raised" /\ UNCHANGED <<plan, placed, task, result, results, used, late>>
    BY <1>1 DEF _execute_layer
  <2> QED
    BY <2>1 DEF IInv, ExecTypeOK, Phases, Tasks, Placed, Passed, Phased,
                max_attempts, Blocked, all_dependency_ids
<1>2. CASE ~FailsClosed
  <2> DEFINE done == placed \cup Layer
             S == Ready(done)
  <2>1. /\ results' = [s \in Steps |-> IF s \in Layer THEN result[s] ELSE results[s]]
        /\ placed' = done
        /\ Submit(S)
        /\ phase' \in {"layer", "done", "raised"}
        /\ phase' = "done" => S = {}
        /\ UNCHANGED <<plan, result, used, late>>
    BY <1>2 DEF _execute_layer
  <2>2. \A s \in Steps : plan.corpora[s] <= plan.calls[s]
    BY DEF _execute_layer, IInv, Phased
  <2>3. /\ done \subseteq Steps /\ placed \subseteq done
        /\ \A s \in done : task[s].at = "finished"
        /\ \A s \in Steps \ done : task[s].at = "waiting"
    BY <1>2 DEF _execute_layer, FailsClosed, Layer, Over, At, IInv, ExecTypeOK, Placed
  <2>4. \A s \in S : s \in Steps \ done /\ all_dependency_ids(plan, s) \subseteq done
    BY DEF Ready
  <2>5. S \subseteq Steps
    BY <2>4
  <2>6. \A s \in S : task[s].at = "waiting" /\ all_dependency_ids(plan, s) \subseteq placed'
    BY <2>1, <2>3, <2>4
  <2>7. placed \subseteq placed'
    BY <2>1, <2>3
  <2> HIDE DEF S
  <2>8. /\ task' \in [Steps -> [at : Places, attempts : 0 .. 2]]
        /\ \A s \in Steps : s \in S => task'[s] = [at |-> "queued", attempts |-> 0]
        /\ \A s \in Steps : s \notin S => task'[s] = task[s]
        /\ Tasks'
    BY <2>1, <2>2, <2>5, <2>6, <2>7, SubmitKeepsTasks
  <2> HIDE DEF done
  <2>9. ExecTypeOK'
    <3>1. results' \in [Steps -> StepResult \cup {NoResult}]
      BY <2>1 DEF IInv, ExecTypeOK
    <3>2. placed' \in SUBSET Steps /\ phase' \in Phases
      BY <2>1, <2>3 DEF Phases
    <3> QED
      BY <2>1, <2>8, <3>1, <3>2 DEF IInv, ExecTypeOK
  <2>10. Placed'
    <3> SUFFICES ASSUME NEW s \in done
        PROVE  task'[s].at = "finished" /\ results'[s].status # "none"
      BY <2>1 DEF Placed
    <3>1. s \in Steps /\ s \notin S /\ task'[s] = task[s] /\ task[s].at = "finished"
      BY <2>3, <2>4, <2>8
    <3>2. CASE s \in Layer
      BY <2>1, <3>1, <3>2 DEF IInv, Tasks
    <3>3. CASE s \notin Layer
      BY <2>1, <3>1, <3>3 DEF done, IInv, Placed
    <3> QED
      BY <3>1, <3>2, <3>3
  <2>11. Passed'
    <3> SUFFICES ASSUME NEW s \in Steps,
                        task'[s].at \in {"reserve", "calling"} \/ task'[s].attempts > 0,
                        NEW d \in plan.hard[s]
        PROVE  results'[d].status = "succeeded"
      BY <2>1 DEF Passed, Blocked
    <3>1. s \notin S /\ task'[s] = task[s]
      BY <2>8
    <3>2. results[d].status = "succeeded"
      BY <3>1 DEF IInv, Passed, Blocked
    <3>3. task[s].at # "waiting"
      BY <3>1 DEF IInv, Tasks
    <3>4. d \in placed
      BY <3>3 DEF IInv, Tasks, all_dependency_ids
    <3>5. d \in Steps /\ d \notin Layer
      BY <3>4 DEF Layer, IInv, ExecTypeOK
    <3> QED
      BY <2>1, <3>2, <3>5
  <2>12. Phased'
    BY <2>1, <2>2, <2>3, <2>4, <2>8 DEF Phased
  <2> QED
    BY <2>8, <2>9, <2>10, <2>11, <2>12 DEF IInv
<1> QED
  BY <1>1, <1>2

\* The invariant is inductive.
LEMMA NextIInv == IInv /\ [ExecNext]_execVars => IInv'
<1> SUFFICES ASSUME IInv, [ExecNext]_execVars
    PROVE  IInv'
  OBVIOUS
<1>1. CASE validate
  BY <1>1, ValidateKeepsIInv
<1>2. ASSUME NEW s \in Steps, Advance(s) \/ Answer(s) \/ Timeout(s) \/ LateAnswer(s)
      PROVE  IInv'
  BY <1>2, ExecuteSingleStepKeepsIInv, TryReserveKeepsIInv, AnswerKeepsIInv,
     TimeoutKeepsIInv, LateAnswerKeepsIInv DEF Advance
<1>3. CASE _execute_layer
  BY <1>3, ExecuteLayerKeepsIInv
<1>4. CASE UNCHANGED execVars
  BY <1>4 DEF execVars, IInv, ExecTypeOK, Tasks, Placed, Passed, Phased,
              max_attempts, Blocked, all_dependency_ids
<1> QED
  BY <1>1, <1>2, <1>3, <1>4 DEF ExecNext

\* The invariant behind the theorems below holds in every reachable state.
LEMMA ExecInvariant == ExecSpec => []IInv
BY InitIInv, NextIInv, PTL DEF ExecSpec

-----------------------------------------------------------------------------
\* Every variable of an execution keeps its type; no step is tried a third time.
THEOREM ExecTypeCorrect == ExecSpec => []ExecTypeOK
<1>1. IInv => ExecTypeOK
  BY DEF IInv
<1> QED
  BY <1>1, ExecInvariant, PTL

\* A tool is called only when the required dependencies of its step have
\* succeeded and the optional ones are over, however the threads interleave
\* and whichever calls time out.
THEOREM CalledAfterDependenciesHolds == ExecSpec => []CalledAfterDependencies
<1>1. IInv => CalledAfterDependencies
  <2> SUFFICES ASSUME IInv, NEW s \in Steps, task[s].attempts > 0
      PROVE  /\ \A d \in plan.hard[s] : results[d].status = "succeeded"
             /\ \A d \in plan.optional[s] : results[d].status # "none"
    BY DEF CalledAfterDependencies
  <2>1. ~Blocked(s)
    BY DEF IInv, Passed
  <2>2. task[s].at # "waiting"
    BY DEF IInv, Tasks
  <2>3. plan.optional[s] \subseteq placed
    BY <2>2 DEF IInv, Tasks, all_dependency_ids
  <2> QED
    BY <2>1, <2>3 DEF Blocked, IInv, Placed
<1> QED
  BY <1>1, ExecInvariant, PTL

\* The attempts of a step, abandoned ones included, cost no more than its calls.
THEOREM StepWithinItsCallsHolds == ExecSpec => []StepWithinItsCalls
<1>1. IInv => StepWithinItsCalls
  <2> SUFFICES ASSUME IInv, NEW s \in Steps
      PROVE  task[s].attempts * plan.corpora[s] <= plan.calls[s]
    BY DEF StepWithinItsCalls
  <2>1. task[s].attempts \in 0 .. 2
    BY StepParts
  <2>2. task[s].attempts <= max_attempts(s)
    BY DEF IInv, Tasks
  <2> QED
    BY <2>1, <2>2, MaxAttempts DEF IInv
<1> QED
  BY <1>1, ExecInvariant, PTL

\* A report exists only if no thread of any layer has failed closed.
THEOREM FailedClosedIsRaisedHolds == ExecSpec => []FailedClosedIsRaised
<1>1. IInv => FailedClosedIsRaised
  BY DEF IInv, Phased, FailedClosedIsRaised, At
<1> QED
  BY <1>1, ExecInvariant, PTL

-----------------------------------------------------------------------------
(* Sums over the steps.  The folds of the library are recursive functions; *)
(* that they are defined, and what they compute, is shown by looking at a  *)
(* smallest counterexample.                                                *)

\* A non-empty set of numbers has a least one.
LEMMA LeastNumber ==
    ASSUME NEW S, S \subseteq Nat, S # {}
    PROVE  \E n \in S : \A m \in S : n <= m
<1>1. IsWellFoundedOn(OpToRel(<, Nat), Nat)
  BY NatLessThanWellFounded
<1>2. PICK n \in S : \A m \in S : <<m, n>> \notin OpToRel(<, Nat)
  BY <1>1, WFMin
<1>3. \A m \in S : ~(m < n)
  BY <1>2 DEF OpToRel
<1> QED
  BY <1>3

\* What holds of the empty set, and of a set once it holds of the set without
\* any one of its elements, holds of all subsets of a finite set.
LEMMA SubsetInduction ==
    ASSUME NEW S, IsFiniteSet(S), NEW G, {} \in G,
           \A T \in SUBSET S : T # {} /\ (\A x \in T : T \ {x} \in G) => T \in G
    PROVE  \A T \in SUBSET S : T \in G
<1> DEFINE B == {T \in SUBSET S : T \notin G}
           C == {Cardinality(T) : T \in B}
<1>1. \A T \in SUBSET S : IsFiniteSet(T) /\ Cardinality(T) \in Nat
  BY FS_Subset, FS_CardinalityType
<1> SUFFICES ASSUME B # {} PROVE FALSE
  OBVIOUS
<1>2. C \subseteq Nat /\ C # {}
  BY <1>1
<1>3. PICK n \in C : \A m \in C : n <= m
  BY <1>2, LeastNumber
<1>4. PICK T \in B : n = Cardinality(T)
  BY <1>3
<1>5. ASSUME NEW x \in T PROVE T \ {x} \in G
  <2>1. T \ {x} \in SUBSET S
    BY <1>4
  <2>2. Cardinality(T \ {x}) = Cardinality(T) - 1
    BY <1>1, <1>4, FS_RemoveElement
  <2>3. Cardinality(T) \in Nat /\ Cardinality(T \ {x}) \in Nat
    BY <1>1, <1>4, <2>1
  <2>4. Cardinality(T \ {x}) \notin C
    BY <1>3, <1>4, <2>2, <2>3
  <2> QED
    BY <2>1, <2>4
<1> QED
  BY <1>4, <1>5

\* The element that a fold takes first.
Pick(T) == CHOOSE x \in T : TRUE

\* The recursion of a sum, over all subsets of S.
Adds(f, u, S) ==
    f = [T \in SUBSET S |-> IF T = {} THEN 0 ELSE u[Pick(T)] + f[T \ {Pick(T)}]]

\* There is a function that satisfies it.
LEMMA AddsExists ==
    ASSUME NEW S, IsFiniteSet(S), NEW u \in [S -> Nat]
    PROVE  \E f : Adds(f, u, S)
<1> DEFINE UpTo(g, n) ==
              \A T \in SUBSET S : Cardinality(T) <= n =>
                 g[T] = IF T = {} THEN 0 ELSE u[Pick(T)] + g[T \ {Pick(T)}]
           B == {n \in Nat : ~ \E g \in [SUBSET S -> Nat] : UpTo(g, n)}
<1>1. \A T \in SUBSET S : /\ IsFiniteSet(T) /\ Cardinality(T) \in Nat
                          /\ Cardinality(T) = 0 <=> T = {}
                          /\ Cardinality(T) <= Cardinality(S)
  BY FS_Subset, FS_CardinalityType, FS_EmptySet
<1>2. \A T \in SUBSET S : T # {} =>
         /\ Pick(T) \in S /\ T \ {Pick(T)} \in SUBSET S
         /\ Cardinality(T \ {Pick(T)}) = Cardinality(T) - 1
  <2> SUFFICES ASSUME NEW T \in SUBSET S, T # {}
               PROVE  Pick(T) \in T /\ Cardinality(T \ {Pick(T)}) = Cardinality(T) - 1
    OBVIOUS
  <2>1. Pick(T) \in T
    BY DEF Pick
  <2> QED
    BY <1>1, <2>1, FS_RemoveElement
<1>3. 0 \notin B
  <2>1. [T \in SUBSET S |-> 0] \in [SUBSET S -> Nat]
    OBVIOUS
  <2>2. UpTo([T \in SUBSET S |-> 0], 0)
    BY <1>1
  <2> QED
    BY <2>1, <2>2
<1>4. ASSUME NEW n \in Nat, n \notin B PROVE n + 1 \notin B
  <2>1. PICK g \in [SUBSET S -> Nat] : UpTo(g, n)
    BY <1>4
  <2> DEFINE h == [T \in SUBSET S |-> IF T = {} THEN 0 ELSE u[Pick(T)] + g[T \ {Pick(T)}]]
  <2>2. h \in [SUBSET S -> Nat]
    BY <1>2
  <2>3. \A T \in SUBSET S : Cardinality(T) <= n => h[T] = g[T]
    BY <2>1
  <2>4. ASSUME NEW T \in SUBSET S, Cardinality(T) <= n + 1
        PROVE  h[T] = IF T = {} THEN 0 ELSE u[Pick(T)] + h[T \ {Pick(T)}]
    <3>1. CASE T = {}
      BY <3>1
    <3>2. CASE T # {}
      <4>1. T \ {Pick(T)} \in SUBSET S /\ Cardinality(T \ {Pick(T)}) <= n
        BY <1>1, <1>2, <2>4, <3>2
      <4>2. h[T \ {Pick(T)}] = g[T \ {Pick(T)}]
        BY <2>3, <4>1
      <4> HIDE DEF UpTo
      <4>3. h[T] = u[Pick(T)] + g[T \ {Pick(T)}]
        BY <3>2
      <4> HIDE DEF h
      <4> QED
        BY <3>2, <4>2, <4>3
    <3> QED
      BY <3>1, <3>2
  <2> HIDE DEF h
  <2>5. UpTo(h, n + 1)
    BY <2>4
  <2> QED
    BY <2>2, <2>5
<1>5. B = {}
  <2> SUFFICES ASSUME B # {} PROVE FALSE
    OBVIOUS
  <2>1. B \subseteq Nat
    OBVIOUS
  <2> HIDE DEF B
  <2>2. PICK n \in B : \A m \in B : n <= m
    BY <2>1, LeastNumber
  <2>3. n \in Nat /\ n # 0
    BY <1>3, <2>1, <2>2
  <2>4. n - 1 \in Nat /\ ~(n <= n - 1) /\ (n - 1) + 1 = n
    BY <2>3
  <2>5. n - 1 \notin B
    BY <2>2, <2>4
  <2> QED
    BY <1>4, <2>2, <2>4, <2>5
<1>6. Cardinality(S) \in Nat
  BY FS_CardinalityType
<1>7. PICK g \in [SUBSET S -> Nat] : UpTo(g, Cardinality(S))
  BY <1>5, <1>6
<1>8. g = [T \in SUBSET S |-> IF T = {} THEN 0 ELSE u[Pick(T)] + g[T \ {Pick(T)}]]
  BY <1>1, <1>7
<1> QED
  BY <1>8 DEF Adds

\* The sum of a function is what such a function says of its domain.
LEMMA SumAdds ==
    ASSUME NEW S, IsFiniteSet(S), NEW u \in [S -> Nat]
    PROVE  \E f \in [SUBSET S -> Nat] : Adds(f, u, S) /\ SumFunction(u) = f[S]
<1> DEFINE f == CHOOSE g : g = [T \in SUBSET S |-> IF T = {} THEN 0
                                  ELSE u[CHOOSE x \in T : TRUE] + g[T \ {CHOOSE x \in T : TRUE}]]
<1>1. \E g : g = [T \in SUBSET S |-> IF T = {} THEN 0
                                  ELSE u[CHOOSE x \in T : TRUE] + g[T \ {CHOOSE x \in T : TRUE}]]
  <2>1. PICK h : Adds(h, u, S)
    BY AddsExists
  <2> QED
    BY <2>1 DEF Adds, Pick
<1>2. f = [T \in SUBSET S |-> IF T = {} THEN 0
                                  ELSE u[CHOOSE x \in T : TRUE] + f[T \ {CHOOSE x \in T : TRUE}]]
  BY <1>1
<1>3. SumFunction(u) = f[S]
  <2>1. DOMAIN u = S
    OBVIOUS
  <2> QED
    BY <2>1 DEF SumFunction, SumFunctionOnSet, FoldFunctionOnSet, MapThenFoldSet
<1> HIDE DEF f
<1>4. Adds(f, u, S)
  BY <1>2 DEF Adds, Pick
<1>5. f \in [SUBSET S -> Nat]
  <2> DEFINE G == {T \in SUBSET S : f[T] \in Nat}
  <2>1. {} \in G
    BY <1>4 DEF Adds
  <2>2. ASSUME NEW T \in SUBSET S, T # {}, \A x \in T : T \ {x} \in G PROVE T \in G
    <3>1. Pick(T) \in T
      BY <2>2 DEF Pick
    <3>2. f[T \ {Pick(T)}] \in Nat /\ u[Pick(T)] \in Nat
      BY <2>2, <3>1
    <3>3. f[T] = u[Pick(T)] + f[T \ {Pick(T)}]
      BY <1>4, <2>2 DEF Adds
    <3> QED
      BY <3>2, <3>3
  <2>3. \A T \in SUBSET S : T \in G
    <3> HIDE DEF G
    <3> QED
      BY <2>1, <2>2, SubsetInduction
  <2>4. \A T \in SUBSET S : f[T] \in Nat
    BY <2>3
  <2> QED
    BY <1>2, <2>4
<1> QED
  BY <1>3, <1>4, <1>5

\* A sum of numbers is a number, and grows with them.
LEMMA SumMonotone ==
    ASSUME NEW S, IsFiniteSet(S), NEW u \in [S -> Nat], NEW v \in [S -> Nat],
           \A s \in S : u[s] <= v[s]
    PROVE  SumFunction(u) \in Nat /\ SumFunction(v) \in Nat /\ SumFunction(u) <= SumFunction(v)
<1>1. PICK f \in [SUBSET S -> Nat] : Adds(f, u, S) /\ SumFunction(u) = f[S]
  BY SumAdds
<1>2. PICK g \in [SUBSET S -> Nat] : Adds(g, v, S) /\ SumFunction(v) = g[S]
  BY SumAdds
<1> DEFINE G == {T \in SUBSET S : f[T] <= g[T]}
<1>3. {} \in G
  BY <1>1, <1>2 DEF Adds
<1>4. ASSUME NEW T \in SUBSET S, T # {}, \A x \in T : T \ {x} \in G PROVE T \in G
  <2>1. Pick(T) \in T
    BY <1>4 DEF Pick
  <2>2. f[T] = u[Pick(T)] + f[T \ {Pick(T)}] /\ g[T] = v[Pick(T)] + g[T \ {Pick(T)}]
    BY <1>1, <1>2, <1>4 DEF Adds
  <2>3. f[T \ {Pick(T)}] <= g[T \ {Pick(T)}] /\ u[Pick(T)] <= v[Pick(T)]
    BY <1>4, <2>1
  <2>4. /\ f[T \ {Pick(T)}] \in Nat /\ g[T \ {Pick(T)}] \in Nat
        /\ u[Pick(T)] \in Nat /\ v[Pick(T)] \in Nat
    BY <2>1
  <2> QED
    BY <2>2, <2>3, <2>4
<1>5. \A T \in SUBSET S : T \in G
  <2> HIDE DEF G
  <2> QED
    BY <1>3, <1>4, SubsetInduction
<1> QED
  BY <1>1, <1>2, <1>5

\* Changing one of the numbers changes the sum by the difference.
LEMMA SumUpdate ==
    ASSUME NEW S, IsFiniteSet(S), NEW u \in [S -> Nat], NEW v \in [S -> Nat],
           NEW s \in S, NEW n \in Nat,
           v[s] = u[s] + n, \A x \in S \ {s} : v[x] = u[x]
    PROVE  SumFunction(v) = SumFunction(u) + n
<1>1. PICK f \in [SUBSET S -> Nat] : Adds(f, u, S) /\ SumFunction(u) = f[S]
  BY SumAdds
<1>2. PICK g \in [SUBSET S -> Nat] : Adds(g, v, S) /\ SumFunction(v) = g[S]
  BY SumAdds
<1> DEFINE G == {T \in SUBSET S : g[T] = f[T] + (IF s \in T THEN n ELSE 0)}
<1>3. {} \in G
  BY <1>1, <1>2 DEF Adds
<1>4. ASSUME NEW T \in SUBSET S, T # {}, \A x \in T : T \ {x} \in G PROVE T \in G
  <2> DEFINE x == Pick(T)
             R == T \ {x}
  <2>1. x \in T
    BY <1>4 DEF Pick
  <2>2. f[T] = u[x] + f[R] /\ g[T] = v[x] + g[R]
    BY <1>1, <1>2, <1>4 DEF Adds
  <2>3. g[R] = f[R] + (IF s \in R THEN n ELSE 0)
    BY <1>4, <2>1
  <2>4. f[R] \in Nat /\ u[x] \in Nat /\ f[T] \in Nat /\ R \in SUBSET S
    BY <2>1
  <2>5. s \in R <=> s \in T /\ s # x
    OBVIOUS
  <2> HIDE DEF x, R
  <2>6. CASE x = s
    <3>1. v[x] = u[x] + n /\ g[R] = f[R] /\ s \in T
      BY <2>1, <2>3, <2>4, <2>5, <2>6
    <3> QED
      BY <2>2, <2>4, <3>1
  <2>7. CASE x # s
    <3>1. v[x] = u[x] /\ (s \in R <=> s \in T)
      BY <2>1, <2>5, <2>7
    <3> QED
      BY <2>2, <2>3, <2>4, <3>1
  <2> QED
    BY <2>6, <2>7
<1>5. \A T \in SUBSET S : T \in G
  <2> HIDE DEF G
  <2> QED
    BY <1>3, <1>4, SubsetInduction
<1>6. S \in G
  BY <1>5
<1>7. g[S] = f[S] + n
  BY <1>6
<1> QED
  BY <1>1, <1>2, <1>7

\* A sum of zeros is zero.
LEMMA SumZero ==
    ASSUME NEW S, IsFiniteSet(S)
    PROVE  SumFunction([s \in S |-> 0]) = 0
<1> DEFINE u == [s \in S |-> 0]
<1>0. u \in [S -> Nat] /\ \A s \in S : u[s] = 0
  OBVIOUS
<1> HIDE DEF u
<1>1. PICK f \in [SUBSET S -> Nat] : Adds(f, u, S) /\ SumFunction(u) = f[S]
  BY <1>0, SumAdds
<1> DEFINE G == {T \in SUBSET S : f[T] = 0}
<1>2. {} \in G
  BY <1>1 DEF Adds
<1>3. ASSUME NEW T \in SUBSET S, T # {}, \A x \in T : T \ {x} \in G PROVE T \in G
  <2>1. Pick(T) \in T
    BY <1>3 DEF Pick
  <2>2. f[T] = u[Pick(T)] + f[T \ {Pick(T)}]
    BY <1>1, <1>3 DEF Adds
  <2>3. f[T \ {Pick(T)}] = 0 /\ u[Pick(T)] = 0
    BY <1>0, <1>3, <2>1
  <2> QED
    BY <2>2, <2>3
<1>4. \A T \in SUBSET S : T \in G
  <2> HIDE DEF G
  <2> QED
    BY <1>2, <1>3, SubsetInduction
<1> QED
  BY <1>1, <1>4 DEF u

-----------------------------------------------------------------------------
(* The rounds of the cycle check and the layers of the execution.          *)

\* The recursion of the cycle check.
Rounds(f, p) ==
    f = [k \in 0 .. Cardinality(Steps) |->
           IF k = 0 THEN {} ELSE {s \in Steps : Upstream(p, s) \subseteq f[k - 1]}]

\* There is a function that satisfies it.
LEMMA RoundsExist == \A p : \E f : Rounds(f, p)
<1> SUFFICES ASSUME NEW p PROVE \E f : Rounds(f, p)
  OBVIOUS
<1> DEFINE N == Cardinality(Steps)
           UpTo(g, n) ==
              \A k \in 0 .. N : k <= n =>
                 g[k] = IF k = 0 THEN {} ELSE {s \in Steps : Upstream(p, s) \subseteq g[k - 1]}
           B == {n \in Nat : ~ \E g : DOMAIN g = 0 .. N /\ g = [k \in 0 .. N |-> g[k]] /\ UpTo(g, n)}
<1>1. N \in Nat
  BY StepsAssumption, FS_CardinalityType
<1> HIDE DEF N
<1>2. 0 \notin B
  <2> DEFINE g == [k \in 0 .. N |-> {}]
  <2>1. DOMAIN g = 0 .. N /\ g = [k \in 0 .. N |-> g[k]] /\ UpTo(g, 0)
    OBVIOUS
  <2> HIDE DEF g
  <2> QED
    BY <2>1
<1>3. ASSUME NEW n \in Nat, n \notin B PROVE n + 1 \notin B
  <2>1. PICK g : DOMAIN g = 0 .. N /\ g = [k \in 0 .. N |-> g[k]] /\ UpTo(g, n)
    BY <1>3
  <2> DEFINE h == [k \in 0 .. N |-> IF k = 0 THEN {}
                                    ELSE {s \in Steps : Upstream(p, s) \subseteq g[k - 1]}]
  <2>2. \A k \in 0 .. N : k <= n => h[k] = g[k]
    BY <2>1
  <2>3. ASSUME NEW k \in 0 .. N, k <= n + 1
        PROVE  h[k] = IF k = 0 THEN {} ELSE {s \in Steps : Upstream(p, s) \subseteq h[k - 1]}
    <3>1. CASE k = 0
      BY <3>1
    <3>2. CASE k # 0
      <4>1. k - 1 \in 0 .. N /\ k - 1 <= n
        BY <1>1, <2>3, <3>2
      <4>2. h[k - 1] = g[k - 1]
        BY <2>2, <4>1
      <4>3. h[k] = {s \in Steps : Upstream(p, s) \subseteq g[k - 1]}
        BY <3>2
      <4> HIDE DEF h
      <4> QED
        BY <3>2, <4>2, <4>3
    <3> QED
      BY <3>1, <3>2
  <2>4. DOMAIN h = 0 .. N /\ h = [k \in 0 .. N |-> h[k]]
    OBVIOUS
  <2> HIDE DEF h
  <2>5. UpTo(h, n + 1)
    BY <2>3
  <2> QED
    BY <2>4, <2>5
<1>4. B = {}
  <2> SUFFICES ASSUME B # {} PROVE FALSE
    OBVIOUS
  <2>1. B \subseteq Nat
    OBVIOUS
  <2> HIDE DEF B
  <2>2. PICK n \in B : \A m \in B : n <= m
    BY <2>1, LeastNumber
  <2>3. n \in Nat /\ n # 0
    BY <1>2, <2>1, <2>2
  <2>4. n - 1 \in Nat /\ ~(n <= n - 1) /\ (n - 1) + 1 = n
    BY <2>3
  <2>5. n - 1 \notin B
    BY <2>2, <2>4
  <2> QED
    BY <1>3, <2>2, <2>4, <2>5
<1>5. PICK g : DOMAIN g = 0 .. N /\ g = [k \in 0 .. N |-> g[k]] /\ UpTo(g, N)
  <2>1. N \notin B
    BY <1>4
  <2> HIDE DEF UpTo
  <2> QED
    BY <1>1, <2>1
<1>6. \A k \in 0 .. N : g[k] = IF k = 0 THEN {} ELSE {s \in Steps : Upstream(p, s) \subseteq g[k - 1]}
  <2>1. \A k \in 0 .. N : k <= N
    BY <1>1
  <2> QED
    BY <1>5, <2>1
<1>7. g = [k \in 0 .. N |-> IF k = 0 THEN {} ELSE {s \in Steps : Upstream(p, s) \subseteq g[k - 1]}]
  BY <1>5, <1>6
<1> QED
  BY <1>7 DEF Rounds, N

\* Of an accepted plan nothing is left over when no step is ready any more: what
\* the validator takes for acyclic is what the layers can reach.
LEMMA NothingLeftOver ==
    ASSUME ~_has_cycle(plan), NEW done, done \subseteq Steps, Ready(done) = {}
    PROVE  done = Steps
<1> DEFINE N == Cardinality(Steps)
           visited == CHOOSE f : f = [k \in 0 .. Cardinality(Steps) |->
                        IF k = 0 THEN {} ELSE {s \in Steps : Upstream(plan, s) \subseteq f[k - 1]}]
<1>1. visited = [k \in 0 .. Cardinality(Steps) |->
                   IF k = 0 THEN {} ELSE {s \in Steps : Upstream(plan, s) \subseteq visited[k - 1]}]
  <2>1. PICK g : Rounds(g, plan)
    BY RoundsExist
  <2>2. g = [k \in 0 .. Cardinality(Steps) |->
                   IF k = 0 THEN {} ELSE {s \in Steps : Upstream(plan, s) \subseteq g[k - 1]}]
    BY <2>1 DEF Rounds
  <2> QED
    BY <2>2
<1>2. visited[N] = Steps
  BY DEF _has_cycle
<1> HIDE DEF visited
<1>3. N \in Nat
  BY StepsAssumption, FS_CardinalityType
<1> DEFINE B == {k \in 0 .. N : ~(visited[k] \subseteq done)}
<1>4. B = {}
  <2> SUFFICES ASSUME B # {} PROVE FALSE
    OBVIOUS
  <2>1. B \subseteq Nat
    BY <1>3
  <2>2. PICK k \in B : \A m \in B : k <= m
    BY <2>1, LeastNumber
  <2>3. k \in 0 .. N /\ k # 0 /\ k - 1 \in 0 .. N /\ ~(k <= k - 1)
    BY <1>1, <1>3, <2>2
  <2>4. visited[k - 1] \subseteq done
    BY <2>2, <2>3
  <2>5. \A s \in visited[k] : s \in Steps /\ Upstream(plan, s) \subseteq done
    BY <1>1, <2>3, <2>4
  <2>6. visited[k] \subseteq done
    BY <2>5 DEF Ready, Upstream, all_dependency_ids
  <2> QED
    BY <2>2, <2>6
<1>5. N \in 0 .. N
  BY <1>3
<1> QED
  BY <1>2, <1>4, <1>5

-----------------------------------------------------------------------------
(* What a report says: every step has its result, and the results account  *)
(* for all that was spent.                                                 *)

\* A thread has a result when it is over; it tells what its attempts cost, and
\* is published with its layer.
Answers ==
    \A s \in Steps :
        /\ task[s].at # "finished" => result[s] = NoResult
        /\ task[s].at = "finished" => result[s].consumed = task[s].attempts * plan.corpora[s]
        /\ result[s].status # "budget_exhausted"
        /\ result[s].status = "skipped_dependency" => Blocked(s)
        /\ results[s] = IF s \in placed THEN result[s] ELSE NoResult

\* What the attempts of the steps have cost.
Costs == [s \in Steps |-> task[s].attempts * plan.corpora[s]]

Spent == used = SumFunction(Costs) /\ used <= plan.budget

\* Only an accepted plan is executed, and a report leaves no step out.
Vetted ==
    /\ phase \in {"layer", "done"} => ~_has_cycle(plan) /\ BudgetsFit(plan)
    /\ phase # "layer" => \A s \in Steps : task[s].at \notin {"queued", "reserve", "calling"}
    /\ phase = "done" => placed = Steps

ReportInv == Answers /\ Spent /\ Vetted

\* The cost of a step is a number.
LEMMA CostsType ==
    ASSUME ExecTypeOK
    PROVE  Costs \in [Steps -> Nat] /\ IsFiniteSet(Steps)
<1>1. \A s \in Steps : task[s].attempts \in Nat /\ plan.corpora[s] \in Nat
  BY DEF ExecTypeOK, QueryPlan
<1>2. \A s \in Steps : task[s].attempts * plan.corpora[s] \in Nat
  BY <1>1
<1> QED
  BY <1>2, StepsAssumption DEF Costs

\* The invariant of the report holds at the start, where nothing is spent.
LEMMA InitReport == ExecInit => ReportInv
<1> SUFFICES ASSUME ExecInit PROVE ReportInv
  OBVIOUS
<1>1. plan \in QueryPlan
  BY PlansAssumption DEF ExecInit
<1>2. Costs = [s \in Steps |-> 0]
  BY <1>1 DEF ExecInit, Costs, QueryPlan
<1>3. SumFunction(Costs) = 0
  BY <1>2, SumZero, StepsAssumption
<1>4. 0 <= plan.budget
  BY <1>1 DEF QueryPlan
<1> QED
  BY <1>3, <1>4 DEF ExecInit, ReportInv, Answers, Spent, Vetted, NoResult

\* The static check of the budget leaves room for every attempt that a step may
\* still make.
LEMMA RoomForAttempt ==
    ASSUME IInv, ReportInv, NEW s \in Steps, At(s, "reserve")
    PROVE  used + plan.corpora[s] <= plan.budget
<1> DEFINE v == [Costs EXCEPT ![s] = Costs[s] + plan.corpora[s]]
<1>1. /\ Costs \in [Steps -> Nat] /\ IsFiniteSet(Steps)
      /\ plan.corpora \in [Steps -> Nat] /\ plan.calls \in [Steps -> Nat] /\ plan.budget \in Nat
  BY CostsType DEF IInv, ExecTypeOK, QueryPlan
<1>2. BudgetsFit(plan)
  BY DEF ReportInv, Vetted, At, IInv, ExecTypeOK, Phases
<1>3. SumFunction(v) = used + plan.corpora[s]
  <2>1. v \in [Steps -> Nat] /\ v[s] = Costs[s] + plan.corpora[s]
        /\ \A x \in Steps \ {s} : v[x] = Costs[x]
    BY <1>1
  <2> HIDE DEF v
  <2>2. SumFunction(v) = SumFunction(Costs) + plan.corpora[s]
    BY <1>1, <2>1, SumUpdate
  <2> QED
    BY <2>2 DEF ReportInv, Spent
<1>4. \A q \in Steps : Costs[q] <= plan.calls[q]
  <2> SUFFICES ASSUME NEW q \in Steps PROVE task[q].attempts * plan.corpora[q] <= plan.calls[q]
    BY DEF Costs
  <2>1. task[q].attempts \in 0 .. 2 /\ task[q].attempts <= max_attempts(q)
    BY StepParts DEF IInv, Tasks
  <2> QED
    BY <2>1, MaxAttempts DEF IInv
<1>5. Costs[s] + plan.corpora[s] <= plan.calls[s]
  <2> DEFINE n == task[s].attempts
  <2>1. n \in 0 .. 2 /\ n < max_attempts(s) /\ max_attempts(s) \in 0 .. 2
    <3>1. n \in 0 .. 2
      BY StepParts
    <3>2. n < max_attempts(s)
      BY DEF At, IInv, Tasks
    <3>3. max_attempts(s) \in 0 .. 2
      BY MaxAttempts DEF IInv
    <3> QED
      BY <3>1, <3>2, <3>3
  <2>2. n + 1 \in 0 .. 2 /\ n + 1 <= max_attempts(s)
    BY <2>1
  <2>3. (n + 1) * plan.corpora[s] <= plan.calls[s]
    BY <2>2, MaxAttempts DEF IInv
  <2>4. Costs[s] = n * plan.corpora[s]
    BY DEF Costs
  <2> HIDE DEF n
  <2>5. (n + 1) * plan.corpora[s] = n * plan.corpora[s] + plan.corpora[s]
    BY <1>1, <2>1
  <2> QED
    BY <2>3, <2>4, <2>5
<1>6. v \in [Steps -> Nat] /\ \A q \in Steps : v[q] <= plan.calls[q]
  BY <1>1, <1>4, <1>5
<1> HIDE DEF v
<1>7. SumFunction(v) \in Nat /\ SumFunction(plan.calls) \in Nat
      /\ SumFunction(v) <= SumFunction(plan.calls)
  BY <1>1, <1>6, SumMonotone
<1>8. SumFunction(plan.calls) <= plan.budget
  BY <1>2 DEF BudgetsFit
<1> QED
  BY <1>1, <1>3, <1>7, <1>8

\* A step of one thread, for the invariant of the report.
LEMMA ThreadKeepsReport ==
    ASSUME IInv, ReportInv, NEW s \in Steps, task[s].at \in {"queued", "reserve", "calling"},
           UNCHANGED <<plan, phase, placed, results>>,
           NEW t \in [at : {"reserve", "calling", "finished", "failed_closed"}, attempts : Nat],
           NEW r, task' = [task EXCEPT ![s] = t], result' = [result EXCEPT ![s] = r],
           \/ t.attempts = task[s].attempts /\ used' = used
           \/ /\ t.attempts = task[s].attempts + 1
              /\ used' = used + plan.corpora[s] /\ used' <= plan.budget,
           t.at # "finished" => r = NoResult,
           t.at = "finished" => r.consumed = t.attempts * plan.corpora[s],
           r.status # "budget_exhausted",
           r.status = "skipped_dependency" => Blocked(s)
    PROVE  ReportInv'
<1>1. /\ task \in [Steps -> [at : Places, attempts : 0 .. 2]]
      /\ result \in [Steps -> StepResult \cup {NoResult}]
      /\ plan.corpora \in [Steps -> Nat] /\ used \in Nat /\ plan.budget \in Nat
  BY DEF IInv, ExecTypeOK, QueryPlan
<1>2. /\ task'[s] = t /\ result'[s] = r
      /\ \A q \in Steps \ {s} : task'[q] = task[q] /\ result'[q] = result[q]
  BY <1>1
<1>3. phase = "layer" /\ s \notin placed
  BY DEF ReportInv, Vetted, IInv, Placed
<1>4. \A q \in Steps : Blocked(q)' <=> Blocked(q)
  BY DEF Blocked
<1>5. Answers'
  <2> SUFFICES ASSUME NEW q \in Steps
      PROVE  /\ task'[q].at # "finished" => result'[q] = NoResult
             /\ task'[q].at = "finished" => result'[q].consumed = task'[q].attempts * plan.corpora[q]
             /\ result'[q].status # "budget_exhausted"
             /\ result'[q].status = "skipped_dependency" => Blocked(q)
             /\ results[q] = IF q \in placed THEN result'[q] ELSE NoResult
    BY <1>4 DEF Answers
  <2>1. CASE q = s
    BY <1>2, <1>3, <2>1 DEF ReportInv, Answers
  <2>2. CASE q # s
    BY <1>2, <2>2 DEF ReportInv, Answers
  <2> QED
    BY <2>1, <2>2
<1>6. Spent'
  <2>1. CASE t.attempts = task[s].attempts /\ used' = used
    <3>1. Costs' = Costs
      BY <1>2, <2>1 DEF Costs
    <3> QED
      BY <2>1, <3>1 DEF ReportInv, Spent
  <2>2. CASE /\ t.attempts = task[s].attempts + 1
             /\ used' = used + plan.corpora[s] /\ used' <= plan.budget
    <3>1. Costs \in [Steps -> Nat] /\ IsFiniteSet(Steps) /\ plan.corpora[s] \in Nat
      BY <1>1, CostsType DEF IInv
    <3>2. task[s].attempts \in Nat /\ Costs[s] = task[s].attempts * plan.corpora[s]
      BY <1>1 DEF Costs
    <3>3. t.attempts * plan.corpora[s] = Costs[s] + plan.corpora[s]
      BY <2>2, <3>1, <3>2
    <3>4. Costs' = [q \in Steps |-> task'[q].attempts * plan.corpora[q]]
      BY DEF Costs
    <3>5. \A q \in Steps : Costs'[q] = IF q = s THEN Costs[s] + plan.corpora[s] ELSE Costs[q]
      BY <1>2, <3>3, <3>4 DEF Costs
    <3>6. Costs' \in [Steps -> Nat]
      BY <3>1, <3>4, <3>5
    <3>7. SumFunction(Costs') = SumFunction(Costs) + plan.corpora[s]
      BY <3>1, <3>5, <3>6, SumUpdate
    <3> QED
      BY <2>2, <3>7 DEF ReportInv, Spent
  <2> QED
    BY <2>1, <2>2
<1>7. Vetted'
  BY <1>3 DEF ReportInv, Vetted, _has_cycle, BudgetsFit, Upstream
<1> QED
  BY <1>5, <1>6, <1>7 DEF ReportInv

\* Validation starts the first layer of an accepted plan only.
LEMMA ValidateKeepsReport == IInv /\ ReportInv /\ validate => ReportInv'
<1> SUFFICES ASSUME IInv, ReportInv, validate PROVE ReportInv'
  OBVIOUS
<1>0. /\ UNCHANGED <<plan, placed, result, results, used, late>> /\ phase' \in {"layer", "raised"}
      /\ \A s \in Steps : task[s].at = "waiting" /\ task[s].attempts = 0
  BY DEF validate, IInv, Phased, Tasks
<1>1. CASE Accepted(plan)
  <2>1. Submit(Ready({})) /\ phase' = "layer"
    BY <1>1 DEF validate
  <2>2. \A s \in Steps : task'[s].at \in {"waiting", "queued"} /\ task'[s].attempts = 0
    BY <1>0, <2>1 DEF Submit
  <2>3. Answers'
    BY <1>0, <2>2 DEF ReportInv, Answers, Blocked
  <2>4. Costs' = Costs
    BY <1>0, <2>2 DEF Costs
  <2>5. Spent'
    BY <1>0, <2>4 DEF ReportInv, Spent
  <2>6. Vetted'
    BY <1>0, <1>1, <2>1 DEF Vetted, Accepted, _has_cycle, BudgetsFit, Upstream
  <2> QED
    BY <2>3, <2>5, <2>6 DEF ReportInv
<1>2. CASE ~Accepted(plan)
  <2>1. phase' = "raised" /\ UNCHANGED task
    BY <1>2 DEF validate
  <2> QED
    BY <1>0, <2>1 DEF ReportInv, Answers, Blocked, Spent, Costs, Vetted
<1> QED
  BY <1>1, <1>2

\* A thread returns with an honest status.
LEMMA ReturnKeepsReport ==
    ASSUME IInv, ReportInv, NEW s \in Steps, task[s].at \in {"queued", "reserve", "calling"},
           UNCHANGED <<plan, phase, placed, results, used>>,
           NEW status, NEW evidence, Return(s, status, evidence),
           status # "budget_exhausted", status = "skipped_dependency" => Blocked(s)
    PROVE  ReportInv'
<1> DEFINE t == [at |-> "finished", attempts |-> task[s].attempts]
           r == [status |-> status, evidence |-> evidence,
                 consumed |-> task[s].attempts * plan.corpora[s]]
<1>1. t \in [at : {"reserve", "calling", "finished", "failed_closed"}, attempts : Nat]
  <2>1. task[s].attempts \in 0 .. 2
    BY StepParts
  <2> QED
    BY <2>1
<1>2. task' = [task EXCEPT ![s] = t] /\ result' = [result EXCEPT ![s] = r]
  BY GotoSets DEF Return
<1>3. /\ t.at = "finished" /\ t.attempts = task[s].attempts
      /\ r.consumed = t.attempts * plan.corpora[s] /\ r.status = status
  OBVIOUS
<1> HIDE DEF t, r
<1> QED
  BY <1>1, <1>2, <1>3, ThreadKeepsReport

\* A thread goes on or fails closed.
LEMMA GotoKeepsReport ==
    ASSUME IInv, ReportInv, NEW s \in Steps, task[s].at \in {"queued", "reserve", "calling"},
           UNCHANGED <<plan, phase, placed, results, result, used>>,
           NEW place \in {"reserve", "failed_closed"}, Goto(s, place)
    PROVE  ReportInv'
<1> DEFINE t == [at |-> place, attempts |-> task[s].attempts]
<1>1. t \in [at : {"reserve", "calling", "finished", "failed_closed"}, attempts : Nat]
  <2>1. task[s].attempts \in 0 .. 2
    BY StepParts
  <2> QED
    BY <2>1
<1>2. task' = [task EXCEPT ![s] = t] /\ result' = [result EXCEPT ![s] = result[s]]
  <2>1. result = [result EXCEPT ![s] = result[s]]
    BY StepParts
  <2> QED
    BY <2>1, GotoSets
<1>3. /\ t.at # "finished" /\ t.attempts = task[s].attempts
      /\ result[s] = NoResult
  BY DEF ReportInv, Answers
<1>4. result[s].status = "none"
  BY <1>3 DEF NoResult
<1> HIDE DEF t
<1> QED
  BY <1>1, <1>2, <1>3, <1>4, ThreadKeepsReport

\* A reservation is granted, and pays for one attempt.
LEMMA TryReserveKeepsReport ==
    ASSUME IInv, ReportInv, NEW s \in Steps, try_reserve(s)
    PROVE  ReportInv'
<1> DEFINE t == [at |-> "calling", attempts |-> task[s].attempts + 1]
<1>1. used + plan.corpora[s] <= plan.budget /\ At(s, "reserve")
  BY RoomForAttempt DEF try_reserve
<1>2. /\ used' = used + plan.corpora[s]
      /\ task' = [task EXCEPT ![s] = [at |-> "calling", attempts |-> @.attempts + 1]]
      /\ UNCHANGED <<plan, phase, placed, result, results>>
  BY <1>1 DEF try_reserve
<1>3. task' = [task EXCEPT ![s] = t] /\ result' = [result EXCEPT ![s] = result[s]]
  <2>1. task' = [task EXCEPT ![s] = t]
    BY <1>2 DEF IInv, ExecTypeOK
  <2>2. result = [result EXCEPT ![s] = result[s]]
    BY StepParts
  <2> QED
    BY <1>2, <2>1, <2>2
<1>4. /\ t \in [at : {"reserve", "calling", "finished", "failed_closed"}, attempts : Nat]
      /\ t.at # "finished" /\ t.attempts = task[s].attempts + 1
  <2>1. task[s].attempts \in 0 .. 2
    BY StepParts
  <2> QED
    BY <2>1
<1>5. result[s] = NoResult /\ result[s].status = "none"
  BY <1>1 DEF At, ReportInv, Answers, NoResult
<1> HIDE DEF t
<1> QED
  BY <1>1, <1>2, <1>3, <1>4, <1>5, ThreadKeepsReport DEF At

\* The threads, one action at a time.
LEMMA ThreadsKeepReport ==
    ASSUME IInv, ReportInv, NEW s \in Steps, Advance(s) \/ Answer(s) \/ Timeout(s) \/ LateAnswer(s)
    PROVE  ReportInv'
<1>1. CASE _execute_single_step(s)
  <2>1. task[s].at = "queued" /\ UNCHANGED <<plan, phase, placed, results, used, late>>
    BY <1>1 DEF _execute_single_step, At
  <2>2. \/ Return(s, "failed", FALSE)
        \/ Goto(s, "failed_closed") /\ UNCHANGED result
        \/ Blocked(s) /\ Return(s, "skipped_dependency", FALSE)
        \/ Goto(s, "reserve") /\ UNCHANGED result
    BY <1>1 DEF _execute_single_step
  <2> QED
    BY <2>1, <2>2, ReturnKeepsReport, GotoKeepsReport
<1>2. CASE Answer(s)
  <2>1. task[s].at = "calling" /\ UNCHANGED <<plan, phase, placed, results, used, late>>
    BY <1>2 DEF Answer, At
  <2>2. \/ \E evidence \in BOOLEAN : Return(s, "succeeded", evidence)
        \/ Return(s, "failed", FALSE)
        \/ Goto(s, "reserve") /\ UNCHANGED result
        \/ Goto(s, "failed_closed") /\ UNCHANGED result
    BY <1>2 DEF Answer
  <2> QED
    BY <2>1, <2>2, ReturnKeepsReport, GotoKeepsReport
<1>3. CASE Timeout(s)
  <2>1. task[s].at = "calling" /\ UNCHANGED <<plan, phase, placed, results, used>>
    BY <1>3 DEF Timeout, At
  <2>2. \/ Goto(s, "reserve") /\ UNCHANGED result
        \/ Return(s, "failed", FALSE)
        \/ Return(s, "timed_out", FALSE)
    BY <1>3 DEF Timeout
  <2> QED
    BY <2>1, <2>2, ReturnKeepsReport, GotoKeepsReport
<1>4. CASE LateAnswer(s)
  BY <1>4 DEF LateAnswer, ReportInv, Answers, Blocked, Spent, Costs, Vetted, _has_cycle,
              BudgetsFit, Upstream
<1> QED
  BY <1>1, <1>2, <1>3, <1>4, TryReserveKeepsReport DEF Advance

\* The end of a layer: its results become visible, and the report is built when
\* no step is left.
LEMMA ExecuteLayerKeepsReport == IInv /\ ReportInv /\ _execute_layer => ReportInv'
<1> SUFFICES ASSUME IInv, ReportInv, _execute_layer PROVE ReportInv'
  OBVIOUS
<1>0. phase = "layer" /\ ~_has_cycle(plan) /\ BudgetsFit(plan)
  BY DEF _execute_layer, ReportInv, Vetted
<1>1. CASE FailsClosed
  <2>1. phase' = "raised" /\ UNCHANGED <<plan, placed, task, result, results, used, late>>
    BY <1>1 DEF _execute_layer
  <2>2. \A s \in Steps : task[s].at \notin {"queued", "reserve", "calling"}
    BY DEF _execute_layer, Layer, Over, IInv, Placed
  <2> QED
    BY <2>1, <2>2 DEF ReportInv, Answers, Blocked, Spent, Costs, Vetted
<1>2. CASE ~FailsClosed
  <2> DEFINE done == placed \cup Layer
             S == Ready(done)
  <2>1. /\ results' = [s \in Steps |-> IF s \in Layer THEN result[s] ELSE results[s]]
        /\ placed' = done
        /\ Submit(S)
        /\ phase' \in {"layer", "done", "raised"}
        /\ phase' # "layer" => S = {}
        /\ UNCHANGED <<plan, result, used, late>>
    BY <1>2 DEF _execute_layer
  <2>2. /\ done \subseteq Steps /\ placed \subseteq done
        /\ \A s \in done : task[s].at = "finished"
        /\ \A s \in Steps \ done : task[s].at = "waiting"
    BY <1>2 DEF _execute_layer, FailsClosed, Layer, Over, At, IInv, ExecTypeOK, Placed
  <2>3. \A s \in S : s \in Steps \ done
    BY DEF Ready
  <2>4. S = {} => done = Steps
    BY <1>0, <2>2, NothingLeftOver
  <2>5. \A s \in Steps : s \in Layer => s \in done /\ s \notin placed
    BY DEF Layer
  <2>6. \A s \in done : s \in placed \/ s \in Layer
    OBVIOUS
  <2> HIDE DEF S, done
  <2>7. \A s \in Steps : /\ s \in S => task'[s] = [at |-> "queued", attempts |-> 0]
                         /\ s \notin S => task'[s] = task[s]
    BY <2>1 DEF Submit
  <2>8. \A s \in S : task[s].at = "waiting" /\ task[s].attempts = 0
    BY <2>2, <2>3 DEF IInv, Tasks
  <2>9. \A s \in Steps : task'[s].at = "finished" <=> task[s].at = "finished"
    BY <2>7, <2>8
  <2>10. \A s \in Steps : task'[s].attempts = task[s].attempts
    BY <2>7, <2>8
  <2>11. Answers'
    <3> SUFFICES ASSUME NEW s \in Steps
        PROVE  /\ task'[s].at # "finished" => result[s] = NoResult
               /\ task'[s].at = "finished" => result[s].consumed = task'[s].attempts * plan.corpora[s]
               /\ result[s].status # "budget_exhausted"
               /\ result[s].status = "skipped_dependency" => Blocked(s)'
               /\ results'[s] = IF s \in done THEN result[s] ELSE NoResult
      BY <2>1 DEF Answers
    <3>1. /\ task[s].at # "finished" => result[s] = NoResult
          /\ task[s].at = "finished" => result[s].consumed = task[s].attempts * plan.corpora[s]
          /\ result[s].status # "budget_exhausted"
          /\ result[s].status = "skipped_dependency" => Blocked(s)
          /\ results[s] = IF s \in placed THEN result[s] ELSE NoResult
      BY DEF ReportInv, Answers
    <3>2. results'[s] = IF s \in done THEN result[s] ELSE NoResult
      BY <2>1, <2>2, <2>5, <2>6, <3>1
    <3>3. ASSUME result[s].status = "skipped_dependency" PROVE Blocked(s)'
      <4>1. PICK d \in plan.hard[s] : results[d].status # "succeeded"
        BY <3>1, <3>3 DEF Blocked
      <4>2. task[s].at # "waiting"
        BY <3>1, <3>3 DEF NoResult
      <4>3. d \in placed
        BY <4>2 DEF IInv, Tasks, all_dependency_ids
      <4>4. d \in Steps /\ d \notin Layer
        BY <2>2, <2>5, <4>3
      <4>5. results'[d] = results[d]
        BY <2>1, <4>4
      <4> QED
        BY <2>1, <4>1, <4>5 DEF Blocked
    <3> QED
      BY <2>9, <2>10, <3>1, <3>2, <3>3
  <2>12. Costs' = Costs
    BY <2>1, <2>10 DEF Costs
  <2>13. Spent'
    BY <2>1, <2>12 DEF ReportInv, Spent
  <2>14. Vetted'
    <3>1. (~_has_cycle(plan))' /\ BudgetsFit(plan)'
      BY <1>0, <2>1 DEF _has_cycle, BudgetsFit, Upstream
    <3>2. phase' # "layer" => \A s \in Steps : task'[s].at \notin {"queued", "reserve", "calling"}
      BY <2>1, <2>2, <2>4, <2>7
    <3>3. phase' = "done" => placed' = Steps
      BY <2>1, <2>4
    <3> QED
      BY <3>1, <3>2, <3>3 DEF Vetted
  <2> QED
    BY <2>11, <2>13, <2>14 DEF ReportInv
<1> QED
  BY <1>1, <1>2

\* The invariant of the report is inductive.
LEMMA NextReport == IInv /\ ReportInv /\ [ExecNext]_execVars => ReportInv'
<1> SUFFICES ASSUME IInv, ReportInv, [ExecNext]_execVars PROVE ReportInv'
  OBVIOUS
<1>1. CASE UNCHANGED execVars
  BY <1>1 DEF execVars, ReportInv, Answers, Blocked, Spent, Costs, Vetted, _has_cycle,
              BudgetsFit, Upstream
<1> QED
  BY <1>1, ValidateKeepsReport, ThreadsKeepReport, ExecuteLayerKeepsReport DEF ExecNext

\* It holds in every reachable state.
LEMMA ReportInvariant == ExecSpec => [](IInv /\ ReportInv)
BY InitIInv, NextIInv, InitReport, NextReport, PTL DEF ExecSpec

\* In a report every step has its result: what the validator takes for acyclic is
\* what the layers of the executor reach, for every graph of dependencies.  A step
\* was skipped only for a required dependency that did not succeed.
THEOREM EveryStepAnsweredHolds == ExecSpec => []EveryStepAnswered
<1>1. IInv /\ ReportInv => EveryStepAnswered
  <2> SUFFICES ASSUME IInv, ReportInv, phase = "done", NEW s \in Steps
      PROVE  /\ results[s].status # "none"
             /\ results[s].status = "skipped_dependency" =>
                   \E d \in plan.hard[s] : results[d].status # "succeeded"
    BY DEF EveryStepAnswered
  <2>1. s \in placed /\ results[s] = result[s]
    BY DEF ReportInv, Vetted, Answers
  <2>2. result[s].status = "skipped_dependency" => Blocked(s)
    BY DEF ReportInv, Answers
  <2> QED
    BY <2>1, <2>2 DEF IInv, Placed, Blocked
<1> QED
  BY <1>1, ReportInvariant, PTL

\* The static check of the budget is enough: no reservation is refused, whatever
\* the order of the threads and however often they retry.
THEOREM NeverExhaustedHolds == ExecSpec => []NeverExhausted
<1>1. ReportInv => NeverExhausted
  BY DEF ReportInv, Answers, NeverExhausted
<1> QED
  BY <1>1, ReportInvariant, PTL

\* What the budget has lost is what the attempts of all steps cost, never more than
\* the plan allows, and a report accounts for all of it, abandoned calls included.
THEOREM BudgetAccountedHolds == ExecSpec => []BudgetAccounted
<1>1. IInv /\ ReportInv => BudgetAccounted
  <2> SUFFICES ASSUME IInv, ReportInv PROVE BudgetAccounted
    OBVIOUS
  <2>1. used = SumFunction([s \in Steps |-> task[s].attempts * plan.corpora[s]])
        /\ used <= plan.budget
    BY DEF ReportInv, Spent, Costs
  <2>2. ASSUME phase = "done"
        PROVE  [s \in Steps |-> results[s].consumed] = [s \in Steps |-> task[s].attempts * plan.corpora[s]]
    <3>1. \A s \in Steps : task[s].at = "finished" /\ results[s] = result[s]
      BY <2>2 DEF ReportInv, Vetted, Answers, IInv, Placed
    <3>2. \A s \in Steps : results[s].consumed = task[s].attempts * plan.corpora[s]
      BY <3>1 DEF ReportInv, Answers
    <3> QED
      BY <3>2
  <2>3. phase = "done" => used = SumFunction([s \in Steps |-> results[s].consumed])
    <3>1. ASSUME phase = "done" PROVE used = SumFunction([s \in Steps |-> results[s].consumed])
      BY <2>1, <2>2, <3>1
    <3> QED
      BY <3>1
  <2> QED
    BY <2>1, <2>3 DEF BudgetAccounted
<1> QED
  BY <1>1, ReportInvariant, PTL
=============================================================================
