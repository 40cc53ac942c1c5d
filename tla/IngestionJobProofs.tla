-------------------------- MODULE IngestionJobProofs --------------------------
(***************************************************************************)
(* Proofs about the ingestion job, for any sets of versions, job ids,      *)
(* workers, processes and deliveries and any bounds on faults and crashes: *)
(* the executions drive the control plane only through its methods, so     *)
(* that what is proved of the store holds under them; the fencing token of *)
(* the build lease identifies one execution; and, with the hypotheses that *)
(* each theorem names, a commit replaces the version its lease was taken   *)
(* over, one execution builds a version until its commit, what is          *)
(* committed is complete, and what has succeeded is visible.               *)
(***************************************************************************)
EXTENDS IngestionJob, MetadataStoreProofs

\* The places inside a step, from its first call to its marker.
InStep == {"write_parents", "write_qdrant", "write_chunks", "verify", "commit", "switch",
           "publish", "promote", "promote_parents", "retire_parents", "retire", "finalize",
           "mark"}

\* An execution in its type: it has a request and an attempt while it runs,
\* no fencing token while it does not, and a step while it is in one.
Sound(e) ==
    /\ e \in Execution
    /\ e.pc = "idle" => e = Idle
    /\ e.pc # "idle" => e.request \in Requests /\ e.attempt \in Attempts
    /\ e.pc \in InStep => e.step \in 1 .. 6

WorkersOK ==
    /\ worker \in [Workers -> Execution]
    /\ \A w \in Workers : Sound(worker[w])

PlanesOK ==
    /\ steps \in [Jobs -> SUBSET Markers]
    /\ points \in [Versions -> PointStatus]
    /\ chunks \in [Versions -> BOOLEAN]
    /\ parents \in [Procs -> [Versions -> ParentStatus]]
    /\ faults \in Nat /\ crashes \in Nat

\* The tokens: none is ahead of its lease, no two executions of a version hold
\* the same one, and a lease that was never granted has no owner.
Tokens ==
    /\ \A w \in Live : worker[w].generation <= builds[Version(w)].generation
    /\ \A u, w \in Live :
          /\ Version(u) = Version(w)
          /\ worker[u].generation = worker[w].generation
          /\ worker[u].generation # 0
          => u = w
    /\ \A v \in Versions : builds[v].generation = 0 => builds[v].owner = None

JobInv == IInv /\ WorkersOK /\ PlanesOK /\ Tokens

-----------------------------------------------------------------------------
\* The parts of a delivery that is being executed.
LEMMA RequestParts ==
    ASSUME WorkersOK, NEW w \in Workers, worker[w].pc # "idle"
    PROVE  /\ Job(w) \in Jobs /\ Version(w) \in Versions
           /\ worker[w].request.hash \in Hashes /\ worker[w].request.acl \in Acls
           /\ worker[w].attempt \in Attempts /\ worker[w].base \in Nat
           /\ worker[w].recover \in BOOLEAN
<1>1. worker[w].request \in [job : Jobs, version : Versions, hash : Hashes, acl : Acls]
  BY RequestsAssumption DEF WorkersOK, Sound
<1>2. worker[w] \in Execution /\ worker[w].attempt \in Attempts
  BY DEF WorkersOK, Sound
<1> QED
  BY <1>1, <1>2 DEF Job, Version, Execution

\* An execution that moves on within run() stays one.
LEMMA GotoKeeps ==
    ASSUME WorkersOK, NEW w \in Workers, worker[w].pc # "idle",
           NEW place \in Places \ {"idle"}, Goto(w, place),
           place \in InStep => worker[w].pc \in InStep
    PROVE  WorkersOK'
<1>1. [worker[w] EXCEPT !.pc = place] \in Execution
  BY DEF WorkersOK, Execution
<1>2. Sound([worker[w] EXCEPT !.pc = place])
  BY <1>1 DEF Sound, WorkersOK, Execution
<1> QED
  BY <1>1, <1>2 DEF WorkersOK, Goto

\* An execution that ends leaves its worker idle.
LEMMA ExitKeeps ==
    ASSUME WorkersOK, NEW w \in Workers, Exit(w)
    PROVE  WorkersOK'
<1>1. Idle \in Execution /\ Idle.pc = "idle"
  BY DEF Idle, Execution, Places
<1>2. Sound(Idle)
  BY <1>1 DEF Sound, Idle, InStep
<1> QED
  BY <1>1, <1>2 DEF WorkersOK, Exit

\* The executions keep their tokens, or lose them.
TokensKept ==
    \A w \in Workers :
        worker'[w].pc # "idle" =>
            \/ worker'[w].generation = 0
            \/ /\ worker[w].pc # "idle"
               /\ worker'[w].generation = worker[w].generation
               /\ worker'[w].request = worker[w].request

\* The leases stay with their owners under the same generation.
LeasesKept ==
    \A v \in Versions : /\ builds'[v].generation = builds[v].generation
                        /\ builds'[v].owner = builds[v].owner

\* Execution w acquires the lease of its version and its next generation.
Granted(w) ==
    LET v == Version(w) IN
    /\ worker[w].pc # "idle"
    /\ builds'[v].generation = builds[v].generation + 1
    /\ builds'[v].owner = Job(w)
    /\ \A u \in Versions \ {v} : /\ builds'[u].generation = builds[u].generation
                                 /\ builds'[u].owner = builds[u].owner
    /\ worker' = [worker EXCEPT ![w].pc = "next", ![w].generation = builds'[v].generation]

\* Going on or ending within run() changes no token.
LEMMA GotoTokens ==
    ASSUME WorkersOK, NEW w \in Workers, worker[w].pc # "idle",
           NEW place, Goto(w, place)
    PROVE  TokensKept
BY DEF WorkersOK, Execution, Goto, TokensKept

\* An execution that ends hands no token to anybody.
LEMMA ExitTokens ==
    ASSUME WorkersOK, NEW w \in Workers, Exit(w)
    PROVE  TokensKept
BY DEF WorkersOK, Execution, Exit, TokensKept, Idle

\* A place of run() that is not the end.
LEMMA PlaceFacts ==
    /\ InTry \cup InHandler \cup {"owner", "short", "precheck"} = Places \ {"idle"}
    /\ "idle" \notin InTry \cup InHandler
BY DEF Places, InTry, InHandler

\* What every step of an execution does, whichever statement it is.
Moves == WorkersOK' /\ TokensKept

\* A step from one place of run() to another keeps what is known of the executions.
LEMMA GotoMoves ==
    ASSUME WorkersOK, NEW w \in Workers, worker[w].pc # "idle",
           NEW place \in InTry \cup InHandler \cup {"owner", "short", "precheck"}, Goto(w, place),
           place \in InStep => worker[w].pc \in InStep
    PROVE  Moves
BY GotoKeeps, GotoTokens, PlaceFacts DEF Moves

\* So does the end of an execution.
LEMMA ExitMoves ==
    ASSUME WorkersOK, NEW w \in Workers, Exit(w)
    PROVE  Moves
BY ExitKeeps, ExitTokens DEF Moves

\* The same for a step that sets more than the place, token excepted.
LEMMA UpdateMoves ==
    ASSUME WorkersOK, NEW w \in Workers, worker[w].pc # "idle", NEW e \in Execution,
           worker' = [worker EXCEPT ![w] = e], e.pc # "idle",
           e.request = worker[w].request, e.attempt = worker[w].attempt,
           e.generation = worker[w].generation, e.pc \in InStep => e.step \in 1 .. 6
    PROVE  Moves
<1>1. Sound(e)
  BY DEF Sound, WorkersOK
<1>2. WorkersOK'
  BY <1>1 DEF WorkersOK
<1>3. TokensKept
  BY DEF TokensKept, WorkersOK
<1> QED
  BY <1>2, <1>3 DEF Moves

\* The first of the steps that are still to do exists.
LEMMA LeastStep ==
    ASSUME NEW S \in SUBSET (1 .. 6), S # {}
    PROVE  \E x \in S : \A y \in S : x <= y
<1>1. 1 .. 6 = {1, 2, 3, 4, 5, 6}
  OBVIOUS
<1>2. CASE 1 \in S
  BY <1>2
<1>3. CASE 1 \notin S /\ 2 \in S
  BY <1>1, <1>3
<1>4. CASE 1 \notin S /\ 2 \notin S /\ 3 \in S
  BY <1>1, <1>4
<1>5. CASE 1 \notin S /\ 2 \notin S /\ 3 \notin S /\ 4 \in S
  BY <1>1, <1>5
<1>6. CASE 1 \notin S /\ 2 \notin S /\ 3 \notin S /\ 4 \notin S /\ 5 \in S
  BY <1>1, <1>6
<1>7. CASE S = {6}
  BY <1>7
<1> QED
  BY <1>1, <1>2, <1>3, <1>4, <1>5, <1>6, <1>7

\* A step starts at the place that has its name.
LEMMA StepPlace ==
    ASSUME NEW k \in 1 .. 6
    PROVE  STEPS[k] \in Places /\ STEPS[k] # "idle"
<1>1. k = 1 \/ k = 2 \/ k = 3 \/ k = 4 \/ k = 5 \/ k = 6
  OBVIOUS
<1>2. \A i \in {1, 2, 3, 4, 5, 6} : STEPS[i] \in InTry
  BY DEF STEPS, InTry
<1> QED
  BY <1>1, <1>2 DEF Places, InTry

\* The loop sets the place and the step.
LEMMA StepMoves ==
    ASSUME WorkersOK, NEW w \in Workers, worker[w].pc # "idle",
           NEW place \in Places, place # "idle", NEW s \in 1 .. 7,
           worker' = [worker EXCEPT ![w].pc = place, ![w].step = s],
           place \in InStep => s \in 1 .. 6
    PROVE  Moves
<1> DEFINE e == [worker[w] EXCEPT !.pc = place, !.step = s]
<1>1. worker[w] \in Execution
  BY DEF WorkersOK
<1>2. /\ e \in Execution /\ e.pc = place /\ e.step = s
      /\ e.request = worker[w].request /\ e.attempt = worker[w].attempt
      /\ e.generation = worker[w].generation
  BY <1>1 DEF Execution
<1>3. worker' = [worker EXCEPT ![w] = e]
  BY <1>1 DEF WorkersOK, Execution
<1> HIDE DEF e
<1> QED
  BY <1>2, <1>3, UpdateMoves

\* The steps that leave the tables alone, up to the acquire of the lease.
LEMMA CheckSteps ==
    ASSUME JobInv, NEW w \in Workers,
           Precheck(w) \/ OwnerCheck(w) \/ ReadBase(w) \/ NextStep(w) \/ mark_step(w)
    PROVE  Moves /\ UNCHANGED storeVars
<1> USE DEF JobInv
<1>1. CASE Precheck(w)
  <2>1. Exit(w) \/ Goto(w, "owner") \/ Goto(w, "short") \/ Goto(w, "base")
    BY <1>1 DEF Precheck
  <2> QED
    BY <1>1, <2>1, GotoMoves, ExitMoves DEF Precheck, At, InTry, InStep
<1>2. CASE OwnerCheck(w)
  <2>1. Goto(w, "short") \/ Goto(w, "base")
    BY <1>2 DEF OwnerCheck
  <2> QED
    BY <1>2, <2>1, GotoMoves DEF OwnerCheck, At, InTry, InStep
<1>3. CASE ReadBase(w)
  <2> DEFINE e == [worker[w] EXCEPT !.pc = "acquire", !.base = get_current_revision]
  <2>1. get_current_revision \in Nat
    BY CurrentRevision DEF IInv, RowsInv
  <2>2. e \in Execution /\ e.pc # "idle" /\ e.request = worker[w].request
          /\ e.attempt = worker[w].attempt /\ e.generation = worker[w].generation
          /\ e.pc \notin InStep
    <3>1. "acquire" \in Places /\ "acquire" \notin InStep /\ "acquire" # "idle"
      BY DEF Places, InTry, InStep
    <3>2. worker[w] \in Execution
      BY DEF WorkersOK
    <3> QED BY <2>1, <3>1, <3>2 DEF Execution
  <2>3. worker' = [worker EXCEPT ![w] = e] /\ worker[w].pc # "idle"
    BY <1>3 DEF ReadBase, At, WorkersOK, Execution
  <2> HIDE DEF e
  <2> QED
    BY <1>3, <2>2, <2>3, UpdateMoves DEF ReadBase
<1>4. CASE NextStep(w)
  <2> DEFINE todo == {k \in worker[w].step .. 6 : STEPS[k] \notin steps[Job(w)]}
             k == CHOOSE x \in todo : \A y \in todo : x <= y
  <2>1. CASE todo = {}
    BY <1>4, <2>1, ExitMoves DEF NextStep
  <2>2. CASE todo # {}
    <3>1. worker[w] \in Execution /\ worker[w].pc # "idle"
      BY <1>4 DEF NextStep, At, WorkersOK
    <3>2. todo \in SUBSET (1 .. 6)
      BY <3>1 DEF Execution
    <3>3. k \in 1 .. 6
      BY <2>2, <3>2, LeastStep
    <3>4. worker' = [worker EXCEPT ![w].pc = STEPS[k], ![w].step = k]
      BY <1>4, <2>2 DEF NextStep
    <3> HIDE DEF k
    <3>5. k \in 1 .. 7
      BY <3>3
    <3> QED
      BY <1>4, <3>1, <3>3, <3>4, <3>5, StepPlace, StepMoves DEF NextStep
  <2> QED
    BY <2>1, <2>2
<1>5. CASE mark_step(w)
  <2>1. worker[w].pc = "mark"
    BY <1>5 DEF mark_step, At, WorkersOK
  <2>2. worker[w].step \in 1 .. 6
    BY <2>1 DEF WorkersOK, Sound, InStep
  <2>3. worker[w].step + 1 \in 1 .. 7
    BY <2>2
  <2>4. "next" \in Places /\ "next" \notin InStep
    BY DEF Places, InTry, InStep
  <2> QED
    BY <1>5, <2>1, <2>3, <2>4, StepMoves DEF mark_step
<1> QED
  BY <1>1, <1>2, <1>3, <1>4, <1>5

\* The steps over the data planes leave the tables alone as well.
LEMMA PlaneSteps ==
    ASSUME JobInv, NEW w \in Workers,
           _step_write_parents(w) \/ _step_write_qdrant(w) \/ _step_verify(w) \/ _step_publish(w)
    PROVE  Moves /\ UNCHANGED storeVars
<1> USE DEF JobInv, At, InTry, InHandler, InStep
<1>1. CASE _step_write_parents(w)
  BY <1>1, GotoMoves DEF _step_write_parents
<1>2. CASE _step_write_qdrant(w)
  BY <1>2, GotoMoves DEF _step_write_qdrant
<1>3. CASE _step_verify(w)
  <2>1. Goto(w, "mark") \/ Goto(w, "handler")
    BY <1>3 DEF _step_verify
  <2> QED
    BY <1>3, <2>1, GotoMoves DEF _step_verify
<1>4. CASE _step_publish(w)
  <2>1. worker[w].pc \in {"publish", "promote", "promote_parents", "retire_parents", "retire"}
    BY <1>4 DEF _step_publish
  <2>2. /\ \/ Goto(w, "promote") \/ Exit(w) \/ Goto(w, "promote_parents") \/ Goto(w, "mark")
           \/ Goto(w, "retire_parents") \/ Goto(w, "retire")
        /\ UNCHANGED storeVars
    BY <1>4 DEF _step_publish, _assert_owns_build
  <2> QED
    BY <2>1, <2>2, GotoMoves, ExitMoves
<1> QED
  BY <1>1, <1>2, <1>3, <1>4

\* The ends of jobs: each is one call of mark_job_terminal.
LEMMA TerminalSteps ==
    ASSUME JobInv, NEW w \in Workers,
           _short_circuit_already_indexed(w) \/ _step_finalize(w) \/ Fail(w)
    PROVE  Moves /\ [Next]_storeVars /\ LeasesKept
<1> USE DEF JobInv, At, InTry, InHandler, InStep
<1>1. worker[w].pc \in {"short", "finalize", "fail"}
  BY DEF _short_circuit_already_indexed, _step_finalize, Fail
<1>2. Job(w) \in Jobs
  BY <1>1, RequestParts
<1>3. \/ mark_job_terminal(Job(w), "succeeded") \/ mark_job_terminal(Job(w), "failed")
      \/ UNCHANGED storeVars
  BY DEF _short_circuit_already_indexed, _step_finalize, Fail
<1>4. [Next]_storeVars
  BY <1>2, <1>3 DEF Next
<1>5. LeasesKept
  <2>1. ASSUME NEW s, mark_job_terminal(Job(w), s) PROVE LeasesKept
    BY <2>1 DEF mark_job_terminal, LeasesKept, IInv, TypeOK, LeaseRow
  <2>2. UNCHANGED storeVars => LeasesKept
    BY DEF storeVars, LeasesKept
  <2> QED
    BY <1>3, <2>1, <2>2
<1>6. Moves
  <2>1. Exit(w) \/ (Goto(w, "mark") /\ worker[w].pc = "finalize")
    BY DEF _short_circuit_already_indexed, _step_finalize, Fail
  <2> QED
    BY <1>1, <2>1, GotoMoves, ExitMoves
<1> QED
  BY <1>4, <1>5, <1>6

\* The commit is one call of commit_active_version, with the base revision
\* that is in the job row.
LEMMA CommitSteps ==
    ASSUME Stamps = Nat, JobInv, NEW w \in Workers, _step_commit(w)
    PROVE  Moves /\ [Next]_storeVars /\ LeasesKept
<1> USE DEF JobInv, At, InTry, InHandler, InStep
<1>1. worker[w].pc \in {"commit", "switch"}
  BY DEF _step_commit
<1>2. Version(w) \in Versions /\ jobs[Job(w)].base \in Stamps
  BY <1>1, RequestParts DEF IInv, TypeOK, JobRow
<1>3. commit_active_version(Version(w), jobs[Job(w)].base) \/ UNCHANGED storeVars
  BY DEF _step_commit, _assert_owns_build
<1>4. [Next]_storeVars
  BY <1>2, <1>3 DEF Next
<1>5. LeasesKept
  BY <1>3 DEF commit_active_version, storeVars, LeasesKept
<1>6. CASE \/ Goto(w, "switch") \/ Goto(w, "handler") \/ Exit(w)
  BY <1>1, <1>4, <1>5, <1>6, GotoMoves, ExitMoves
<1>7. CASE worker' = [worker EXCEPT ![w].pc = "mark", ![w].committed = TRUE]
  <2> DEFINE e == [worker[w] EXCEPT !.pc = "mark", !.committed = TRUE]
  <2>1. worker[w] \in Execution /\ worker[w].step \in 1 .. 6
    BY <1>1 DEF WorkersOK, Sound
  <2>2. /\ e \in Execution /\ e.pc = "mark" /\ e.step = worker[w].step
        /\ e.request = worker[w].request /\ e.attempt = worker[w].attempt
        /\ e.generation = worker[w].generation
    BY <2>1 DEF Execution, Places
  <2>3. worker' = [worker EXCEPT ![w] = e]
    BY <1>7, <2>1 DEF WorkersOK, Execution
  <2> HIDE DEF e
  <2> QED
    BY <1>1, <1>4, <1>5, <2>1, <2>2, <2>3, UpdateMoves
<1> QED
  BY <1>6, <1>7 DEF _step_commit, _assert_owns_build

\* Of the compensation only the last call touches the tables.
LEMMA UndoSteps ==
    ASSUME JobInv, NEW w \in Workers, _compensate(w)
    PROVE  Moves /\ [Next]_storeVars /\ LeasesKept
<1> USE DEF JobInv, At, InTry, InHandler, InStep
<1>1. worker[w].pc \in InHandler \ {"fail"}
  BY DEF _compensate
<1>2. Version(w) \in Versions
  BY <1>1, RequestParts
<1>3. mark_document_failed(Version(w)) \/ UNCHANGED storeVars
  BY DEF _compensate
<1>4. [Next]_storeVars
  BY <1>2, <1>3 DEF Next
<1>5. LeasesKept
  BY <1>3 DEF mark_document_failed, storeVars, LeasesKept
<1>6. \E place \in InHandler : Goto(w, place)
  BY DEF _compensate
<1> QED
  BY <1>1, <1>4, <1>5, <1>6, GotoMoves

\* The acquire is one call of acquire_job: this execution gets the lease with
\* its next generation, or nothing happens to the tables.
LEMMA AcquireSteps ==
    ASSUME Stamps = Nat, JobInv, NEW w \in Workers, _step_acquire(w)
    PROVE  /\ [Next]_storeVars
           /\ \/ Moves /\ LeasesKept
              \/ WorkersOK' /\ Granted(w)
<1> USE DEF JobInv, At, InTry, InHandler, InStep
<1> DEFINE r == worker[w].request
           v == r.version
<1>1. worker[w].pc = "acquire"
  BY DEF _step_acquire
<1>2. /\ r.job \in Jobs /\ v \in Versions /\ r.hash \in Hashes /\ r.acl \in Acls
      /\ worker[w].base \in Stamps /\ worker[w].attempt \in Attempts
      /\ worker[w].recover \in BOOLEAN
  BY <1>1, RequestParts DEF Job, Version
<1>3. CASE /\ acquire_job(r.job, v, r.hash, r.acl, worker[w].base,
                          worker[w].attempt, worker[w].recover)
           /\ worker' = [worker EXCEPT ![w].pc = "next",
                                       ![w].generation = builds'[v].generation]
  <2>1. Next
    BY <1>2, <1>3 DEF Next
  <2>2. builds \in [Versions -> LeaseRow]
    BY DEF IInv, TypeOK
  <2>3. /\ builds'[v].generation = builds[v].generation + 1 /\ builds'[v].owner = r.job
        /\ \A u \in Versions \ {v} : builds'[u] = builds[u]
        /\ builds'[v].generation \in Nat
    BY <1>2, <1>3, <2>2 DEF acquire_job, LeaseRow
  <2>4. Granted(w)
    BY <1>1, <1>3, <2>3 DEF Granted, Version, Job
  <2> DEFINE e == [worker[w] EXCEPT !.pc = "next", !.generation = builds'[v].generation]
  <2>5. worker[w] \in Execution
    BY DEF WorkersOK
  <2>6. /\ e \in Execution /\ e.pc = "next" /\ e.request = worker[w].request
        /\ e.attempt = worker[w].attempt
    BY <2>3, <2>5 DEF Execution, Places
  <2>7. worker' = [worker EXCEPT ![w] = e]
    BY <1>3, <2>5 DEF WorkersOK, Execution
  <2> HIDE DEF e
  <2>8. Sound(e)
    BY <1>1, <2>6 DEF Sound, WorkersOK
  <2>9. WorkersOK'
    BY <2>7, <2>8 DEF WorkersOK, Sound
  <2> QED
    BY <2>1, <2>4, <2>9
<1>4. CASE (Exit(w) \/ Goto(w, "handler")) /\ UNCHANGED storeVars
  <2>1. Moves
    BY <1>1, <1>4, GotoMoves, ExitMoves
  <2>2. LeasesKept
    BY <1>4 DEF storeVars, LeasesKept
  <2> QED
    BY <1>4, <2>1, <2>2
<1> QED
  BY <1>3, <1>4 DEF _step_acquire

\* A call that raises moves its execution to the handler or out of run().
LEMMA RaiseSteps ==
    ASSUME JobInv, NEW w \in Workers, Raise(w)
    PROVE  Moves /\ UNCHANGED storeVars
<1>1. worker[w].pc # "idle"
  BY DEF Raise, InTry, InHandler
<1>2. Goto(w, "handler") \/ Exit(w)
  BY DEF Raise
<1>3. "handler" \in InHandler /\ "handler" \notin InStep
  BY DEF InHandler, InStep
<1> QED
  BY <1>1, <1>2, <1>3, GotoMoves, ExitMoves DEF JobInv, Raise

\* A delivery starts an execution without a token.
LEMMA DeliverSteps ==
    ASSUME JobInv, NEW w \in Workers, Deliver(w)
    PROVE  Moves /\ UNCHANGED storeVars
<1>1. PICK r \in Requests, recover \in BOOLEAN : run(w, r, recover)
  BY DEF Deliver
<1> DEFINE a == CHOOSE x \in FreshAttempts : TRUE
           e == [pc |-> "precheck", request |-> r, recover |-> recover, attempt |-> a,
                 base |-> 0, generation |-> 0, step |-> 1, committed |-> FALSE]
<1>2. a \in Attempts
  BY <1>1 DEF run, FreshAttempts
<1>3. e \in Execution
  BY <1>2 DEF Execution, Places
<1>4. Sound(e)
  BY <1>2, <1>3 DEF Sound, InStep
<1>5. worker' = [worker EXCEPT ![w] = e] /\ UNCHANGED storeVars
  BY <1>1 DEF run
<1>6. e.generation = 0
  OBVIOUS
<1> HIDE DEF e
<1>7. WorkersOK'
  BY <1>4, <1>5 DEF JobInv, WorkersOK, Sound
<1>8. TokensKept
  BY <1>5, <1>6 DEF TokensKept, JobInv, WorkersOK
<1> QED
  BY <1>5, <1>7, <1>8 DEF Moves

\* A crash ends the executions of a process.
LEMMA CrashSteps ==
    ASSUME JobInv, NEW p \in Procs, Crash(p)
    PROVE  Moves /\ UNCHANGED storeVars
<1>1. Sound(Idle) /\ Idle.pc = "idle"
  BY DEF Sound, Idle, Execution, Places, InStep
<1>2. /\ worker' = [w \in Workers |-> IF ProcOf[w] = p THEN Idle ELSE worker[w]]
      /\ UNCHANGED storeVars
  BY DEF Crash
<1>3. WorkersOK'
  BY <1>1, <1>2 DEF JobInv, WorkersOK, Sound
<1>4. TokensKept
  BY <1>1, <1>2 DEF TokensKept
<1> QED
  BY <1>2, <1>3, <1>4 DEF Moves

-----------------------------------------------------------------------------
\* What a step of the system does to the tables, the executions and the tokens.
LEMMA SystemSteps ==
    ASSUME Stamps = Nat, JobInv, JobNext
    PROVE  /\ [Next]_storeVars
           /\ \/ Moves /\ LeasesKept
              \/ WorkersOK' /\ \E w \in Workers : Granted(w)
<1>1. UNCHANGED storeVars => LeasesKept
  BY DEF storeVars, LeasesKept
<1>2. ASSUME NEW w \in Workers, Advance(w)
      PROVE  /\ [Next]_storeVars
             /\ \/ Moves /\ LeasesKept
                \/ WorkersOK' /\ Granted(w)
  BY <1>1, <1>2, CheckSteps, PlaneSteps, TerminalSteps, CommitSteps, UndoSteps, AcquireSteps
  DEF Advance
<1>3. ASSUME NEW w \in Workers, Deliver(w) \/ Raise(w)
      PROVE  Moves /\ UNCHANGED storeVars
  BY <1>3, DeliverSteps, RaiseSteps
<1>4. ASSUME NEW p \in Procs, Crash(p)
      PROVE  Moves /\ UNCHANGED storeVars
  BY <1>4, CrashSteps
<1> QED
  BY <1>1, <1>2, <1>3, <1>4 DEF JobNext

\* The versions that are being executed after a step are versions.
LEMMA NewVersions ==
    ASSUME WorkersOK'
    PROVE  \A w \in Live' : Version(w)' \in Versions
<1> SUFFICES ASSUME NEW w \in Live' PROVE Version(w)' \in Versions
  OBVIOUS
<1>1. worker'[w].request \in Requests
  BY DEF WorkersOK, Sound, Live
<1> QED
  BY <1>1, RequestsAssumption DEF Version

\* Only an acquire makes a new token, one above every token of its version.
LEMMA TokensStep ==
    ASSUME JobInv, IInv',
           \/ Moves /\ LeasesKept
           \/ WorkersOK' /\ \E w \in Workers : Granted(w)
    PROVE  Tokens'
<1>1. \A w \in Live : w \in Workers /\ Version(w) \in Versions /\ worker[w].generation \in Nat
  BY RequestParts DEF JobInv, Live, WorkersOK, Execution
<1>2. \A v \in Versions : builds[v].generation \in Nat
  BY DEF JobInv, IInv, TypeOK, LeaseRow
<1>3. CASE Moves /\ LeasesKept
  <2>1. ASSUME NEW w \in Live'
        PROVE  \/ worker'[w].generation = 0
               \/ /\ w \in Live /\ Version(w)' = Version(w) /\ Version(w) \in Versions
                  /\ worker'[w].generation = worker[w].generation
    BY <1>1, <1>3 DEF Moves, TokensKept, Live, Version
  <2> QED
    BY <1>1, <1>2, <1>3, <2>1, NewVersions DEF JobInv, Tokens, LeasesKept, Moves
<1>4. ASSUME WorkersOK', NEW w \in Workers, Granted(w)
      PROVE  Tokens'
  <2> DEFINE v == Version(w)
  <2>1. w \in Live /\ v \in Versions /\ Live' = Live
    BY <1>1, <1>4 DEF Granted, Live, WorkersOK, JobInv, Execution
  <2>2. \A u \in Live : Version(u)' = Version(u)
    BY <1>4, <2>1 DEF Granted, Live, Version, JobInv, WorkersOK, Execution
  <2>3. \A u \in Live \ {w} : worker'[u].generation = worker[u].generation
    BY <1>4, <2>1 DEF Granted, Live, JobInv, WorkersOK
  <2>4. /\ worker'[w].generation = builds[v].generation + 1
        /\ builds'[v].generation = builds[v].generation + 1 /\ builds'[v].owner = Job(w)
    BY <1>4, <2>1 DEF Granted, Live, JobInv, WorkersOK, Execution
  <2>5. \A u \in Versions \ {v} : /\ builds'[u].generation = builds[u].generation
                                  /\ builds'[u].owner = builds[u].owner
    BY <1>4 DEF Granted
  <2>6. \A u \in Live : worker[u].generation <= builds[Version(u)].generation
    BY DEF JobInv, Tokens
  <2>7. \A u \in Live' : worker'[u].generation <= builds'[Version(u)'].generation
    <3>1. ASSUME NEW u \in Live, u # w
          PROVE  worker'[u].generation <= builds'[Version(u)].generation
      <4>1. CASE Version(u) = v
        BY <1>1, <1>2, <2>1, <2>3, <2>4, <2>6, <3>1, <4>1
      <4>2. CASE Version(u) # v
        BY <1>1, <1>2, <2>3, <2>5, <2>6, <3>1, <4>2
      <4> QED
        BY <4>1, <4>2
    <3> QED
      BY <1>2, <2>1, <2>2, <2>4, <3>1
  <2>8. \A u, x \in Live' :
           /\ Version(u)' = Version(x)'
           /\ worker'[u].generation = worker'[x].generation
           /\ worker'[u].generation # 0
           => u = x
    <3>1. \A u \in Live \ {w} : Version(u) = v => worker'[u].generation # worker'[w].generation
      BY <1>1, <1>2, <2>1, <2>3, <2>4, <2>6
    <3>2. \A u, x \in Live \ {w} :
             /\ Version(u) = Version(x)
             /\ worker'[u].generation = worker'[x].generation
             /\ worker'[u].generation # 0
             => u = x
      BY <2>3 DEF JobInv, Tokens
    <3> QED
      BY <2>1, <2>2, <3>1, <3>2
  <2>9. \A u \in Versions : builds'[u].generation = 0 => builds'[u].owner = None
    BY <1>2, <2>1, <2>4, <2>5 DEF JobInv, Tokens
  <2> QED
    BY <2>7, <2>8, <2>9 DEF Tokens
<1> QED
  BY <1>3, <1>4

\* The markers and the data planes stay in their types.
LEMMA PlanesStep ==
    ASSUME JobInv, JobNext
    PROVE  PlanesOK'
<1> USE DEF JobInv, PlanesOK, planes
<1>1. ASSUME NEW w \in Workers,
             \/ Precheck(w) \/ OwnerCheck(w) \/ _short_circuit_already_indexed(w)
             \/ ReadBase(w) \/ _step_acquire(w) \/ NextStep(w) \/ _step_verify(w)
             \/ _step_commit(w) \/ _step_finalize(w) \/ Fail(w) \/ Deliver(w)
      PROVE  UNCHANGED <<planes, faults, crashes>>
  BY <1>1 DEF Precheck, OwnerCheck, _short_circuit_already_indexed, ReadBase, _step_acquire,
              NextStep, _step_verify, _step_commit, _assert_owns_build, _step_finalize, Fail,
              Deliver, run
<1>2. ASSUME NEW w \in Workers, mark_step(w)
      PROVE  PlanesOK'
  <2>1. worker[w].step \in 1 .. 6
    BY <1>2 DEF mark_step, At, WorkersOK, Sound, InStep
  <2>2. Job(w) \in Jobs
    BY <1>2, RequestParts DEF mark_step, At
  <2>3. steps' \in [Jobs -> SUBSET Markers]
    BY <1>2, <2>1, <2>2 DEF mark_step, Markers
  <2> QED
    BY <1>2, <2>3 DEF mark_step
<1>3. ASSUME NEW w \in Workers,
             _step_write_parents(w) \/ _step_write_qdrant(w) \/ _step_publish(w) \/ _compensate(w)
      PROVE  PlanesOK'
  <2>1. /\ points' \in [Versions -> PointStatus] /\ chunks' \in [Versions -> BOOLEAN]
        /\ faults' = faults /\ crashes' = crashes
    BY <1>3 DEF _step_write_parents, _step_write_qdrant, _step_publish, _compensate,
                _assert_owns_build, PointStatus
  <2>2. parents' \in [Procs -> [Versions -> ParentStatus]]
    <3>1. ASSUME NEW p, NEW v, NEW s \in ParentStatus, parents' = [parents EXCEPT ![p][v] = s]
          PROVE  parents' \in [Procs -> [Versions -> ParentStatus]]
      BY <3>1
    <3>2. \/ parents' = parents
          \/ \E p, v : \E s \in ParentStatus : parents' = [parents EXCEPT ![p][v] = s]
      BY <1>3 DEF _step_write_parents, _step_write_qdrant, _step_publish, _compensate,
                  _assert_owns_build, ParentStatus
    <3> QED
      BY <3>1, <3>2
  <2>3. steps' \in [Jobs -> SUBSET Markers]
    BY <1>3 DEF _step_write_parents, _step_write_qdrant, _step_publish, _compensate,
                _assert_owns_build, clear_steps
  <2> QED
    BY <2>1, <2>2, <2>3
<1>4. ASSUME NEW w \in Workers, Raise(w)
      PROVE  PlanesOK'
  BY <1>4 DEF Raise
<1>5. ASSUME NEW p \in Procs, Crash(p)
      PROVE  PlanesOK'
  <2>1. parents' \in [Procs -> [Versions -> ParentStatus]]
    BY <1>5 DEF Crash, ParentStatus
  <2> QED
    BY <1>5, <2>1 DEF Crash
<1> QED
  BY <1>1, <1>2, <1>3, <1>4, <1>5 DEF JobNext, Advance

-----------------------------------------------------------------------------
\* The inductive invariant holds at the start ...
LEMMA JobInvariantInit == JobInit => JobInv
<1> SUFFICES ASSUME JobInit PROVE JobInv
  OBVIOUS
<1>1. IInv
  BY InvariantInit DEF JobInit
<1>2. Sound(Idle)
  BY DEF Sound, Idle, Execution, Places, InStep
<1>3. WorkersOK
  BY <1>2 DEF JobInit, WorkersOK, Sound
<1>4. PlanesOK
  BY DEF JobInit, PlanesOK, PointStatus, ParentStatus
<1>5. Live = {}
  BY DEF JobInit, Live, Idle
<1>6. Tokens
  BY <1>5 DEF JobInit, Init, NoBuild, Tokens
<1> QED
  BY <1>1, <1>3, <1>4, <1>6 DEF JobInv

\* ... and every step preserves it, and is a step of the control plane or
\* leaves it alone.
LEMMA JobInvariantStep ==
    ASSUME Stamps = Nat
    PROVE  JobInv /\ [JobNext]_jobVars => JobInv' /\ [Next]_storeVars
<1> SUFFICES ASSUME JobInv, [JobNext]_jobVars PROVE JobInv' /\ [Next]_storeVars
  OBVIOUS
<1>1. CASE JobNext
  <2>1. [Next]_storeVars /\ WorkersOK'
    BY <1>1, SystemSteps DEF Moves
  <2>2. IInv'
    BY <2>1, InvariantStep DEF JobInv
  <2> QED
    BY <1>1, <2>1, <2>2, SystemSteps, TokensStep, PlanesStep DEF JobInv
<1>2. CASE UNCHANGED jobVars
  <2>1. UNCHANGED storeVars
    BY <1>2 DEF jobVars, storeVars
  <2>2. IInv'
    BY <2>1, InvariantStep DEF JobInv
  <2>3. WorkersOK' /\ PlanesOK'
    BY <1>2 DEF jobVars, JobInv, WorkersOK, PlanesOK
  <2>4. Tokens'
    BY <1>2 DEF jobVars, JobInv, Tokens, Live, Version
  <2> QED
    BY <2>1, <2>2, <2>3, <2>4 DEF JobInv
<1> QED
  BY <1>1, <1>2

\* The inductive invariant of the ingestion job.
THEOREM JobInvariantHolds ==
    ASSUME Stamps = Nat
    PROVE  JobSpec => []JobInv
BY JobInvariantInit, JobInvariantStep, PTL DEF JobSpec

\* The executions of the ingestion jobs, with their faults and crashes, drive
\* the control plane only through its methods: what is proved of the store for
\* arbitrary callers holds of the store under them.
THEOREM JobImplementsStore ==
    ASSUME Stamps = Nat
    PROVE  JobSpec => Spec
<1>1. JobInit => Init
  BY DEF JobInit
<1> QED
  BY <1>1, JobInvariantHolds, JobInvariantStep, PTL DEF Spec, JobSpec

\* Every delivery, fault and crash keeps the markers, the data planes and the
\* executions in their types.
THEOREM JobTypeCorrect ==
    ASSUME Stamps = Nat
    PROVE  JobSpec => []JobTypeOK
<1>1. JobInv => JobTypeOK
  <2> SUFFICES ASSUME JobInv PROVE JobTypeOK
    OBVIOUS
  <2>1. ASSUME NEW w \in Workers
        PROVE  worker[w].request = None <=> worker[w].pc = "idle"
    BY RequestsAssumption DEF JobInv, WorkersOK, Sound, Idle
  <2> QED
    BY <2>1 DEF JobInv, IInv, WorkersOK, PlanesOK, JobTypeOK
<1> QED
  BY <1>1, JobInvariantHolds, PTL

\* For any number of workers and processes, any deliveries and any pattern of
\* faults, crashes and mistaken recoveries: at most one execution of a version
\* passes the fence of commit, publish and compensation.
THEOREM FencingTokenUniqueHolds ==
    ASSUME Stamps = Nat
    PROVE  JobSpec => []FencingTokenUnique
<1>1. JobInv => FencingTokenUnique
  <2> SUFFICES ASSUME JobInv, NEW u \in Live, NEW w \in Live,
                      Version(u) = Version(w), OwnsBuild(u), OwnsBuild(w)
               PROVE  u = w
    BY DEF FencingTokenUnique
  <2>1. Version(u) \in Versions /\ Job(u) \in Jobs
    BY RequestParts DEF JobInv, Live
  <2>2. builds[Version(u)].owner # None
    BY <2>1, NoneAssumption DEF OwnsBuild, get_build_owner
  <2>3. builds[Version(u)].generation # 0
    BY <2>1, <2>2 DEF JobInv, Tokens
  <2> QED
    BY <2>3 DEF JobInv, Tokens, OwnsBuild, get_lease_generation
<1> QED
  BY <1>1, JobInvariantHolds, PTL

-----------------------------------------------------------------------------
(* Which statements touch the tables, and whose executions they belong to. *)

\* Execution w acquires the lease of its version.
Takes(w) ==
    /\ worker[w].pc = "acquire"
    /\ acquire_job(Job(w), Version(w), worker[w].request.hash, worker[w].request.acl,
                   worker[w].base, worker[w].attempt, worker[w].recover)
    /\ worker' = [worker EXCEPT ![w].pc = "next",
                                ![w].generation = builds'[Version(w)].generation]

\* Execution w ends its job, and the leases of that job with it.
Ends(w) ==
    /\ worker[w].pc \in {"short", "finalize", "fail"}
    /\ \E s \in {"succeeded", "failed"} : mark_job_terminal(Job(w), s)

\* Execution w switches its version on.
Switches(w) ==
    /\ worker[w].pc = "switch"
    /\ commit_active_version(Version(w), jobs[Job(w)].base)
    /\ worker' = [worker EXCEPT ![w].pc = "mark", ![w].committed = TRUE]

\* Execution w gives the row of its version up.
Abandons(w) ==
    /\ worker[w].pc = "undo_row"
    /\ mark_document_failed(Version(w))

Touches(w) == Takes(w) \/ Ends(w) \/ Switches(w) \/ Abandons(w)

\* Every statement of an execution is one of these or leaves the tables alone.
LEMMA TableSteps ==
    ASSUME NEW w \in Workers, Advance(w)
    PROVE  Touches(w) \/ UNCHANGED storeVars
<1>1. CASE _short_circuit_already_indexed(w)
  BY <1>1 DEF _short_circuit_already_indexed, Touches, Ends, At
<1>2. CASE _step_acquire(w)
  BY <1>2 DEF _step_acquire, Touches, Takes, At, Job, Version
<1>3. CASE _step_commit(w)
  BY <1>3 DEF _step_commit, _assert_owns_build, Touches, Switches, At
<1>4. CASE _step_finalize(w) \/ Fail(w)
  BY <1>4 DEF _step_finalize, Fail, Touches, Ends, At
<1>5. CASE _compensate(w)
  BY <1>5 DEF _compensate, Touches, Abandons, At
<1>6. CASE Precheck(w) \/ OwnerCheck(w) \/ ReadBase(w) \/ NextStep(w) \/ mark_step(w)
  BY <1>6 DEF Precheck, OwnerCheck, ReadBase, NextStep, mark_step
<1>7. CASE _step_write_parents(w) \/ _step_write_qdrant(w) \/ _step_verify(w) \/ _step_publish(w)
  BY <1>7 DEF _step_write_parents, _step_write_qdrant, _step_verify, _step_publish,
              _assert_owns_build
<1> QED
  BY <1>1, <1>2, <1>3, <1>4, <1>5, <1>6, <1>7 DEF Advance

\* Only the workers' own statements reach the tables: not a delivery, a fault or a crash.
LEMMA SystemTableSteps ==
    ASSUME JobNext
    PROVE  (\E w \in Workers : Advance(w) /\ Touches(w)) \/ UNCHANGED storeVars
<1>1. \A w \in Workers : Deliver(w) \/ Raise(w) => UNCHANGED storeVars
  BY DEF Deliver, run, Raise
<1>2. \A p \in Procs : Crash(p) => UNCHANGED storeVars
  BY DEF Crash
<1> QED
  BY <1>1, <1>2, TableSteps DEF JobNext

\* The switch of v was made, now or before.
Committed(v) == documents[v].status \notin {"absent", "processing", "failed"}

\* What a switch does, to a version that was not active before.
LEMMA SwitchFacts ==
    ASSUME JobInv, JobInv', NEW w \in Workers, Switches(w)
    PROVE  /\ UNCHANGED <<builds, jobs>>
           /\ \/ documents[Version(w)].status = "active" /\ UNCHANGED documents
              \/ /\ documents[Version(w)].status # "active"
                 /\ CommitAccepted(Version(w), jobs[Job(w)].base)
                 /\ SwitchActive(Version(w), get_current_revision + 1)
                 /\ get_current_revision' = get_current_revision + 1
<1>1. Version(w) \in Versions
  BY RequestParts DEF Switches, JobInv
<1>2. CASE documents[Version(w)].status = "active"
  BY <1>2 DEF Switches, commit_active_version
<1>3. CASE documents[Version(w)].status # "active"
  <2>1. /\ CommitAccepted(Version(w), jobs[Job(w)].base)
        /\ SwitchActive(Version(w), get_current_revision + 1)
    BY <1>3 DEF Switches, commit_active_version
  <2>2. Switched
    BY <1>3, <2>1 DEF Switched, CommitAccepted
  <2> QED
    BY <1>3, <2>1, <2>2, RevisionGrows DEF JobInv, Switches, commit_active_version
<1> QED
  BY <1>2, <1>3

\* Every other statement keeps the active version and the current revision.
LEMMA RevisionFacts ==
    ASSUME JobInv, JobInv', JobNext, ~\E w \in Workers : Switches(w)
    PROVE  /\ get_current_revision' = get_current_revision
           /\ ActiveVersions' = ActiveVersions
<1>1. ASSUME NEW w \in Workers, Takes(w)
      PROVE  Stored
  BY <1>1, RequestParts DEF Takes, acquire_job, Stored, JobInv
<1>2. ASSUME NEW w \in Workers, Ends(w)
      PROVE  UNCHANGED documents
  BY <1>2 DEF Ends, mark_job_terminal
<1>3. ASSUME NEW w \in Workers, Abandons(w)
      PROVE  Failed \/ UNCHANGED documents
  BY <1>3, RequestParts DEF Abandons, mark_document_failed, Failed, JobInv
<1>4. Stored \/ Failed \/ UNCHANGED documents
  BY <1>1, <1>2, <1>3, SystemTableSteps DEF Touches, storeVars
<1> QED
  BY <1>4, RevisionKept DEF JobInv

\* What an acquire does to the lease and to the job row.
LEMMA TakeFacts ==
    ASSUME JobInv, NEW w \in Workers, Takes(w)
    PROVE  /\ w \in Live /\ Version(w) \in Versions /\ Job(w) \in Jobs
           /\ LeaseGranted(Job(w), Version(w), worker[w].attempt, worker[w].recover)
           /\ IdentityMatches(Job(w), Version(w), worker[w].request.hash)
           /\ builds'[Version(w)] = [status |-> "running", owner |-> Job(w),
                                     generation |-> builds[Version(w)].generation + 1,
                                     previous |-> LeasePrevious(Version(w)),
                                     attempt |-> worker[w].attempt]
           /\ \A v \in Versions \ {Version(w)} : builds'[v] = builds[v]
           /\ jobs'[Job(w)] = JobRowAfterAcquire(Job(w), Version(w), worker[w].request.hash,
                                                 worker[w].base, LeasePrevious(Version(w)))
           /\ \A j \in Jobs \ {Job(w)} : jobs'[j] = jobs[j]
           /\ _upsert_document_build(Version(w), worker[w].request.hash, worker[w].request.acl)
<1>1. w \in Live /\ Version(w) \in Versions /\ Job(w) \in Jobs
  BY RequestParts DEF Takes, JobInv, Live
<1>2. builds \in [Versions -> LeaseRow] /\ jobs \in [Jobs -> JobRow]
  BY DEF JobInv, IInv, TypeOK
<1> QED
  BY <1>1, <1>2 DEF Takes, acquire_job

\* The job row after an acquire: it runs, for the same version and content; its
\* base is the one it was inserted with.
LEMMA TakenRow ==
    ASSUME NEW j, NEW v, NEW h, NEW base, NEW previous, IdentityMatches(j, v, h)
    PROVE  LET row == JobRowAfterAcquire(j, v, h, base, previous) IN
           /\ row.status = "running" /\ row.version = v /\ row.hash = h
           /\ row.base = IF jobs[j].status = "absent" THEN base ELSE jobs[j].base
           /\ row.previous = IF jobs[j].status = "running" THEN jobs[j].previous ELSE previous
BY DEF JobRowAfterAcquire, IdentityMatches

\* The job row after an acquire: base and previous are those of the first claim,
\* unless the job had ended in between.
LEMMA TakenJob ==
    ASSUME JobInv, NEW w \in Workers, Takes(w)
    PROVE  /\ jobs'[Job(w)].status = "running"
           /\ jobs'[Job(w)].version = Version(w)
           /\ jobs'[Job(w)].hash = worker[w].request.hash
           /\ jobs'[Job(w)].base = IF jobs[Job(w)].status = "absent" THEN worker[w].base
                                   ELSE jobs[Job(w)].base
           /\ jobs'[Job(w)].previous = IF jobs[Job(w)].status = "running" THEN jobs[Job(w)].previous
                                       ELSE LeasePrevious(Version(w))
<1> DEFINE j == Job(w)
           v == Version(w)
           h == worker[w].request.hash
           base == worker[w].base
           previous == LeasePrevious(v)
           row == JobRowAfterAcquire(j, v, h, base, previous)
<1>1. IdentityMatches(j, v, h) /\ jobs'[j] = row
  BY TakeFacts
<1>2. /\ row.status = "running" /\ row.version = v /\ row.hash = h
      /\ row.base = IF jobs[j].status = "absent" THEN base ELSE jobs[j].base
      /\ row.previous = IF jobs[j].status = "running" THEN jobs[j].previous ELSE previous
  <2> HIDE DEF j, v, h, base, previous
  <2> QED
    BY <1>1, TakenRow
<1> QED
  BY <1>1, <1>2

\* The lease after an acquire names this execution and what it will replace.
LEMMA TakenLease ==
    ASSUME JobInv, NEW w \in Workers, Takes(w)
    PROVE  /\ builds'[Version(w)].status = "running" /\ builds'[Version(w)].owner = Job(w)
           /\ builds'[Version(w)].attempt = worker[w].attempt
           /\ builds'[Version(w)].previous = LeasePrevious(Version(w))
           /\ builds'[Version(w)].generation = builds[Version(w)].generation + 1
<1>1. builds'[Version(w)] = [status |-> "running", owner |-> Job(w),
                             generation |-> builds[Version(w)].generation + 1,
                             previous |-> LeasePrevious(Version(w)),
                             attempt |-> worker[w].attempt]
  BY TakeFacts
<1> QED
  BY <1>1

\* What the end of a job does: statuses only, and only those of its own.
LEMMA EndFacts ==
    ASSUME JobInv, NEW w \in Workers, Ends(w)
    PROVE  /\ w \in Live /\ Version(w) \in Versions /\ Job(w) \in Jobs
           /\ UNCHANGED documents
           /\ \A j \in Jobs :
                 /\ jobs'[j].version = jobs[j].version /\ jobs'[j].hash = jobs[j].hash
                 /\ jobs'[j].base = jobs[j].base /\ jobs'[j].previous = jobs[j].previous
                 /\ jobs'[j].status = "absent" <=> jobs[j].status = "absent"
                 /\ j # Job(w) => jobs'[j] = jobs[j]
           /\ \A v \in Versions :
                 /\ builds'[v].owner = builds[v].owner /\ builds'[v].attempt = builds[v].attempt
                 /\ builds'[v].generation = builds[v].generation
                 /\ builds'[v].previous = builds[v].previous
                 /\ builds'[v].status = "absent" <=> builds[v].status = "absent"
                 /\ builds[v].owner # Job(w) => builds'[v] = builds[v]
<1>1. w \in Live /\ Version(w) \in Versions /\ Job(w) \in Jobs
  BY RequestParts DEF Ends, JobInv, Live
<1>2. builds \in [Versions -> LeaseRow] /\ jobs \in [Jobs -> JobRow]
  BY DEF JobInv, IInv, TypeOK
<1>3. PICK s \in {"succeeded", "failed"} : mark_job_terminal(Job(w), s)
  BY DEF Ends
<1>4. \A j \in Jobs :
         /\ jobs'[j].version = jobs[j].version /\ jobs'[j].hash = jobs[j].hash
         /\ jobs'[j].base = jobs[j].base /\ jobs'[j].previous = jobs[j].previous
         /\ jobs'[j].status = "absent" <=> jobs[j].status = "absent"
         /\ j # Job(w) => jobs'[j] = jobs[j]
  BY <1>1, <1>2, <1>3 DEF mark_job_terminal, JobRow
<1>5. \A v \in Versions :
         /\ builds'[v].owner = builds[v].owner /\ builds'[v].attempt = builds[v].attempt
         /\ builds'[v].generation = builds[v].generation
         /\ builds'[v].previous = builds[v].previous
         /\ builds'[v].status = "absent" <=> builds[v].status = "absent"
         /\ builds[v].owner # Job(w) => builds'[v] = builds[v]
  BY <1>2, <1>3 DEF mark_job_terminal, LeaseRow
<1> QED
  BY <1>1, <1>3, <1>4, <1>5 DEF mark_job_terminal

\* A version once committed stays so, and only a switch commits one.
LEMMA CommittedFacts ==
    ASSUME JobInv, JobNext
    PROVE  /\ \A v \in Versions : Committed(v) => Committed(v)'
           /\ \A v \in Versions : Committed(v)' =>
                 Committed(v) \/ \E w \in Workers : Switches(w) /\ Version(w) = v
<1>1. ASSUME NEW w \in Workers, Takes(w)
      PROVE  \A v \in Versions : Committed(v)' <=> Committed(v)
  <2>1. _upsert_document_build(Version(w), worker[w].request.hash, worker[w].request.acl)
    BY <1>1, TakeFacts
  <2>2. documents \in [Versions -> DocumentRow]
    BY DEF JobInv, IInv, TypeOK
  <2> QED
    BY <2>1, <2>2 DEF _upsert_document_build, Committed
<1>2. ASSUME NEW w \in Workers, Ends(w)
      PROVE  \A v \in Versions : Committed(v)' <=> Committed(v)
  BY <1>2, EndFacts DEF Committed
<1>3. ASSUME NEW w \in Workers, Abandons(w)
      PROVE  \A v \in Versions : Committed(v)' <=> Committed(v)
  <2>1. \/ UNCHANGED documents
        \/ /\ documents[Version(w)].status \in {"processing", "failed"}
           /\ documents' = [documents EXCEPT ![Version(w)].status = "failed"]
    BY <1>3 DEF Abandons, mark_document_failed
  <2>2. documents \in [Versions -> DocumentRow]
    BY DEF JobInv, IInv, TypeOK
  <2> QED
    BY <2>1, <2>2 DEF Committed, DocumentRow
<1>4. ASSUME NEW w \in Workers, Switches(w)
      PROVE  /\ \A v \in Versions : Committed(v) => Committed(v)'
             /\ \A v \in Versions : Committed(v)' => Committed(v) \/ Version(w) = v
  <2>1. Version(w) \in Versions
    BY <1>4, RequestParts DEF Switches, JobInv
  <2>2. CASE UNCHANGED documents
    BY <2>2 DEF Committed
  <2>3. CASE SwitchActive(Version(w), get_current_revision + 1)
    BY <2>1, <2>3, SwitchedRows DEF Committed, JobInv, IInv
  <2> QED
    BY <1>4, <2>2, <2>3 DEF Switches, commit_active_version
<1>5. UNCHANGED storeVars => \A v \in Versions : Committed(v)' <=> Committed(v)
  BY DEF storeVars, Committed
<1> QED
  BY <1>1, <1>2, <1>3, <1>4, <1>5, SystemTableSteps DEF Touches

\* The places behind the acquire, up to the end of the loop.
InLoop == InStep \cup {"next"}

\* How a statement moves its execution: on within run(), or out of it.
Walk(w) ==
    /\ worker[w].pc # "idle"
    /\ \A u \in Workers \ {w} : worker'[u] = worker[u]
    /\ \/ worker'[w] = Idle
       \/ /\ worker'[w].pc # "idle"
          /\ worker'[w].request = worker[w].request
          /\ worker'[w].attempt = worker[w].attempt
          /\ worker'[w].recover = worker[w].recover
          /\ worker'[w].pc \in InLoop => worker[w].pc \in InLoop \/ Takes(w)
          /\ worker'[w].base \in {worker[w].base, get_current_revision}
          /\ worker'[w].generation = worker[w].generation \/ Takes(w)
          /\ worker'[w].committed = worker[w].committed \/ Switches(w)
          /\ worker'[w].step = worker[w].step \/ NextStep(w) \/ mark_step(w)

\* Moving to another place is a walk.
LEMMA GotoWalks ==
    ASSUME WorkersOK, NEW w \in Workers, worker[w].pc # "idle",
           NEW place, Goto(w, place), place # "idle",
           place \in InLoop => worker[w].pc \in InLoop
    PROVE  Walk(w)
<1>1. worker[w] \in Execution /\ worker \in [Workers -> Execution]
  BY DEF WorkersOK
<1>2. worker'[w] = [worker[w] EXCEPT !.pc = place] /\ \A u \in Workers \ {w} : worker'[u] = worker[u]
  BY <1>1 DEF Goto
<1> QED
  BY <1>1, <1>2 DEF Walk, Execution

\* So is the end of run().
LEMMA ExitWalks ==
    ASSUME WorkersOK, NEW w \in Workers, worker[w].pc # "idle", Exit(w)
    PROVE  Walk(w)
BY DEF Walk, Exit, WorkersOK

\* Every step of a worker is a walk of that worker alone.
LEMMA AdvanceWalks ==
    ASSUME JobInv, NEW w \in Workers, Advance(w) \/ Raise(w)
    PROVE  Walk(w)
<1> USE DEF At, InLoop, InStep
<1>0. WorkersOK /\ worker \in [Workers -> Execution] /\ worker[w] \in Execution
  BY DEF JobInv, WorkersOK
<1>1. CASE Precheck(w) \/ OwnerCheck(w)
  <2>1. Exit(w) \/ Goto(w, "owner") \/ Goto(w, "short") \/ Goto(w, "base")
    BY <1>1 DEF Precheck, OwnerCheck
  <2>2. worker[w].pc # "idle"
    BY <1>1 DEF Precheck, OwnerCheck
  <2> QED
    BY <1>0, <2>1, <2>2, GotoWalks, ExitWalks
<1>2. CASE _short_circuit_already_indexed(w) \/ Fail(w)
  BY <1>0, <1>2, ExitWalks DEF _short_circuit_already_indexed, Fail
<1>3. CASE ReadBase(w)
  BY <1>0, <1>3 DEF ReadBase, Walk, Execution
<1>4. CASE _step_acquire(w)
  <2>1. Exit(w) \/ Goto(w, "handler") \/ Takes(w)
    BY <1>4 DEF _step_acquire, Takes, Job, Version
  <2>2. CASE Takes(w)
    BY <1>0, <2>2 DEF Takes, Walk, Execution
  <2> QED
    BY <1>0, <1>4, <2>1, <2>2, GotoWalks, ExitWalks DEF _step_acquire
<1>5. CASE NextStep(w)
  <2> DEFINE todo == {k \in worker[w].step .. 6 : STEPS[k] \notin steps[Job(w)]}
             k == CHOOSE x \in todo : \A y \in todo : x <= y
  <2>1. CASE todo = {}
    BY <1>0, <1>5, <2>1, ExitWalks DEF NextStep
  <2>2. CASE todo # {}
    <3>1. k \in 1 .. 6
      <4>1. todo \in SUBSET (1 .. 6)
        BY <1>0 DEF Execution
      <4> QED
        BY <2>2, <4>1, LeastStep
    <3>2. worker' = [worker EXCEPT ![w].pc = STEPS[k], ![w].step = k]
      BY <1>5, <2>2 DEF NextStep
    <3>3. STEPS[k] # "idle"
      BY <3>1, StepPlace
    <3> HIDE DEF k
    <3> QED
      BY <1>0, <1>5, <3>2, <3>3 DEF NextStep, Walk, Execution
  <2> QED
    BY <2>1, <2>2
<1>6. CASE mark_step(w)
  BY <1>0, <1>6 DEF mark_step, Walk, Execution
<1>7. CASE _step_write_parents(w) \/ _step_write_qdrant(w) \/ _step_verify(w) \/ _step_finalize(w)
  <2>1. /\ worker[w].pc \in {"write_parents", "write_qdrant", "write_chunks", "verify", "finalize"}
        /\ Goto(w, "write_chunks") \/ Goto(w, "mark") \/ Goto(w, "handler")
    BY <1>7 DEF _step_write_parents, _step_write_qdrant, _step_verify, _step_finalize
  <2> QED
    BY <1>0, <2>1, GotoWalks
<1>8. CASE _step_commit(w)
  <2>1. /\ worker[w].pc \in {"commit", "switch"}
        /\ Goto(w, "switch") \/ Goto(w, "handler") \/ Exit(w) \/ Switches(w)
    BY <1>8 DEF _step_commit, _assert_owns_build, Switches
  <2>2. CASE Switches(w)
    BY <1>0, <2>2 DEF Switches, Walk, Execution
  <2> QED
    BY <1>0, <2>1, <2>2, GotoWalks, ExitWalks
<1>9. CASE _step_publish(w)
  <2>1. /\ worker[w].pc \in {"publish", "promote", "promote_parents", "retire_parents", "retire"}
        /\ \/ Goto(w, "promote") \/ Exit(w) \/ Goto(w, "promote_parents") \/ Goto(w, "mark")
           \/ Goto(w, "retire_parents") \/ Goto(w, "retire")
    BY <1>9 DEF _step_publish, _assert_owns_build
  <2> QED
    BY <1>0, <2>1, GotoWalks, ExitWalks
<1>10. CASE _compensate(w)
  <2>1. /\ worker[w].pc \in {"handler", "undo_points", "undo_parents", "undo_chunks", "undo_steps",
                             "undo_row"}
        /\ \/ Goto(w, "undo_points") \/ Goto(w, "fail") \/ Goto(w, "undo_parents")
           \/ Goto(w, "undo_chunks") \/ Goto(w, "undo_steps") \/ Goto(w, "undo_row")
    BY <1>10 DEF _compensate
  <2> QED
    BY <1>0, <2>1, GotoWalks
<1>11. CASE Raise(w)
  <2>1. worker[w].pc # "idle" /\ (Goto(w, "handler") \/ Exit(w))
    BY <1>11 DEF Raise, InTry, InHandler
  <2> QED
    BY <1>0, <2>1, GotoWalks, ExitWalks
<1> QED
  BY <1>1, <1>2, <1>3, <1>4, <1>5, <1>6, <1>7, <1>8, <1>9, <1>10, <1>11 DEF Advance

\* An execution as a delivery starts it.
Starts(w) ==
    /\ worker[w].pc = "idle"
    /\ \A u \in Workers \ {w} : worker'[u] = worker[u]
    /\ worker'[w].pc = "precheck" /\ worker'[w].request \in Requests
    /\ worker'[w].base = 0 /\ worker'[w].generation = 0 /\ worker'[w].step = 1
    /\ ~worker'[w].committed
    /\ worker'[w].attempt \in FreshAttempts
    /\ worker'[w].recover => RecoverAllowed(worker'[w].request.version)

\* A delivery starts an execution from its beginning, without a token.
LEMMA DeliverStarts ==
    ASSUME JobInv, NEW w \in Workers, Deliver(w)
    PROVE  Starts(w)
<1>1. PICK r \in Requests, recover \in BOOLEAN : run(w, r, recover)
  BY DEF Deliver
<1> DEFINE a == CHOOSE x \in FreshAttempts : TRUE
           e == [pc |-> "precheck", request |-> r, recover |-> recover, attempt |-> a,
                 base |-> 0, generation |-> 0, step |-> 1, committed |-> FALSE]
<1>2. a \in FreshAttempts
  BY <1>1 DEF run
<1>3. worker' = [worker EXCEPT ![w] = e] /\ worker \in [Workers -> Execution]
  BY <1>1 DEF run, JobInv, WorkersOK
<1>4. worker'[w] = e /\ \A u \in Workers \ {w} : worker'[u] = worker[u]
  BY <1>3
<1>5. /\ e.pc = "precheck" /\ e.request = r /\ e.base = 0 /\ e.generation = 0 /\ e.step = 1
      /\ ~e.committed /\ e.attempt = a /\ e.recover = recover
  OBVIOUS
<1>6. worker[w].pc = "idle" /\ (recover => RecoverAllowed(r.version))
  BY <1>1 DEF run, At
<1> HIDE DEF e, a
<1> QED
  BY <1>2, <1>4, <1>5, <1>6 DEF Starts

\* A crash leaves every execution as it is, or ends it.
Stops == \A u \in Workers : worker'[u] \in {worker[u], Idle}

\* What a step of the system does to the executions: one walks, one starts, or some stop.
LEMMA WorkerSteps ==
    ASSUME JobInv, JobNext
    PROVE  \/ \E w \in Workers : (Advance(w) \/ Raise(w)) /\ Walk(w)
           \/ UNCHANGED storeVars /\ \E w \in Workers : Starts(w)
           \/ UNCHANGED storeVars /\ Stops
<1>1. ASSUME NEW p \in Procs, Crash(p)
      PROVE  UNCHANGED storeVars /\ Stops
  BY <1>1 DEF Crash, Stops
<1> QED
  BY <1>1, AdvanceWalks, DeliverStarts, DeliverSteps DEF JobNext

-----------------------------------------------------------------------------
(* What a commit replaces.                                                 *)

\* A job id and a version come together.
Paired == \A r, s \in Requests : r.job = s.job <=> r.version = s.version

\* The job row of a delivery and the lease of its version come together as
\* well, and an execution behind its acquire has them.
RowsPaired ==
    /\ \A r \in Requests : jobs[r.job].status = "absent" <=> builds[r.version].status = "absent"
    /\ \A r \in Requests : builds[r.version].status # "absent" => builds[r.version].owner = r.job
    /\ \A w \in Live : worker[w].pc \in InLoop => jobs[Job(w)].status # "absent"

\* No base revision is ahead of the document.
Bases ==
    /\ \A w \in Live : worker[w].base <= get_current_revision
    /\ \A r \in Requests : jobs[r.job].base <= get_current_revision

\* The job row and the lease name the same version to replace, and it is the
\* active one unless the compare-and-swap of this job can only fail.
Replaces ==
    \A r \in Requests : builds[r.version].status # "absent" =>
        /\ jobs[r.job].previous = builds[r.version].previous
        /\ \/ jobs[r.job].base < get_current_revision
           \/ builds[r.version].previous = get_active_version

PairedInv == RowsPaired /\ Bases /\ Replaces

\* The parts of a delivery.
LEMMA RequestTypes ==
    ASSUME NEW r \in Requests
    PROVE  r.job \in Jobs /\ r.version \in Versions /\ r.hash \in Hashes /\ r.acl \in Acls
BY RequestsAssumption

\* The parts of an execution under way.
LEMMA LiveRequest ==
    ASSUME JobInv, NEW w \in Live
    PROVE  /\ w \in Workers /\ worker[w].request \in Requests /\ worker[w] \in Execution
           /\ Job(w) \in Jobs /\ Version(w) \in Versions
BY RequestParts DEF JobInv, WorkersOK, Sound, Live

\* Executions that run after a step and have got behind the acquire.
LEMMA InLoopBefore ==
    ASSUME JobInv, JobNext, NEW u \in Live', (worker[u].pc)' \in InLoop
    PROVE  /\ u \in Live /\ Job(u)' = Job(u) /\ Version(u)' = Version(u)
           /\ worker[u].pc \in InLoop \/ Takes(u)
<1>1. u \in Workers /\ worker'[u].pc # "idle" /\ "precheck" \notin InLoop
  BY DEF Live, InLoop, InStep
<1>2. ASSUME NEW w \in Workers, Walk(w)
      PROVE  /\ worker[u].pc # "idle" /\ worker'[u].request = worker[u].request
             /\ worker[u].pc \in InLoop \/ Takes(u)
  BY <1>1, <1>2 DEF Walk, Idle
<1>3. ASSUME NEW w \in Workers, Starts(w)
      PROVE  worker'[u] = worker[u]
  BY <1>1, <1>3 DEF Starts
<1>4. Stops => worker'[u] = worker[u]
  BY <1>1 DEF Stops, Idle
<1> QED
  BY <1>1, <1>2, <1>3, <1>4, WorkerSteps DEF Live, Job, Version

\* Lease and job row of a paired delivery appear together and name each other.
LEMMA RowsPairedStep ==
    ASSUME Paired, JobInv, JobInv', RowsPaired, JobNext
    PROVE  RowsPaired'
<1>1. ASSUME NEW w \in Workers, Takes(w)
      PROVE  RowsPaired'
  <2>1. w \in Live /\ worker[w].request \in Requests
    BY <1>1, TakeFacts, LiveRequest
  <2>2. jobs'[Job(w)].status = "running" /\ builds'[Version(w)].status = "running"
        /\ builds'[Version(w)].owner = Job(w)
    BY <1>1, TakenLease, TakenJob
  <2>3. \A r \in Requests :
           \/ r.job = Job(w) /\ r.version = Version(w)
           \/ jobs'[r.job] = jobs[r.job] /\ builds'[r.version] = builds[r.version]
    <3> SUFFICES ASSUME NEW r \in Requests, r.job # Job(w) \/ r.version # Version(w)
                 PROVE  jobs'[r.job] = jobs[r.job] /\ builds'[r.version] = builds[r.version]
      OBVIOUS
    <3>1. r.job # Job(w) /\ r.version # Version(w)
      BY <2>1 DEF Paired, Job, Version
    <3>2. r.job \in Jobs \ {Job(w)} /\ r.version \in Versions \ {Version(w)}
      BY <3>1, RequestTypes
    <3>3. /\ \A v \in Versions \ {Version(w)} : builds'[v] = builds[v]
          /\ \A j \in Jobs \ {Job(w)} : jobs'[j] = jobs[j]
      BY <1>1, TakeFacts
    <3> QED
      BY <3>2, <3>3
  <2>4. \A u \in Live' : (worker[u].pc)' \in InLoop => (jobs[Job(u)].status)' # "absent"
    <3> SUFFICES ASSUME NEW u \in Live', (worker[u].pc)' \in InLoop
                 PROVE  (jobs[Job(u)].status)' # "absent"
      OBVIOUS
    <3>1. /\ u \in Live /\ Job(u)' = Job(u)
          /\ worker[u].pc \in InLoop \/ Takes(u)
      BY InLoopBefore
    <3>2. worker[u].request \in Requests
      BY <3>1, LiveRequest
    <3>3. Takes(u) => jobs'[Job(u)].status = "running"
      BY <3>1, TakenJob, LiveRequest
    <3> QED
      BY <2>2, <2>3, <3>1, <3>2, <3>3 DEF RowsPaired, Job
  <2> QED
    BY <2>2, <2>3, <2>4 DEF RowsPaired
<1>2. ASSUME \A r \in Requests :
                /\ jobs'[r.job].status = "absent" <=> jobs[r.job].status = "absent"
                /\ builds'[r.version].status = "absent" <=> builds[r.version].status = "absent"
                /\ builds'[r.version].owner = builds[r.version].owner,
             ~\E w \in Workers : Takes(w)
      PROVE  RowsPaired'
  <2>1. \A u \in Live' : (worker[u].pc)' \in InLoop => (jobs[Job(u)].status)' # "absent"
    <3> SUFFICES ASSUME NEW u \in Live', (worker[u].pc)' \in InLoop
                 PROVE  (jobs[Job(u)].status)' # "absent"
      OBVIOUS
    <3>1. u \in Live /\ Job(u)' = Job(u) /\ worker[u].pc \in InLoop
      BY <1>2, InLoopBefore DEF Live
    <3>2. worker[u].request \in Requests
      BY <3>1, LiveRequest
    <3> QED
      BY <1>2, <3>1, <3>2 DEF RowsPaired, Job
  <2> QED
    BY <1>2, <2>1 DEF RowsPaired
<1>3. ASSUME NEW w \in Workers, Ends(w)
      PROVE  \A r \in Requests :
                /\ jobs'[r.job].status = "absent" <=> jobs[r.job].status = "absent"
                /\ builds'[r.version].status = "absent" <=> builds[r.version].status = "absent"
                /\ builds'[r.version].owner = builds[r.version].owner
  BY <1>3, EndFacts, RequestTypes
<1>4. ASSUME NEW w \in Workers, Switches(w) \/ Abandons(w) \/ UNCHANGED storeVars
      PROVE  UNCHANGED <<builds, jobs>>
  BY <1>4 DEF Switches, Abandons, commit_active_version, mark_document_failed, storeVars
<1> QED
  BY <1>1, <1>2, <1>3, <1>4, SystemTableSteps DEF Touches, storeVars

\* The revision of the deployment never goes back.
LEMMA RevisionMonotone ==
    ASSUME JobInv, JobInv', JobNext
    PROVE  /\ get_current_revision \in Nat /\ get_current_revision' \in Nat
           /\ get_current_revision <= get_current_revision'
<1>1. get_current_revision \in Nat
  BY CurrentRevision DEF JobInv, IInv, RowsInv
<1>2. UNCHANGED documents => get_current_revision' = get_current_revision
  BY DEF get_current_revision, Revisions, Rows
<1>3. ASSUME NEW w \in Workers, Switches(w)
      PROVE  get_current_revision' \in {get_current_revision, get_current_revision + 1}
  BY <1>2, <1>3, SwitchFacts
<1>4. get_current_revision' \in {get_current_revision, get_current_revision + 1}
  BY <1>3, RevisionFacts
<1> QED
  BY <1>1, <1>4

\* A base revision is one that was current when it was read.
LEMMA BasesStep ==
    ASSUME JobInv, JobInv', Bases, JobNext
    PROVE  Bases'
<1>1. /\ get_current_revision \in Nat /\ get_current_revision' \in Nat
      /\ get_current_revision <= get_current_revision'
  BY RevisionMonotone
<1>2. \A w \in Live : worker[w].base \in Nat /\ worker[w].base <= get_current_revision
  BY LiveRequest DEF Bases, Execution
<1>3. ASSUME NEW u \in Live'
      PROVE  (worker[u].base)' <= get_current_revision'
  <2>0. u \in Workers /\ worker'[u].pc # "idle"
    BY DEF Live
  <2>1. \/ u \in Live /\ worker'[u].base = worker[u].base
        \/ worker'[u].base \in {get_current_revision, 0}
    <3>1. ASSUME NEW w \in Workers, Walk(w)
          PROVE  \/ u \in Live /\ worker'[u].base = worker[u].base
                 \/ worker'[u].base = get_current_revision
      BY <2>0, <3>1 DEF Walk, Idle, Live
    <3>2. ASSUME NEW w \in Workers, Starts(w)
          PROVE  \/ u \in Live /\ worker'[u].base = worker[u].base
                 \/ worker'[u].base = 0
      BY <2>0, <3>2 DEF Starts, Live
    <3>3. Stops => u \in Live /\ worker'[u].base = worker[u].base
      BY <2>0 DEF Stops, Live, Idle
    <3> QED
      BY <3>1, <3>2, <3>3, WorkerSteps
  <2> QED
    BY <1>1, <1>2, <2>1
<1>4. ASSUME NEW r \in Requests
      PROVE  (jobs[r.job].base)' <= get_current_revision'
  <2>0. r.job \in Jobs /\ jobs[r.job].base \in Nat /\ jobs[r.job].base <= get_current_revision
    BY RequestTypes DEF Bases, JobInv, IInv, TypeOK, JobRow
  <2>1. ASSUME NEW w \in Workers, Takes(w)
        PROVE  jobs'[r.job].base <= get_current_revision
    <3>1. CASE r.job = Job(w)
      <4>1. jobs'[r.job].base \in {worker[w].base, jobs[r.job].base}
        BY <2>1, <3>1, TakenJob
      <4>2. w \in Live
        BY <2>1, TakeFacts
      <4> QED
        BY <1>2, <2>0, <4>1, <4>2
    <3>2. CASE r.job # Job(w)
      <4>1. \A j \in Jobs \ {Job(w)} : jobs'[j] = jobs[j]
        BY <2>1, TakeFacts
      <4> QED
        BY <2>0, <3>2, <4>1
    <3> QED
      BY <3>1, <3>2
  <2>2. ASSUME NEW w \in Workers, Ends(w)
        PROVE  jobs'[r.job].base = jobs[r.job].base
    BY <2>0, <2>2, EndFacts
  <2>3. ASSUME NEW w \in Workers, Switches(w) \/ Abandons(w) \/ UNCHANGED storeVars
        PROVE  UNCHANGED jobs
    BY <2>3 DEF Switches, Abandons, commit_active_version, mark_document_failed, storeVars
  <2>4. jobs'[r.job].base \in Nat
    BY <2>0 DEF JobInv, IInv, TypeOK, JobRow
  <2> QED
    BY <1>1, <2>0, <2>1, <2>2, <2>3, <2>4, SystemTableSteps DEF Touches, storeVars
<1> QED
  BY <1>3, <1>4 DEF Bases

\* A row whose base is still current names the version that is active now.
LEMMA ReplacesStep ==
    ASSUME Paired, JobInv, JobInv', PairedInv, JobNext
    PROVE  Replaces'
<1> SUFFICES ASSUME NEW r \in Requests, builds'[r.version].status # "absent"
             PROVE  /\ jobs'[r.job].previous = builds'[r.version].previous
                    /\ \/ jobs'[r.job].base < get_current_revision'
                       \/ builds'[r.version].previous = get_active_version'
  BY DEF Replaces
<1> USE DEF PairedInv
<1>0. /\ r.job \in Jobs /\ r.version \in Versions
      /\ jobs[r.job].base \in Nat /\ jobs[r.job].base <= get_current_revision
  BY RequestTypes DEF Bases, JobInv, IInv, TypeOK, JobRow
<1>a. /\ get_current_revision \in Nat /\ get_current_revision' \in Nat
      /\ get_current_revision <= get_current_revision'
  BY RevisionMonotone
<1>1. ASSUME NEW w \in Workers, Switches(w)
      PROVE  /\ jobs' = jobs /\ builds' = builds
             /\ \/ get_current_revision' = get_current_revision + 1
                \/ /\ get_current_revision' = get_current_revision
                   /\ get_active_version' = get_active_version
  <2>1. UNCHANGED documents => /\ get_current_revision' = get_current_revision
                               /\ get_active_version' = get_active_version
    BY DEF get_current_revision, Revisions, Rows, get_active_version, ActiveVersions
  <2> QED
    BY <1>1, <2>1, SwitchFacts
<1>2. ASSUME ~\E w \in Workers : Switches(w)
      PROVE  /\ get_current_revision' = get_current_revision
             /\ get_active_version' = get_active_version
  BY <1>2, RevisionFacts DEF get_active_version
<1>3. ASSUME NEW w \in Workers, Takes(w), r.job = Job(w), r.version = Version(w)
      PROVE  /\ jobs'[r.job].previous = builds'[r.version].previous
             /\ \/ jobs'[r.job].base < get_current_revision
                \/ builds'[r.version].previous = get_active_version
  <2>1. /\ builds'[r.version].previous = LeasePrevious(r.version)
        /\ jobs'[r.job].base = IF jobs[r.job].status = "absent" THEN worker[w].base
                               ELSE jobs[r.job].base
        /\ jobs'[r.job].previous = IF jobs[r.job].status = "running" THEN jobs[r.job].previous
                                   ELSE LeasePrevious(r.version)
    BY <1>3, TakenLease, TakenJob
  <2>2. CASE builds[r.version].status = "absent"
    BY <2>1, <2>2 DEF LeasePrevious, RowsPaired
  <2>3. CASE builds[r.version].status # "absent"
    BY <2>1, <2>3 DEF LeasePrevious, RowsPaired, Replaces
  <2> QED
    BY <2>2, <2>3
<1>4. ASSUME NEW w \in Workers, Takes(w), r.job # Job(w) \/ r.version # Version(w)
      PROVE  jobs'[r.job] = jobs[r.job] /\ builds'[r.version] = builds[r.version]
  <2>1. worker[w].request \in Requests
    BY <1>4, TakeFacts, LiveRequest
  <2>2. r.job # Job(w) /\ r.version # Version(w)
    BY <1>4, <2>1 DEF Paired, Job, Version
  <2>3. /\ \A v \in Versions \ {Version(w)} : builds'[v] = builds[v]
        /\ \A j \in Jobs \ {Job(w)} : jobs'[j] = jobs[j]
    BY <1>4, TakeFacts
  <2> QED
    BY <1>0, <2>2, <2>3
<1>5. ASSUME NEW w \in Workers, Ends(w)
      PROVE  /\ jobs'[r.job].previous = jobs[r.job].previous /\ jobs'[r.job].base = jobs[r.job].base
             /\ builds'[r.version].previous = builds[r.version].previous
             /\ builds'[r.version].status = "absent" <=> builds[r.version].status = "absent"
  BY <1>0, <1>5, EndFacts
<1>6. ASSUME NEW w \in Workers, Abandons(w) \/ UNCHANGED storeVars
      PROVE  jobs' = jobs /\ builds' = builds
  BY <1>6 DEF Abandons, mark_document_failed, storeVars
<1>7. CASE \E w \in Workers : Switches(w)
  <2>1. /\ jobs' = jobs /\ builds' = builds
        /\ \/ get_current_revision' = get_current_revision + 1
           \/ /\ get_current_revision' = get_current_revision
              /\ get_active_version' = get_active_version
    BY <1>1, <1>7
  <2>2. /\ jobs[r.job].previous = builds[r.version].previous
        /\ \/ jobs[r.job].base < get_current_revision
           \/ builds[r.version].previous = get_active_version
    BY <2>1 DEF Replaces
  <2> QED
    BY <1>0, <1>a, <2>1, <2>2
<1>8. CASE ~\E w \in Workers : Switches(w)
  <2>1. CASE \E w \in Workers : Takes(w)
    <3>1. PICK w \in Workers : Takes(w)
      BY <2>1
    <3>2. CASE r.job = Job(w) /\ r.version = Version(w)
      BY <1>2, <1>3, <1>8, <3>1, <3>2
    <3>3. CASE ~(r.job = Job(w) /\ r.version = Version(w))
      BY <1>2, <1>4, <1>8, <3>1, <3>3 DEF Replaces
    <3> QED
      BY <3>2, <3>3
  <2>2. CASE \E w \in Workers : Ends(w)
    BY <1>2, <1>5, <1>8, <2>2 DEF Replaces
  <2>3. CASE jobs' = jobs /\ builds' = builds
    BY <1>2, <1>8, <2>3 DEF Replaces
  <2> QED
    BY <1>6, <1>8, <2>1, <2>2, <2>3, SystemTableSteps DEF Touches, storeVars
<1> QED
  BY <1>7, <1>8

\* The invariant behind CommitReplacesPrevious is inductive.
LEMMA PairedInvariantStep ==
    ASSUME Stamps = Nat, Paired
    PROVE  JobInv /\ PairedInv /\ [JobNext]_jobVars => PairedInv'
<1> SUFFICES ASSUME JobInv, PairedInv, [JobNext]_jobVars PROVE PairedInv'
  OBVIOUS
<1>1. JobInv'
  BY JobInvariantStep
<1>2. CASE JobNext
  BY <1>1, <1>2, RowsPairedStep, BasesStep, ReplacesStep DEF PairedInv
<1>3. CASE UNCHANGED jobVars
  <2>1. /\ Live' = Live /\ get_current_revision' = get_current_revision
        /\ get_active_version' = get_active_version
    BY <1>3 DEF jobVars, Live, get_current_revision, Revisions, Rows, get_active_version,
                ActiveVersions
  <2> QED
    BY <1>3, <2>1 DEF jobVars, PairedInv, RowsPaired, Bases, Replaces, Job
<1> QED
  BY <1>2, <1>3

\* When every version comes under one job id, the version that a commit
\* replaces is the one its job row names, so publish retires what the commit
\* deprecated and nothing else, whatever faults, crashes, takeovers and mistaken
\* recoveries there are.  (Under two job ids it need not be so: the lease carries
\* the version it named at its first claim into a job of a later base.)
THEOREM CommitReplacesPreviousHolds ==
    ASSUME Stamps = Nat, Paired
    PROVE  JobSpec => CommitReplacesPrevious
<1>1. JobInit => PairedInv
  <2> SUFFICES ASSUME JobInit PROVE PairedInv
    OBVIOUS
  <2>1. Live = {}
    BY DEF JobInit, Live, Idle
  <2>2. get_current_revision \in Nat
    BY JobInvariantInit, CurrentRevision DEF JobInv, IInv, RowsInv
  <2>3. \A r \in Requests : /\ jobs[r.job] = NoJob /\ builds[r.version] = NoBuild
    BY RequestTypes DEF JobInit, Init
  <2> QED
    BY <2>1, <2>2, <2>3 DEF PairedInv, RowsPaired, Bases, Replaces, NoJob, NoBuild
<1>2. JobInv /\ JobInv' /\ PairedInv /\ [JobNext]_jobVars
      => [\A v \in Versions :
             documents[v].status # "active" /\ documents'[v].status = "active"
                => jobs[builds[v].owner].previous = get_active_version]_jobVars
  <2> SUFFICES ASSUME JobInv, JobInv', PairedInv, JobNext, NEW v \in Versions,
                      documents[v].status # "active", documents'[v].status = "active"
               PROVE  jobs[builds[v].owner].previous = get_active_version
    OBVIOUS
  <2>1. PICK w \in Workers : Switches(w)
    <3>1. ActiveVersions' # ActiveVersions
      BY DEF ActiveVersions
    <3> QED
      BY <3>1, RevisionFacts
  <2>2. w \in Live
    BY <2>1 DEF Switches, Live
  <2>3. worker[w].request \in Requests /\ Version(w) \in Versions /\ Job(w) \in Jobs
    BY <2>2, LiveRequest
  <2>4. /\ SwitchActive(Version(w), get_current_revision + 1)
        /\ get_current_revision = jobs[Job(w)].base
    BY <2>1, SwitchFacts DEF CommitAccepted
  <2>5. v = Version(w)
    BY <2>3, <2>4, SwitchedRows DEF JobInv, IInv
  <2>6. worker[w].pc \in InLoop
    BY <2>1 DEF Switches, InLoop, InStep
  <2>7. builds[v].status # "absent" /\ builds[v].owner = Job(w)
    BY <2>2, <2>3, <2>5, <2>6 DEF PairedInv, RowsPaired, Job, Version
  <2>8. /\ jobs[Job(w)].previous = builds[v].previous
        /\ \/ jobs[Job(w)].base < get_current_revision
           \/ builds[v].previous = get_active_version
    BY <2>3, <2>5, <2>7 DEF PairedInv, Replaces, Job, Version
  <2> QED
    BY <2>4, <2>7, <2>8, RevisionMonotone
<1> QED
  BY <1>1, <1>2, PairedInvariantStep, JobInvariantHolds, PTL DEF JobSpec, CommitReplacesPrevious

-----------------------------------------------------------------------------
(* One execution builds a version until its commit.                        *)

\* A job id comes with one version and one content.
Pinned == \A r, s \in Requests : r.job = s.job => r.version = s.version /\ r.hash = s.hash

\* The execution has got the lease, now or before.
Acquired(w) == worker[w].generation # 0

Before == {"precheck", "owner", "short", "base", "acquire"}

\* The step that a place belongs to.
StepAt(place) ==
    CASE place = "write_parents" -> 1
      [] place \in {"write_qdrant", "write_chunks"} -> 2
      [] place = "verify" -> 3
      [] place \in {"commit", "switch"} -> 4
      [] place \in {"publish", "promote", "promote_parents", "retire_parents", "retire"} -> 5
      [] place = "finalize" -> 6

\* The job rows and the leases carry the deliveries they were made for.
Bindings ==
    /\ \A r \in Requests : jobs[r.job].status # "absent" =>
          jobs[r.job].version = r.version /\ jobs[r.job].hash = r.hash
    /\ \A v \in Versions : builds[v].status # "absent" =>
          \E r \in Requests : /\ r.version = v /\ builds[v].owner = r.job
                              /\ jobs[r.job].status # "absent"
    /\ \A v \in Versions : builds[v].status = "absent" => builds[v].owner = None

\* An attempt id belongs to one execution, and to a lease only once that
\* execution has acquired it; a version has one recovery at a time.
Attempted ==
    /\ \A u, w \in Live : worker[u].attempt = worker[w].attempt => u = w
    /\ \A w \in Live : ~Acquired(w) => \A v \in Versions : builds[v].attempt # worker[w].attempt
    /\ \A u, w \in Live :
          Version(u) = Version(w) /\ worker[u].recover /\ worker[w].recover => u = w

\* An execution is behind its acquire exactly when it has a token, works on a
\* step at its own places, and knows what it knows of the commit.
PlacedWell(w) ==
    /\ worker[w].pc \in Before <=> ~Acquired(w)
    /\ ~Acquired(w) => worker[w].step = 1
    /\ worker[w].pc \in InStep \ {"mark"} => worker[w].step = StepAt(worker[w].pc)
    /\ worker[w].pc \in {"owner", "short"} \/ worker[w].committed => Committed(Version(w))

InPlace == \A w \in Live : PlacedWell(w)

\* A lease is acquired with an owner that its job row agrees to.
LEMMA BindingsStep ==
    ASSUME Pinned, JobInv, Bindings, JobNext
    PROVE  Bindings'
<1>1. ASSUME NEW w \in Workers, Takes(w)
      PROVE  Bindings'
  <2>1. w \in Live /\ worker[w].request \in Requests /\ Version(w) \in Versions /\ Job(w) \in Jobs
    BY <1>1, TakeFacts, LiveRequest
  <2>2. /\ jobs'[Job(w)].status = "running" /\ jobs'[Job(w)].version = Version(w)
        /\ jobs'[Job(w)].hash = worker[w].request.hash
        /\ builds'[Version(w)].status = "running" /\ builds'[Version(w)].owner = Job(w)
    BY <1>1, TakenJob, TakenLease
  <2>3. /\ \A v \in Versions \ {Version(w)} : builds'[v] = builds[v]
        /\ \A j \in Jobs \ {Job(w)} : jobs'[j] = jobs[j]
    BY <1>1, TakeFacts
  <2>4. \A r \in Requests : r.job \in Jobs
    BY RequestTypes
  <2>5. \A r \in Requests : jobs'[r.job].status # "absent" =>
           jobs'[r.job].version = r.version /\ jobs'[r.job].hash = r.hash
    <3> SUFFICES ASSUME NEW r \in Requests, jobs'[r.job].status # "absent"
                 PROVE  jobs'[r.job].version = r.version /\ jobs'[r.job].hash = r.hash
      OBVIOUS
    <3>1. CASE r.job = Job(w)
      <4>1. r.version = Version(w) /\ r.hash = worker[w].request.hash
        BY <2>1, <3>1 DEF Pinned, Job, Version
      <4> QED
        BY <2>2, <3>1, <4>1
    <3>2. CASE r.job # Job(w)
      BY <2>3, <2>4, <3>2 DEF Bindings
    <3> QED
      BY <3>1, <3>2
  <2>6. \A v \in Versions : builds'[v].status # "absent" =>
           \E r \in Requests : /\ r.version = v /\ builds'[v].owner = r.job
                               /\ jobs'[r.job].status # "absent"
    <3> SUFFICES ASSUME NEW v \in Versions, builds'[v].status # "absent"
                 PROVE  \E r \in Requests : /\ r.version = v /\ builds'[v].owner = r.job
                                            /\ jobs'[r.job].status # "absent"
      OBVIOUS
    <3>1. CASE v = Version(w)
      BY <2>1, <2>2, <3>1 DEF Job, Version
    <3>2. CASE v # Version(w)
      <4>1. PICK r \in Requests : /\ r.version = v /\ builds[v].owner = r.job
                                  /\ jobs[r.job].status # "absent"
        BY <2>3, <3>2 DEF Bindings
      <4>2. jobs'[r.job].status # "absent"
        BY <2>2, <2>3, <2>4, <4>1
      <4> QED
        BY <2>3, <3>2, <4>1, <4>2
    <3> QED
      BY <3>1, <3>2
  <2>7. \A v \in Versions : builds'[v].status = "absent" => builds'[v].owner = None
    BY <2>2, <2>3 DEF Bindings
  <2> QED
    BY <2>5, <2>6, <2>7 DEF Bindings
<1>2. ASSUME NEW w \in Workers, Ends(w)
      PROVE  Bindings'
  <2>1. \A j \in Jobs : /\ jobs'[j].version = jobs[j].version /\ jobs'[j].hash = jobs[j].hash
                        /\ jobs'[j].status = "absent" <=> jobs[j].status = "absent"
    BY <1>2, EndFacts
  <2>2. \A v \in Versions : /\ builds'[v].owner = builds[v].owner
                            /\ builds'[v].status = "absent" <=> builds[v].status = "absent"
    BY <1>2, EndFacts
  <2>3. \A r \in Requests : r.job \in Jobs
    BY RequestTypes
  <2> QED
    BY <2>1, <2>2, <2>3 DEF Bindings
<1>3. ASSUME NEW w \in Workers, Switches(w) \/ Abandons(w) \/ UNCHANGED storeVars
      PROVE  Bindings'
  <2>1. UNCHANGED <<builds, jobs>>
    BY <1>3 DEF Switches, Abandons, commit_active_version, mark_document_failed, storeVars
  <2> QED
    BY <2>1 DEF Bindings
<1>4. UNCHANGED storeVars => Bindings'
  BY DEF Bindings, storeVars
<1> QED
  BY <1>1, <1>2, <1>3, <1>4, SystemTableSteps DEF Touches

\* So no delivery finds its job id taken by another one.
LEMMA IdentityHeld ==
    ASSUME JobInv, Bindings, NEW w \in Live
    PROVE  IdentityMatches(Job(w), Version(w), worker[w].request.hash)
BY LiveRequest DEF Bindings, IdentityMatches, Job, Version

\* Where the executions of the next state come from.
LEMMA LiveBefore ==
    ASSUME JobInv, JobNext, NEW u \in Live'
    PROVE  \/ Starts(u)
           \/ /\ u \in Live /\ Job(u)' = Job(u) /\ Version(u)' = Version(u)
              /\ worker'[u].request = worker[u].request
              /\ worker'[u].attempt = worker[u].attempt
              /\ worker'[u].recover = worker[u].recover
              /\ worker'[u].generation = worker[u].generation \/ Takes(u)
<1>1. u \in Workers /\ worker'[u].pc # "idle"
  BY DEF Live
<1>2. ASSUME NEW w \in Workers, Walk(w)
      PROVE  /\ worker[u].pc # "idle" /\ worker'[u].request = worker[u].request
             /\ worker'[u].attempt = worker[u].attempt
             /\ worker'[u].recover = worker[u].recover
             /\ worker'[u].generation = worker[u].generation \/ Takes(u)
  BY <1>1, <1>2 DEF Walk, Idle
<1>3. ASSUME NEW w \in Workers, Starts(w)
      PROVE  Starts(u) \/ worker'[u] = worker[u]
  BY <1>1, <1>3 DEF Starts
<1>4. Stops => worker'[u] = worker[u]
  BY <1>1 DEF Stops, Idle
<1> QED
  BY <1>1, <1>2, <1>3, <1>4, WorkerSteps DEF Live, Job, Version

\* A token is never 0.
LEMMA TakenToken ==
    ASSUME JobInv, NEW w \in Workers, Takes(w)
    PROVE  worker'[w].generation # 0 /\ worker'[w].pc = "next" /\ worker'[w].step = worker[w].step
<1>1. builds[Version(w)].generation \in Nat
  BY TakeFacts DEF JobInv, IInv, TypeOK, LeaseRow
<1>2. builds'[Version(w)].generation # 0
  BY <1>1, TakenLease
<1>3. worker[w] \in Execution /\ worker \in [Workers -> Execution]
  BY DEF JobInv, WorkersOK
<1> QED
  BY <1>2, <1>3 DEF Takes, Execution

\* Attempt ids stay apart, and a recovery stays alone.
LEMMA AttemptedStep ==
    ASSUME ~RecoverLive, JobInv, Attempted, JobNext
    PROVE  Attempted'
<1>1. ASSUME NEW u \in Live', NEW w \in Live', (worker[u].attempt)' = (worker[w].attempt)'
      PROVE  u = w
  <2>1. CASE Starts(u) /\ Starts(w)
    BY <2>1 DEF Starts, Live
  <2>2. CASE Starts(u) /\ ~Starts(w)
    <3>1. w \in Live /\ worker'[w].attempt = worker[w].attempt
      BY <2>2, LiveBefore
    <3> QED
      BY <1>1, <2>2, <3>1 DEF Starts, FreshAttempts, Live
  <2>3. CASE ~Starts(u) /\ Starts(w)
    <3>1. u \in Live /\ worker'[u].attempt = worker[u].attempt
      BY <2>3, LiveBefore
    <3> QED
      BY <1>1, <2>3, <3>1 DEF Starts, FreshAttempts, Live
  <2>4. CASE ~Starts(u) /\ ~Starts(w)
    BY <1>1, <2>4, LiveBefore DEF Attempted
  <2> QED
    BY <2>1, <2>2, <2>3, <2>4
<1>2. ASSUME NEW w \in Live', (~Acquired(w))', NEW v \in Versions
      PROVE  builds'[v].attempt # (worker[w].attempt)'
  <2>1. builds[v].attempt # (worker[w].attempt)'
    <3>1. CASE Starts(w)
      BY <3>1 DEF Starts, FreshAttempts
    <3>2. CASE ~Starts(w)
      <4>1. /\ w \in Live /\ worker'[w].attempt = worker[w].attempt
            /\ worker'[w].generation = worker[w].generation \/ Takes(w)
        BY <3>2, LiveBefore
      <4>2. ~Acquired(w)
        BY <1>2, <4>1, TakenToken DEF Acquired, Live
      <4> QED
        BY <4>1, <4>2 DEF Attempted
    <3> QED
      BY <3>1, <3>2
  <2>2. ASSUME NEW x \in Workers, Takes(x), v = Version(x)
        PROVE  builds'[v].attempt # (worker[w].attempt)'
    <3>1. builds'[v].attempt = worker[x].attempt
      BY <2>2, TakenLease
    <3>2. x \in Live /\ x # w
      BY <1>2, <2>2, TakeFacts, TakenToken DEF Acquired
    <3>3. CASE Starts(w)
      BY <3>1, <3>2, <3>3 DEF Starts, FreshAttempts, Live
    <3>4. CASE ~Starts(w)
      <4>1. w \in Live /\ worker'[w].attempt = worker[w].attempt
        BY <3>4, LiveBefore
      <4> QED
        BY <3>1, <3>2, <4>1 DEF Attempted
    <3> QED
      BY <3>3, <3>4
  <2>3. ASSUME NEW x \in Workers, Takes(x), v # Version(x)
        PROVE  builds'[v] = builds[v]
    <3>1. \A y \in Versions \ {Version(x)} : builds'[y] = builds[y]
      BY <2>3, TakeFacts
    <3> QED
      BY <2>3, <3>1
  <2>4. ASSUME NEW x \in Workers, Ends(x)
        PROVE  builds'[v].attempt = builds[v].attempt
    BY <2>4, EndFacts
  <2>5. ASSUME NEW x \in Workers, Switches(x) \/ Abandons(x)
        PROVE  builds' = builds
    BY <2>5 DEF Switches, Abandons, commit_active_version, mark_document_failed
  <2> QED
    BY <2>1, <2>2, <2>3, <2>4, <2>5, SystemTableSteps DEF Touches, storeVars
<1>3. ASSUME NEW u \in Live', NEW w \in Live', Version(u)' = Version(w)',
             (worker[u].recover)', (worker[w].recover)'
      PROVE  u = w
  <2>1. CASE Starts(u) /\ Starts(w)
    BY <2>1 DEF Starts, Live
  <2>2. CASE Starts(u) /\ ~Starts(w)
    <3>1. w \in Live /\ Version(w)' = Version(w)
      BY <2>2, LiveBefore
    <3>2. \A x \in Live : Version(x) # Version(u)'
      BY <1>3, <2>2 DEF Starts, RecoverAllowed, Version
    <3> QED
      BY <1>3, <3>1, <3>2
  <2>3. CASE ~Starts(u) /\ Starts(w)
    <3>1. u \in Live /\ Version(u)' = Version(u)
      BY <2>3, LiveBefore
    <3>2. \A x \in Live : Version(x) # Version(w)'
      BY <1>3, <2>3 DEF Starts, RecoverAllowed, Version
    <3> QED
      BY <1>3, <3>1, <3>2
  <2>4. CASE ~Starts(u) /\ ~Starts(w)
    BY <1>3, <2>4, LiveBefore DEF Attempted
  <2> QED
    BY <2>1, <2>2, <2>3, <2>4
<1> QED
  BY <1>1, <1>2, <1>3 DEF Attempted

\* Calls raise nowhere before the lease is held, and no attempt that is alive
\* is taken for a dead one.
Undisturbed == ~RecoverLive /\ "base" \notin FaultPoints /\ "acquire" \notin FaultPoints

\* Moving on inside a step keeps an execution where its step is.
LEMMA GotoPlaced ==
    ASSUME WorkersOK, NEW w \in Workers, worker[w].pc # "idle", PlacedWell(w),
           NEW place, Goto(w, place),
           place \in Before <=> worker[w].pc \in Before,
           place \in InStep \ {"mark"} =>
              worker[w].pc \in InStep \ {"mark"} /\ StepAt(place) = StepAt(worker[w].pc),
           place \in {"owner", "short"} => Committed(Version(w)),
           Committed(Version(w)) => Committed(Version(w))'
    PROVE  PlacedWell(w)'
<1>1. worker[w] \in Execution /\ worker \in [Workers -> Execution]
  BY DEF WorkersOK
<1>2. /\ worker'[w].pc = place /\ worker'[w].step = worker[w].step
      /\ worker'[w].generation = worker[w].generation
      /\ worker'[w].committed = worker[w].committed
  BY <1>1 DEF Goto, Execution
<1>3. Acquired(w)' <=> Acquired(w)
  BY <1>2 DEF Acquired
<1> QED
  BY <1>2, <1>3 DEF PlacedWell

\* Within a step the places follow one another, and its marker comes last.
LEMMA AdvancePlaced ==
    ASSUME Undisturbed, JobInv, Bindings, InPlace, JobNext,
           NEW w \in Workers, Advance(w) \/ Raise(w), worker'[w].pc # "idle"
    PROVE  PlacedWell(w)'
<1> USE DEF At
<1>0. /\ WorkersOK /\ worker \in [Workers -> Execution] /\ worker[w] \in Execution
      /\ worker[w].pc # "idle" /\ PlacedWell(w) /\ w \in Live
  <2>1. worker[w].pc # "idle"
    BY AdvanceWalks DEF Walk
  <2> QED
    BY <2>1 DEF JobInv, WorkersOK, InPlace, Live
<1>a. Committed(Version(w)) => Committed(Version(w))'
  <2>1. Version(w) \in Versions /\ Version(w)' = Version(w)
    BY <1>0, LiveRequest, AdvanceWalks DEF Walk, Idle, Version
  <2> QED
    BY <2>1, CommittedFacts DEF Committed
<1>b. ~Exit(w)
  BY <1>0 DEF Exit, Idle
<1>1. CASE Precheck(w)
  <2>1. /\ worker[w].pc = "precheck"
        /\ Goto(w, "owner") \/ Goto(w, "short") => Committed(Version(w))
        /\ Goto(w, "owner") \/ Goto(w, "short") \/ Goto(w, "base")
    <3>1. \/ documents[Version(w)].status = "active" /\ Goto(w, "owner")
          \/ documents[Version(w)].status = "deprecated" /\ Goto(w, "short")
          \/ Goto(w, "base")
      BY <1>1, <1>b DEF Precheck
    <3>2. Goto(w, "base") => ~Goto(w, "owner") /\ ~Goto(w, "short")
      BY <1>0 DEF Goto, Execution
    <3> QED
      BY <1>1, <3>1, <3>2 DEF Precheck, Committed
  <2> QED
    BY <1>0, <1>a, <2>1, GotoPlaced DEF Before, InStep
<1>2. CASE OwnerCheck(w)
  <2>1. /\ worker[w].pc = "owner"
        /\ Goto(w, "short") \/ Goto(w, "base")
    BY <1>2 DEF OwnerCheck
  <2>2. Committed(Version(w))
    BY <1>0, <2>1 DEF PlacedWell
  <2> QED
    BY <1>0, <1>a, <2>1, <2>2, GotoPlaced DEF Before, InStep
<1>3. CASE ReadBase(w)
  <2>1. /\ worker[w].pc = "base" /\ worker'[w].pc = "acquire"
        /\ worker'[w].step = worker[w].step
        /\ worker'[w].generation = worker[w].generation
        /\ worker'[w].committed = worker[w].committed
    BY <1>0, <1>3 DEF ReadBase, Execution
  <2>2. Acquired(w)' <=> Acquired(w)
    BY <2>1 DEF Acquired
  <2> QED
    BY <1>0, <1>a, <2>1, <2>2 DEF PlacedWell, Before, InStep
<1>4. CASE _step_acquire(w)
  <2>1. Takes(w)
    BY <1>0, <1>4, <1>b, IdentityHeld DEF _step_acquire, Takes, Job, Version
  <2>2. /\ worker'[w].generation # 0 /\ worker'[w].pc = "next"
        /\ worker'[w].committed = worker[w].committed
    BY <1>0, <2>1, TakenToken DEF Takes, Execution
  <2> QED
    BY <1>0, <1>a, <2>2 DEF PlacedWell, Before, InStep, Acquired
<1>5. CASE NextStep(w)
  <2> DEFINE todo == {k \in worker[w].step .. 6 : STEPS[k] \notin steps[Job(w)]}
             k == CHOOSE x \in todo : \A y \in todo : x <= y
  <2>1. todo # {}
    BY <1>5, <1>b DEF NextStep
  <2>2. k \in 1 .. 6
    <3>1. todo \in SUBSET (1 .. 6)
      BY <1>0 DEF Execution
    <3> QED
      BY <2>1, <3>1, LeastStep
  <2>3. worker' = [worker EXCEPT ![w].pc = STEPS[k], ![w].step = k] /\ worker[w].pc = "next"
    BY <1>5, <2>1 DEF NextStep
  <2> HIDE DEF k
  <2>4. /\ worker'[w].pc = STEPS[k] /\ worker'[w].step = k
        /\ worker'[w].generation = worker[w].generation
        /\ worker'[w].committed = worker[w].committed
    BY <1>0, <2>3 DEF Execution
  <2>5. STEPS[k] \notin Before /\ StepAt(STEPS[k]) = k
    <3>1. k = 1 \/ k = 2 \/ k = 3 \/ k = 4 \/ k = 5 \/ k = 6
      BY <2>2
    <3>2. \A i \in {1, 2, 3, 4, 5, 6} : STEPS[i] \notin Before /\ StepAt(STEPS[i]) = i
      BY DEF STEPS, Before, StepAt
    <3> QED
      BY <3>1, <3>2
  <2>6. Acquired(w)
    BY <1>0, <2>3 DEF PlacedWell, Before
  <2> QED
    BY <1>0, <1>a, <2>4, <2>5, <2>6 DEF PlacedWell, Acquired, Before
<1>6. CASE mark_step(w)
  <2>1. /\ worker[w].pc = "mark" /\ worker'[w].pc = "next"
        /\ worker'[w].generation = worker[w].generation
        /\ worker'[w].committed = worker[w].committed
    BY <1>0, <1>6 DEF mark_step, Execution
  <2> QED
    BY <1>0, <1>a, <2>1 DEF PlacedWell, Acquired, Before, InStep
<1>7. CASE _step_write_parents(w) \/ _step_write_qdrant(w) \/ _step_verify(w) \/ _step_finalize(w)
  <2>1. /\ worker[w].pc \in {"write_parents", "write_qdrant", "write_chunks", "verify", "finalize"}
        /\ \/ worker[w].pc = "write_qdrant" /\ Goto(w, "write_chunks")
           \/ Goto(w, "mark") \/ Goto(w, "handler")
    BY <1>7 DEF _step_write_parents, _step_write_qdrant, _step_verify, _step_finalize
  <2> QED
    BY <1>0, <1>a, <2>1, GotoPlaced DEF Before, InStep, StepAt
<1>8. CASE _step_commit(w)
  <2>1. \/ worker[w].pc = "commit" /\ Goto(w, "switch")
        \/ worker[w].pc = "switch" /\ Goto(w, "handler")
        \/ Switches(w)
    BY <1>8, <1>b DEF _step_commit, _assert_owns_build, Switches
  <2>2. CASE Switches(w)
    <3>1. /\ worker[w].pc = "switch" /\ worker'[w].pc = "mark"
          /\ worker'[w].generation = worker[w].generation
      BY <1>0, <2>2 DEF Switches, Execution
    <3>2. Committed(Version(w))'
      <4>1. Version(w)' = Version(w) /\ Version(w) \in Versions
        BY <1>0, LiveRequest, AdvanceWalks DEF Walk, Idle, Version
      <4>2. CASE UNCHANGED documents /\ documents[Version(w)].status = "active"
        BY <4>1, <4>2 DEF Committed
      <4>3. CASE SwitchActive(Version(w), get_current_revision + 1)
        BY <4>1, <4>3, SwitchedRows DEF Committed, JobInv, IInv
      <4> QED
        BY <2>2, <4>2, <4>3 DEF Switches, commit_active_version
    <3> QED
      BY <1>0, <3>1, <3>2 DEF PlacedWell, Acquired, Before, InStep
  <2> QED
    BY <1>0, <1>a, <2>1, <2>2, GotoPlaced DEF Before, InStep, StepAt
<1>9. CASE _step_publish(w)
  <2>1. /\ worker[w].pc \in {"publish", "promote", "promote_parents", "retire_parents", "retire"}
        /\ \/ Goto(w, "promote") \/ Goto(w, "promote_parents") \/ Goto(w, "mark")
           \/ Goto(w, "retire_parents") \/ Goto(w, "retire")
    BY <1>9, <1>b DEF _step_publish, _assert_owns_build
  <2> QED
    BY <1>0, <1>a, <2>1, GotoPlaced DEF Before, InStep, StepAt
<1>10. CASE _compensate(w)
  <2>1. /\ worker[w].pc \in {"handler", "undo_points", "undo_parents", "undo_chunks", "undo_steps",
                             "undo_row"}
        /\ \/ Goto(w, "undo_points") \/ Goto(w, "fail") \/ Goto(w, "undo_parents")
           \/ Goto(w, "undo_chunks") \/ Goto(w, "undo_steps") \/ Goto(w, "undo_row")
    BY <1>10 DEF _compensate
  <2> QED
    BY <1>0, <1>a, <2>1, GotoPlaced DEF Before, InStep
<1>11. CASE Raise(w)
  <2>1. worker[w].pc \notin Before /\ Goto(w, "handler")
    BY <1>11, <1>b DEF Raise, InTry, InHandler, Before, Undisturbed
  <2> QED
    BY <1>0, <1>a, <2>1, GotoPlaced DEF Before, InStep
<1>12. ~_short_circuit_already_indexed(w) /\ ~Fail(w)
  BY <1>b DEF _short_circuit_already_indexed, Fail
<1> QED
  BY <1>1, <1>2, <1>3, <1>4, <1>5, <1>6, <1>7, <1>8, <1>9, <1>10, <1>11, <1>12 DEF Advance

\* Every execution stays at a place of the step it is in.
LEMMA InPlaceStep ==
    ASSUME Undisturbed, JobInv, Bindings, InPlace, JobNext
    PROVE  InPlace'
<1> SUFFICES ASSUME NEW u \in Live' PROVE PlacedWell(u)'
  BY DEF InPlace
<1>1. u \in Workers /\ worker'[u].pc # "idle"
  BY DEF Live
<1>2. ASSUME worker'[u] = worker[u]
      PROVE  PlacedWell(u)'
  <2>1. u \in Live /\ Version(u) \in Versions
    BY <1>1, <1>2, LiveRequest DEF Live
  <2>2. PlacedWell(u) /\ Version(u)' = Version(u) /\ (Committed(Version(u)) => Committed(Version(u))')
    <3>1. Version(u)' = Version(u)
      BY <1>2 DEF Version
    <3> QED
      BY <2>1, <3>1, CommittedFacts DEF InPlace, Committed
  <2>3. Acquired(u)' <=> Acquired(u)
    BY <1>2 DEF Acquired
  <2> QED
    BY <1>2, <2>2, <2>3 DEF PlacedWell
<1>3. ASSUME NEW w \in Workers, Advance(w) \/ Raise(w), Walk(w)
      PROVE  PlacedWell(u)'
  <2>1. CASE u = w
    BY <1>1, <1>3, <2>1, AdvancePlaced
  <2>2. CASE u # w
    BY <1>1, <1>2, <1>3, <2>2 DEF Walk
  <2> QED
    BY <2>1, <2>2
<1>4. ASSUME NEW w \in Workers, Starts(w)
      PROVE  PlacedWell(u)'
  <2>1. CASE u = w
    BY <1>4, <2>1 DEF Starts, PlacedWell, Before, InStep, Acquired
  <2>2. CASE u # w
    BY <1>1, <1>2, <1>4, <2>2 DEF Starts
  <2> QED
    BY <2>1, <2>2
<1>5. Stops => PlacedWell(u)'
  BY <1>1, <1>2 DEF Stops, Idle
<1> QED
  BY <1>3, <1>4, <1>5, WorkerSteps

\* The execution holds the lease as the attempt that acquired it last.
Holds(w) ==
    /\ OwnsBuild(w)
    /\ builds[Version(w)].status = "running"
    /\ builds[Version(w)].attempt = worker[w].attempt

\* Until the commit of its version an execution that has acquired the lease
\* holds it ...
Holders == \A w \in Live : ~Committed(Version(w)) /\ Acquired(w) => Holds(w)

\* ... a recovery that has not, finds a lease that no live execution holds ...
Recoveries ==
    \A w \in Live : ~Committed(Version(w)) /\ ~Acquired(w) /\ worker[w].recover =>
        /\ builds[Version(w)].status = "running"
        /\ \A u \in Live : Version(u) = Version(w) => ~Acquired(u)

\* ... and nothing behind the commit is worked on or marked.
Unswitched ==
    /\ \A w \in Live : ~Committed(Version(w)) =>
          worker[w].step <= 4 /\ (worker[w].pc = "mark" => worker[w].step < 4)
    /\ \A r \in Requests : ~Committed(r.version) => "commit" \notin steps[r.job]

BuildInv == /\ Bindings /\ Attempted /\ InPlace
            /\ Holders /\ Recoveries /\ Unswitched

\* The lease of a build in flight is granted to the attempt that is on it and
\* to a recovery, nobody else.
LEMMA RunningLease ==
    ASSUME JobInv, Bindings, LeaseAgreesWithJob, NEW w \in Workers, Takes(w),
           builds[Version(w)].status = "running"
    PROVE  builds[Version(w)].attempt = worker[w].attempt \/ worker[w].recover
<1>1. /\ Version(w) \in Versions
      /\ LeaseGranted(Job(w), Version(w), worker[w].attempt, worker[w].recover)
  BY TakeFacts
<1>2. PICK r \in Requests : /\ r.version = Version(w) /\ builds[Version(w)].owner = r.job
                            /\ jobs[r.job].status # "absent"
  BY <1>1 DEF Bindings
<1>3. r.job \in Jobs /\ jobs[r.job].version = Version(w)
  BY <1>2, RequestTypes DEF Bindings
<1>4. jobs[r.job].status = "running"
  BY <1>1, <1>2, <1>3 DEF LeaseAgreesWithJob
<1>5. get_job_status(builds[Version(w)].owner) = "running"
  BY <1>2, <1>3, <1>4, NoneAssumption DEF get_job_status
<1> QED
  BY <1>1, <1>5 DEF LeaseGranted, InFlight

\* So before the commit it is acquired only when no execution has it and no
\* other recovery waits for it.
LEMMA ExclusiveTake ==
    ASSUME JobInv, BuildInv, LeaseAgreesWithJob,
           NEW w \in Workers, Takes(w), ~Committed(Version(w)),
           NEW u \in Live, Version(u) = Version(w)
    PROVE  ~Acquired(u) /\ (worker[u].recover => u = w)
<1> USE DEF BuildInv
<1>1. w \in Live /\ Version(w) \in Versions
  BY TakeFacts
<1>2. ~Acquired(w)
  BY <1>1 DEF InPlace, PlacedWell, Takes, Before
<1>3. ~Acquired(u)
  <2> SUFFICES ASSUME Acquired(u) PROVE FALSE
    OBVIOUS
  <2>1. builds[Version(w)].status = "running" /\ builds[Version(w)].attempt = worker[u].attempt
    BY DEF Holders, Holds
  <2>2. builds[Version(w)].attempt # worker[w].attempt
    BY <1>1, <1>2 DEF Attempted
  <2>3. worker[w].recover
    BY <2>1, <2>2, RunningLease
  <2> QED
    BY <1>1, <1>2, <2>3 DEF Recoveries
<1>4. ASSUME worker[u].recover PROVE u = w
  <2>1. builds[Version(w)].status = "running"
    BY <1>3, <1>4 DEF Recoveries
  <2>2. builds[Version(w)].attempt # worker[w].attempt
    BY <1>1, <1>2 DEF Attempted
  <2>3. worker[w].recover
    BY <2>1, <2>2, RunningLease
  <2> QED
    BY <1>1, <1>4, <2>3 DEF Attempted
<1> QED
  BY <1>3, <1>4

\* Only the failure of its own execution ends the job of an uncommitted build.
LEMMA UncommittedEnd ==
    ASSUME JobInv, BuildInv, Pinned, NEW w \in Workers, Ends(w),
           NEW v \in Versions, ~Committed(v), builds[v].status # "absent",
           builds[v].owner = Job(w)
    PROVE  worker[w].pc = "fail" /\ Version(w) = v /\ Acquired(w) /\ Holds(w)
<1> USE DEF BuildInv
<1>1. w \in Live /\ worker[w].request \in Requests
  BY EndFacts, LiveRequest
<1>2. Version(w) = v
  BY <1>1 DEF Bindings, Pinned, Job, Version
<1>3. worker[w].pc # "short"
  BY <1>1, <1>2 DEF InPlace, PlacedWell
<1>4. worker[w].pc # "finalize"
  BY <1>1, <1>2 DEF InPlace, PlacedWell, StepAt, InStep, Unswitched
<1>5. worker[w].pc = "fail"
  BY <1>3, <1>4 DEF Ends
<1>6. Acquired(w)
  BY <1>1, <1>5 DEF InPlace, PlacedWell, Before
<1> QED
  BY <1>1, <1>2, <1>5, <1>6 DEF Holders

\* The last statement of a failed run leaves it.
LEMMA FailExits ==
    ASSUME JobInv, NEW w \in Workers, Advance(w), worker[w].pc = "fail"
    PROVE  worker'[w].pc = "idle"
<1>1. Fail(w)
  BY DEF Advance, At, Precheck, OwnerCheck, _short_circuit_already_indexed, ReadBase,
         _step_acquire, NextStep, mark_step, _step_write_parents, _step_write_qdrant,
         _step_verify, _step_commit, _step_publish, _step_finalize, _compensate
<1> QED
  BY <1>1 DEF Fail, Exit, Idle, JobInv, WorkersOK

\* Two executions that hold the lease of one version are one.
LEMMA OneHolder ==
    ASSUME JobInv, NEW u \in Live, NEW w \in Live, Version(u) = Version(w),
           OwnsBuild(u), OwnsBuild(w), Acquired(u)
    PROVE  u = w
BY DEF JobInv, Tokens, OwnsBuild, get_lease_generation, Acquired

\* Before the commit an execution that acquired the lease keeps it.
LEMMA HoldersStep ==
    ASSUME Pinned, JobInv, BuildInv, LeaseAgreesWithJob, JobNext
    PROVE  Holders'
<1> SUFFICES ASSUME NEW u \in Live', ~Committed(Version(u))', Acquired(u)'
             PROVE  Holds(u)'
  BY DEF Holders
<1>1. u \in Workers /\ ~Starts(u)
  BY DEF Live, Starts, Acquired
<1>2. /\ u \in Live /\ Job(u)' = Job(u) /\ Version(u)' = Version(u)
      /\ worker'[u].attempt = worker[u].attempt
      /\ worker'[u].generation = worker[u].generation \/ Takes(u)
  BY <1>1, LiveBefore
<1>3. Version(u) \in Versions /\ Job(u) \in Jobs /\ worker[u].request \in Requests
  BY <1>2, LiveRequest
<1>4. ~Committed(Version(u))
  BY <1>2, <1>3, CommittedFacts DEF Committed
<1>5. CASE Takes(u)
  <2>1. /\ builds'[Version(u)].status = "running" /\ builds'[Version(u)].owner = Job(u)
        /\ builds'[Version(u)].attempt = worker[u].attempt
    BY <1>1, <1>5, TakenLease
  <2>2. worker'[u].generation = builds'[Version(u)].generation
    BY <1>1, <1>5 DEF Takes, JobInv, WorkersOK, Execution
  <2> QED
    BY <1>2, <2>1, <2>2 DEF Holds, OwnsBuild, get_build_owner, get_lease_generation
<1>6. CASE ~Takes(u)
  <2>1. Acquired(u) /\ Holds(u)
    BY <1>2, <1>4, <1>6 DEF Acquired, BuildInv, Holders
  <2>2. ASSUME builds'[Version(u)] = builds[Version(u)]
        PROVE  Holds(u)'
    <3>1. worker'[u].generation = worker[u].generation
      BY <1>2, <1>6
    <3> QED
      BY <1>2, <2>1, <2>2, <3>1 DEF Holds, OwnsBuild, get_build_owner, get_lease_generation
  <2>3. ASSUME NEW x \in Workers, Takes(x)
        PROVE  builds'[Version(u)] = builds[Version(u)]
    <3>1. Version(x) # Version(u)
      BY <1>2, <1>4, <2>1, <2>3, ExclusiveTake
    <3>2. \A v \in Versions \ {Version(x)} : builds'[v] = builds[v]
      BY <2>3, TakeFacts
    <3> QED
      BY <1>3, <3>1, <3>2
  <2>4. ASSUME NEW x \in Workers, Advance(x), Ends(x)
        PROVE  builds'[Version(u)] = builds[Version(u)]
    <3>1. builds[Version(u)].owner = Job(u) /\ builds[Version(u)].status # "absent"
      BY <2>1 DEF Holds, OwnsBuild, get_build_owner
    <3>2. Job(x) # Job(u)
      <4> SUFFICES ASSUME Job(x) = Job(u) PROVE FALSE
        OBVIOUS
      <4>1. worker[x].pc = "fail" /\ Version(x) = Version(u) /\ Holds(x) /\ x \in Live
        BY <1>3, <1>4, <2>4, <3>1, UncommittedEnd, EndFacts
      <4>2. u = x
        BY <1>2, <2>1, <4>1, OneHolder DEF Holds
      <4> QED
        BY <2>4, <4>1, <4>2, FailExits DEF Live
    <3> QED
      BY <1>3, <2>4, <3>1, <3>2, EndFacts
  <2>5. ASSUME NEW x \in Workers, Switches(x) \/ Abandons(x)
        PROVE  builds' = builds
    BY <2>5 DEF Switches, Abandons, commit_active_version, mark_document_failed
  <2> QED
    BY <2>2, <2>3, <2>4, <2>5, SystemTableSteps DEF Touches, storeVars
<1> QED
  BY <1>5, <1>6

\* Before the commit a recovery finds its lease running and nobody else building.
LEMMA RecoveriesStep ==
    ASSUME ~RecoverLive, Pinned, JobInv, BuildInv, LeaseAgreesWithJob, JobNext
    PROVE  Recoveries'
<1> SUFFICES ASSUME NEW u \in Live', ~Committed(Version(u))', ~Acquired(u)', (worker[u].recover)'
             PROVE  /\ (builds[Version(u)].status)' = "running"
                    /\ \A x \in Live' : Version(x)' = Version(u)' => ~Acquired(x)'
  BY DEF Recoveries
<1>0. u \in Workers /\ worker'[u].pc # "idle"
  BY DEF Live
<1>1. CASE Starts(u)
  <2>1. /\ builds[Version(u)'].status = "running"
        /\ \A x \in Live : Version(x) # Version(u)'
    BY <1>1 DEF Starts, RecoverAllowed, Version
  <2>2. UNCHANGED storeVars
    <3>1. ASSUME NEW w \in Workers, Walk(w) PROVE FALSE
      BY <1>0, <1>1, <3>1 DEF Walk, Starts, Idle
    <3> QED
      BY <3>1, WorkerSteps
  <2>3. ASSUME NEW x \in Live', Version(x)' = Version(u)', Acquired(x)'
        PROVE  FALSE
    <3>1. ~Starts(x)
      BY <2>3 DEF Starts, Acquired
    <3>2. x \in Live /\ Version(x)' = Version(x)
      BY <3>1, LiveBefore
    <3> QED
      BY <2>1, <2>3, <3>2
  <2> QED
    BY <2>1, <2>2, <2>3 DEF storeVars
<1>2. CASE ~Starts(u)
  <2>1. /\ u \in Live /\ Job(u)' = Job(u) /\ Version(u)' = Version(u)
        /\ worker'[u].recover = worker[u].recover
        /\ worker'[u].generation = worker[u].generation \/ Takes(u)
    BY <1>2, LiveBefore
  <2>2. Version(u) \in Versions /\ worker[u].request \in Requests
    BY <2>1, LiveRequest
  <2>3. ~Committed(Version(u))
    BY <2>1, <2>2, CommittedFacts DEF Committed
  <2>4. ~Takes(u) /\ ~Acquired(u)
    BY <1>0, <2>1, TakenToken DEF Acquired
  <2>5. /\ builds[Version(u)].status = "running"
        /\ \A x \in Live : Version(x) = Version(u) => ~Acquired(x)
    BY <2>1, <2>3, <2>4 DEF BuildInv, Recoveries
  <2>6. ASSUME NEW x \in Workers, Takes(x)
        PROVE  Version(x) # Version(u)
    BY <2>1, <2>3, <2>4, <2>6, ExclusiveTake
  <2>7. builds'[Version(u)] = builds[Version(u)]
    <3>1. ASSUME NEW x \in Workers, Takes(x)
          PROVE  builds'[Version(u)] = builds[Version(u)]
      <4>1. \A v \in Versions \ {Version(x)} : builds'[v] = builds[v]
        BY <3>1, TakeFacts
      <4> QED
        BY <2>2, <2>6, <3>1, <4>1
    <3>2. ASSUME NEW x \in Workers, Ends(x)
          PROVE  builds'[Version(u)] = builds[Version(u)]
      <4>1. x \in Live
        BY <3>2, EndFacts
      <4>2. builds[Version(u)].owner # Job(x)
        BY <2>2, <2>3, <2>5, <3>2, <4>1, UncommittedEnd
      <4> QED
        BY <2>2, <3>2, <4>2, EndFacts
    <3>3. ASSUME NEW x \in Workers, Switches(x) \/ Abandons(x)
          PROVE  builds' = builds
      BY <3>3 DEF Switches, Abandons, commit_active_version, mark_document_failed
    <3> QED
      BY <3>1, <3>2, <3>3, SystemTableSteps DEF Touches, storeVars
  <2>8. ASSUME NEW x \in Live', Version(x)' = Version(u)', Acquired(x)'
        PROVE  FALSE
    <3>1. ~Starts(x)
      BY <2>8 DEF Starts, Acquired
    <3>2. /\ x \in Live /\ Version(x)' = Version(x) /\ x \in Workers
          /\ worker'[x].generation = worker[x].generation \/ Takes(x)
      BY <3>1, LiveBefore DEF Live
    <3> QED
      BY <2>1, <2>5, <2>6, <2>8, <3>2 DEF Acquired
  <2> QED
    BY <2>1, <2>5, <2>7, <2>8
<1> QED
  BY <1>1, <1>2

\* The markers are added by mark_step and cleared by the compensation.
LEMMA MarkerSteps ==
    ASSUME JobInv, JobNext
    PROVE  \/ steps' = steps
           \/ \E w \in Workers : mark_step(w)
           \/ \E w \in Workers : worker[w].pc = "undo_steps" /\ clear_steps(Job(w))
<1>1. ASSUME NEW w \in Workers, Advance(w), ~mark_step(w)
      PROVE  steps' = steps \/ (worker[w].pc = "undo_steps" /\ clear_steps(Job(w)))
  <2>1. CASE _compensate(w)
    BY <2>1 DEF _compensate, planes, At
  <2>2. CASE _step_publish(w) \/ _step_commit(w) \/ _step_write_qdrant(w) \/ _step_write_parents(w)
    BY <2>2 DEF _step_publish, _step_commit, _step_write_qdrant, _step_write_parents,
                _assert_owns_build, planes
  <2>3. CASE \/ Precheck(w) \/ OwnerCheck(w) \/ _short_circuit_already_indexed(w)
             \/ ReadBase(w) \/ _step_acquire(w) \/ NextStep(w)
             \/ _step_verify(w) \/ _step_finalize(w) \/ Fail(w)
    BY <2>3 DEF Precheck, OwnerCheck, _short_circuit_already_indexed, ReadBase, _step_acquire,
                NextStep, _step_verify, _step_finalize, Fail, planes
  <2> QED
    BY <1>1, <2>1, <2>2, <2>3 DEF Advance
<1>2. ASSUME NEW w \in Workers, Deliver(w) \/ Raise(w)
      PROVE  steps' = steps
  BY <1>2 DEF Deliver, run, Raise, planes
<1>3. ASSUME NEW p \in Procs, Crash(p)
      PROVE  steps' = steps
  BY <1>3 DEF Crash
<1> QED
  BY <1>1, <1>2, <1>3 DEF JobNext

\* A marker is due at the end of a step.
LEMMA MarkPlaces ==
    ASSUME JobInv, NEW w \in Workers, Advance(w) \/ Raise(w), worker'[w].pc = "mark"
    PROVE  \/ Switches(w)
           \/ /\ worker[w].pc \in {"write_parents", "write_chunks", "verify", "promote_parents",
                                   "retire", "finalize"}
              /\ worker'[w].step = worker[w].step
<1> USE DEF At
<1>0. worker \in [Workers -> Execution] /\ worker[w] \in Execution
  BY DEF JobInv, WorkersOK
<1>1. ~Exit(w) /\ \A place : Goto(w, place) => place = "mark" /\ worker'[w].step = worker[w].step
  BY <1>0 DEF Exit, Idle, Goto, Execution
<1>2. CASE Precheck(w) \/ OwnerCheck(w) \/ _short_circuit_already_indexed(w) \/ Fail(w) \/ Raise(w)
  BY <1>1, <1>2 DEF Precheck, OwnerCheck, _short_circuit_already_indexed, Fail, Raise
<1>3. CASE ReadBase(w) \/ mark_step(w)
  BY <1>0, <1>3 DEF ReadBase, mark_step, Execution
<1>4. CASE _step_acquire(w)
  <2>1. ~Takes(w)
    BY <1>0 DEF Takes, Execution
  <2> QED
    BY <1>1, <1>4, <2>1 DEF _step_acquire, Takes, Job, Version
<1>5. CASE NextStep(w)
  <2> DEFINE todo == {k \in worker[w].step .. 6 : STEPS[k] \notin steps[Job(w)]}
             k == CHOOSE x \in todo : \A y \in todo : x <= y
  <2>1. todo # {}
    BY <1>1, <1>5 DEF NextStep
  <2>2. k \in 1 .. 6
    <3>1. todo \in SUBSET (1 .. 6)
      BY <1>0 DEF Execution
    <3> QED
      BY <2>1, <3>1, LeastStep
  <2>3. worker' = [worker EXCEPT ![w].pc = STEPS[k], ![w].step = k]
    BY <1>5, <2>1 DEF NextStep
  <2> HIDE DEF k
  <2>4. worker'[w].pc = STEPS[k]
    BY <1>0, <2>3 DEF Execution
  <2>5. STEPS[k] # "mark"
    <3>1. k = 1 \/ k = 2 \/ k = 3 \/ k = 4 \/ k = 5 \/ k = 6
      BY <2>2
    <3>2. \A i \in {1, 2, 3, 4, 5, 6} : STEPS[i] # "mark"
      BY DEF STEPS
    <3> QED
      BY <3>1, <3>2
  <2> QED
    BY <2>4, <2>5
<1>6. CASE _step_write_parents(w) \/ _step_write_qdrant(w) \/ _step_verify(w) \/ _step_finalize(w)
  BY <1>1, <1>6 DEF _step_write_parents, _step_write_qdrant, _step_verify, _step_finalize
<1>7. CASE _step_commit(w)
  BY <1>1, <1>7 DEF _step_commit, _assert_owns_build, Switches
<1>8. CASE _step_publish(w) \/ _compensate(w)
  BY <1>1, <1>8 DEF _step_publish, _assert_owns_build, _compensate
<1> QED
  BY <1>2, <1>3, <1>4, <1>5, <1>6, <1>7, <1>8 DEF Advance

\* Before the switch nobody is past the commit step, and no marker says otherwise.
LEMMA UnswitchedStep ==
    ASSUME Undisturbed, Pinned, JobInv, JobInv', BuildInv, InPlace', JobNext
    PROVE  Unswitched'
<1> USE DEF BuildInv
<1>1. ASSUME NEW u \in Live', ~Committed(Version(u))'
      PROVE  (worker[u].step)' <= 4 /\ ((worker[u].pc)' = "mark" => (worker[u].step)' < 4)
  <2>0. u \in Workers /\ worker'[u].pc # "idle"
    BY DEF Live
  <2>1. CASE Starts(u)
    BY <2>1 DEF Starts
  <2>2. ASSUME worker'[u] = worker[u]
        PROVE  worker'[u].step <= 4 /\ (worker'[u].pc = "mark" => worker'[u].step < 4)
    <3>1. u \in Live /\ Version(u)' = Version(u) /\ Version(u) \in Versions
      BY <2>0, <2>2, LiveRequest DEF Live, Version
    <3>2. ~Committed(Version(u))
      BY <1>1, <3>1, CommittedFacts DEF Committed
    <3> QED
      BY <2>2, <3>1, <3>2 DEF Unswitched
  <2>3. ASSUME Walk(u), Advance(u) \/ Raise(u)
        PROVE  worker'[u].step <= 4 /\ (worker'[u].pc = "mark" => worker'[u].step < 4)
    <3>1. /\ u \in Live /\ Version(u)' = Version(u) /\ Version(u) \in Versions
          /\ worker[u] \in Execution /\ worker[u].request \in Requests
      BY <2>0, <2>3, LiveRequest DEF Walk, Idle, Live, Version
    <3>2. ~Committed(Version(u))
      BY <1>1, <3>1, CommittedFacts DEF Committed
    <3>3. /\ worker[u].step <= 4 /\ (worker[u].pc = "mark" => worker[u].step < 4)
          /\ "commit" \notin steps[Job(u)] /\ worker[u].step \in 1 .. 7 /\ PlacedWell(u)
      BY <3>1, <3>2 DEF Unswitched, InPlace, Execution, Version, Job
    <3>4. CASE NextStep(u)
      <4> DEFINE todo == {k \in worker[u].step .. 6 : STEPS[k] \notin steps[Job(u)]}
                 k == CHOOSE x \in todo : \A y \in todo : x <= y
      <4>1. 4 \in todo
        BY <3>3 DEF STEPS
      <4>2. todo \in SUBSET (1 .. 6)
        BY <3>3
      <4>3. k \in 1 .. 6 /\ k <= 4
        BY <4>1, <4>2, LeastStep
      <4>4. worker' = [worker EXCEPT ![u].pc = STEPS[k], ![u].step = k]
        BY <3>4, <4>1 DEF NextStep
      <4> HIDE DEF k
      <4>5. worker'[u].pc = STEPS[k] /\ worker'[u].step = k
        BY <3>1, <4>4 DEF Execution, JobInv, WorkersOK
      <4>6. STEPS[k] # "mark"
        <5>1. k = 1 \/ k = 2 \/ k = 3 \/ k = 4
          BY <4>3
        <5>2. \A i \in {1, 2, 3, 4} : STEPS[i] # "mark"
          BY DEF STEPS
        <5> QED
          BY <5>1, <5>2
      <4> QED
        BY <4>3, <4>5, <4>6
    <3>5. CASE mark_step(u)
      <4>1. worker[u].pc = "mark" /\ worker'[u].pc = "next" /\ worker'[u].step = worker[u].step + 1
        BY <3>1, <3>5 DEF mark_step, At, Execution, JobInv, WorkersOK
      <4> QED
        BY <3>3, <4>1
    <3>6. CASE ~NextStep(u) /\ ~mark_step(u)
      <4>1. worker'[u].step = worker[u].step
        BY <2>0, <2>3, <3>6 DEF Walk, Idle
      <4>2. ASSUME worker'[u].pc = "mark" PROVE worker[u].step < 4
        <5>1. ~Switches(u)
          <6> SUFFICES ASSUME Switches(u) PROVE FALSE
            OBVIOUS
          <6>1. worker'[u].committed = TRUE
            BY <3>1 DEF Switches, Execution, JobInv, WorkersOK
          <6> QED
            BY <1>1, <6>1 DEF InPlace, PlacedWell
        <5>2. worker[u].pc \in {"write_parents", "write_chunks", "verify", "promote_parents",
                                "retire", "finalize"}
          BY <2>0, <2>3, <4>2, <5>1, MarkPlaces
        <5>3. worker[u].step = StepAt(worker[u].pc)
          BY <3>3, <5>2 DEF PlacedWell, InStep
        <5> QED
          BY <3>3, <5>2, <5>3 DEF StepAt
      <4> QED
        BY <3>3, <4>1, <4>2
    <3> QED
      BY <3>4, <3>5, <3>6
  <2>4. ASSUME NEW w \in Workers, Walk(w), Advance(w) \/ Raise(w)
        PROVE  worker'[u].step <= 4 /\ (worker'[u].pc = "mark" => worker'[u].step < 4)
    <3>1. CASE u = w
      BY <2>3, <2>4, <3>1
    <3>2. CASE u # w
      BY <2>0, <2>2, <2>4, <3>2 DEF Walk
    <3> QED
      BY <3>1, <3>2
  <2>5. ASSUME NEW w \in Workers, Starts(w)
        PROVE  worker'[u].step <= 4 /\ (worker'[u].pc = "mark" => worker'[u].step < 4)
    BY <2>0, <2>1, <2>2, <2>5 DEF Starts
  <2>6. Stops => worker'[u] = worker[u]
    BY <2>0 DEF Stops, Idle
  <2> QED
    BY <2>2, <2>4, <2>5, <2>6, WorkerSteps
<1>2. ASSUME NEW r \in Requests, ~Committed(r.version)'
      PROVE  "commit" \notin steps'[r.job]
  <2>0. r.job \in Jobs /\ r.version \in Versions /\ steps \in [Jobs -> SUBSET Markers]
    BY RequestTypes DEF JobInv, PlanesOK
  <2>1. ~Committed(r.version) /\ "commit" \notin steps[r.job]
    BY <1>2, <2>0, CommittedFacts DEF Unswitched, Committed
  <2>2. ASSUME NEW w \in Workers, mark_step(w)
        PROVE  "commit" \notin steps'[r.job]
    <3>1. w \in Live /\ worker[w].pc = "mark"
      BY <2>2 DEF mark_step, At, Live
    <3>2. worker[w].request \in Requests /\ Job(w) \in Jobs
      BY <3>1, LiveRequest
    <3>3. CASE Job(w) = r.job
      <4>1. ~Committed(Version(w))
        BY <2>1, <3>2, <3>3 DEF Pinned, Job, Version
      <4>2. worker[w].step < 4 /\ worker[w].step \in 1 .. 7
        BY <3>1, <4>1, LiveRequest DEF Unswitched, Execution
      <4>3. STEPS[worker[w].step] # "commit"
        <5>1. worker[w].step = 1 \/ worker[w].step = 2 \/ worker[w].step = 3
          BY <4>2
        <5>2. \A i \in {1, 2, 3} : STEPS[i] # "commit"
          BY DEF STEPS
        <5> QED
          BY <5>1, <5>2
      <4>4. steps'[r.job] = steps[r.job] \cup {STEPS[worker[w].step]}
        BY <2>0, <2>2, <3>3 DEF mark_step
      <4> QED
        BY <2>1, <4>3, <4>4
    <3>4. CASE Job(w) # r.job
      BY <2>0, <2>1, <2>2, <3>4 DEF mark_step
    <3> QED
      BY <3>3, <3>4
  <2>3. ASSUME NEW w \in Workers, clear_steps(Job(w))
        PROVE  "commit" \notin steps'[r.job]
    BY <2>0, <2>1, <2>3 DEF clear_steps
  <2> QED
    BY <2>1, <2>2, <2>3, MarkerSteps
<1> QED
  BY <1>1, <1>2 DEF Unswitched

\* The invariant behind OneBuildBeforeCommit is inductive.
LEMMA BuildInvariantStep ==
    ASSUME Stamps = Nat, Undisturbed, Pinned
    PROVE  JobInv /\ LeaseAgreesWithJob /\ BuildInv /\ [JobNext]_jobVars => BuildInv'
<1> SUFFICES ASSUME JobInv, LeaseAgreesWithJob, BuildInv, [JobNext]_jobVars PROVE BuildInv'
  OBVIOUS
<1>1. JobInv'
  BY JobInvariantStep
<1>2. CASE JobNext
  <2>1. InPlace'
    BY <1>2, InPlaceStep DEF BuildInv
  <2>2. Bindings' /\ Attempted' /\ Holders' /\ Recoveries'
    BY <1>2, BindingsStep, AttemptedStep, HoldersStep, RecoveriesStep DEF BuildInv, Undisturbed
  <2> QED
    BY <1>1, <1>2, <2>1, <2>2, UnswitchedStep DEF BuildInv
<1>3. CASE UNCHANGED jobVars
  BY <1>3 DEF jobVars, BuildInv, Bindings, Attempted, InPlace, PlacedWell, Acquired, Holders,
              Holds, OwnsBuild, get_build_owner, get_lease_generation, Recoveries, Unswitched,
              Committed, Live, Version, Job
<1> QED
  BY <1>2, <1>3

\* The inductive invariant of the builds.
LEMMA BuildInvariantHolds ==
    ASSUME Stamps = Nat, Undisturbed, Pinned
    PROVE  JobSpec => [](JobInv /\ LeaseAgreesWithJob /\ BuildInv)
<1>1. JobInit => BuildInv
  <2> SUFFICES ASSUME JobInit PROVE BuildInv
    OBVIOUS
  <2>1. Live = {}
    BY DEF JobInit, Live, Idle
  <2>2. \A r \in Requests : jobs[r.job] = NoJob /\ steps[r.job] = {}
    BY RequestTypes DEF JobInit, Init
  <2>3. \A v \in Versions : builds[v] = NoBuild
    BY DEF JobInit, Init
  <2> QED
    BY <2>1, <2>2, <2>3 DEF BuildInv, Bindings, Attempted, InPlace, Holders, Recoveries,
                            Unswitched, NoJob, NoBuild
<1>2. JobSpec => []LeaseAgreesWithJob
  BY JobImplementsStore, LeaseAgreesWithJobHolds
<1> QED
  BY <1>1, <1>2, BuildInvariantStep, JobInvariantHolds, PTL DEF JobSpec

\* For any number of workers and processes and any deliveries that keep a job id
\* to one version, with crashes at any point and faults at every call behind the
\* acquire, the handler included: before its commit a version is built by one
\* execution, and the job row of a build in flight says that it runs, so nobody
\* is granted its lease.  (A fault of the acquire in a duplicate, or a recovery
\* of an attempt that is alive, ends the job under the build.)
THEOREM OneBuildBeforeCommitHolds ==
    ASSUME Stamps = Nat, Undisturbed, Pinned
    PROVE  JobSpec => []OneBuildBeforeCommit
<1>1. JobInv /\ LeaseAgreesWithJob /\ BuildInv => OneBuildBeforeCommit
  <2> SUFFICES ASSUME JobInv, LeaseAgreesWithJob, BuildInv, NEW u \in Live, NEW w \in Live,
                      Version(u) = Version(w), Uncommitted(Version(w)), Building(w)
               PROVE  /\ Building(u) => u = w
                      /\ OwnsBuild(w) => jobs[Job(w)].status = "running"
    BY DEF OneBuildBeforeCommit
  <2>1. ~Committed(Version(w))
    BY DEF Uncommitted, Committed
  <2>2. \A x \in Live : Building(x) => Acquired(x)
    BY DEF BuildInv, InPlace, PlacedWell, Before, Building
  <2>3. Acquired(w) /\ Holds(w)
    BY <2>1, <2>2 DEF BuildInv, Holders
  <2>4. Building(u) => u = w
    BY <2>1, <2>2, <2>3, OneHolder DEF BuildInv, Holders, Holds
  <2>5. jobs[Job(w)].status = "running"
    <3>1. /\ Version(w) \in Versions /\ builds[Version(w)].status = "running"
          /\ builds[Version(w)].owner = Job(w)
      BY <2>3, LiveRequest DEF Holds, OwnsBuild, get_build_owner
    <3>2. PICK r \in Requests : /\ r.version = Version(w) /\ builds[Version(w)].owner = r.job
                                /\ jobs[r.job].status # "absent"
      BY <3>1 DEF BuildInv, Bindings
    <3>3. jobs[Job(w)].version = Version(w)
      BY <3>1, <3>2 DEF BuildInv, Bindings
    <3> QED
      BY <3>1, <3>3 DEF LeaseAgreesWithJob
  <2> QED
    BY <2>4, <2>5
<1> QED
  BY <1>1, BuildInvariantHolds, PTL

-----------------------------------------------------------------------------
(* What a commit makes visible is complete.                                *)

\* No process crashes, and no call raises inside the exception handler.
Compensated == MaxCrashes = 0 /\ FaultPoints \cap InHandler = {}

\* The execution is past step k.
Done(w, k) == worker[w].step > k \/ (worker[w].step = k /\ worker[w].pc = "mark")

\* The markers of a job whose version is not committed belong to an execution
\* that is under way: whoever comes after it starts from scratch.
Cleared ==
    \A r \in Requests : ~Committed(r.version) /\ steps[r.job] # {} =>
        \E w \in Live : Job(w) = r.job /\ Acquired(w)

\* What such an execution has done is there, and no marker is ahead of it.
Built(w) ==
    /\ worker[w].pc \in {"undo_row", "fail"} => steps[Job(w)] = {}
    /\ worker[w].pc \in InTry =>
         /\ \A k \in 1 .. 6 : STEPS[k] \in steps[Job(w)] => k < worker[w].step
         /\ Done(w, 1) => parents[ProcOf[w]][Version(w)] # "none"
         /\ Done(w, 2) => points[Version(w)] = "processing" /\ chunks[Version(w)]
         /\ worker[w].pc = "write_chunks" => points[Version(w)] = "processing"

Builds == \A w \in Live : Acquired(w) /\ ~Committed(Version(w)) => Built(w)

\* What publish retires has been committed.
Retirable ==
    /\ \A v \in Versions : builds[v].previous # None => Committed(builds[v].previous)
    /\ \A j \in Jobs : jobs[j].previous # None => Committed(jobs[j].previous)

\* The job has passed its verification.
Verified(j) ==
    \/ "verify" \in steps[j]
    \/ \E w \in Live : Job(w) = j /\ Acquired(w) /\ Done(w, 3)

\* A version that was replaced is not switched on again by a job that verified
\* it before: that job's base is of the past.
Overtaken ==
    /\ \A r \in Requests :
          Committed(r.version) /\ documents[r.version].status # "active" /\ Verified(r.job)
             => jobs[r.job].base < get_current_revision
    /\ \A r \in Requests : jobs[r.job].status = "absent" =>
          steps[r.job] = {} /\ \A w \in Live : Job(w) = r.job => ~Acquired(w)

CompleteInv == Cleared /\ Builds /\ Retirable /\ Bases /\ Overtaken

\* Without crashes the executions only start and go on.
LEMMA CrashFreeSteps ==
    ASSUME MaxCrashes = 0, JobInv, JobNext
    PROVE  \/ \E w \in Workers : (Advance(w) \/ Raise(w)) /\ Walk(w)
           \/ /\ UNCHANGED storeVars /\ UNCHANGED planes
              /\ \E w \in Workers : Starts(w)
<1>1. \A p \in Procs : ~Crash(p)
  BY DEF Crash, JobInv, PlanesOK
<1>2. ASSUME NEW w \in Workers, Deliver(w)
      PROVE  UNCHANGED storeVars /\ UNCHANGED planes /\ Starts(w)
  BY <1>2, DeliverStarts DEF Deliver, run
<1> QED
  BY <1>1, <1>2, AdvanceWalks DEF JobNext

\* The names of the steps are distinct, and verify is the third.
LEMMA StepNames ==
    /\ \A i, k \in 1 .. 6 : STEPS[i] = STEPS[k] => i = k
    /\ \A k \in 1 .. 6 : STEPS[k] = "verify" => k = 3
    /\ STEPS[3] = "verify"
<1>1. 1 .. 6 = {1, 2, 3, 4, 5, 6}
  OBVIOUS
<1> QED
  BY <1>1 DEF STEPS

\* What a lease or a job row names as its previous version was active once.
LEMMA RetirableStep ==
    ASSUME JobInv, Retirable, JobNext
    PROVE  Retirable'
<1>0. /\ \A v \in Versions : builds[v].previous \in Versions \cup {None}
      /\ \A j \in Jobs : jobs[j].previous \in Versions \cup {None}
  BY DEF JobInv, IInv, TypeOK, LeaseRow, JobRow
<1>1. ASSUME NEW v \in Versions, Committed(v)
      PROVE  Committed(v)'
  BY <1>1, CommittedFacts
<1>2. ASSUME NEW v \in Versions, LeasePrevious(v) # None
      PROVE  LeasePrevious(v) \in Versions /\ Committed(LeasePrevious(v))
  <2>1. get_active_version = None \/ (get_active_version \in Versions /\ Committed(get_active_version))
    BY DEF get_active_version, ActiveVersions, Committed
  <2> QED
    BY <1>0, <1>2, <2>1 DEF LeasePrevious, Retirable
<1>3. ASSUME NEW v \in Versions, builds'[v].previous # None
      PROVE  Committed(builds[v].previous)'
  <2>1. \/ builds'[v].previous = builds[v].previous
        \/ builds'[v].previous = LeasePrevious(v)
    <3>1. ASSUME NEW w \in Workers, Takes(w)
          PROVE  \/ builds'[v].previous = builds[v].previous
                 \/ builds'[v].previous = LeasePrevious(v)
      <4>1. \A x \in Versions \ {Version(w)} : builds'[x] = builds[x]
        BY <3>1, TakeFacts
      <4> QED
        BY <3>1, <4>1, TakenLease
    <3>2. ASSUME NEW w \in Workers, Ends(w)
          PROVE  builds'[v].previous = builds[v].previous
      BY <3>2, EndFacts
    <3>3. ASSUME NEW w \in Workers, Switches(w) \/ Abandons(w)
          PROVE  builds' = builds
      BY <3>3 DEF Switches, Abandons, commit_active_version, mark_document_failed
    <3> QED
      BY <3>1, <3>2, <3>3, SystemTableSteps DEF Touches, storeVars
  <2>2. builds'[v].previous \in Versions /\ Committed(builds'[v].previous)
    BY <1>0, <1>2, <1>3, <2>1 DEF Retirable
  <2> QED
    BY <2>2, CommittedFacts DEF Committed
<1>4. ASSUME NEW j \in Jobs, jobs'[j].previous # None
      PROVE  Committed(jobs[j].previous)'
  <2>1. \/ jobs'[j].previous = jobs[j].previous
        \/ \E v \in Versions : jobs'[j].previous = LeasePrevious(v)
    <3>1. ASSUME NEW w \in Workers, Takes(w)
          PROVE  \/ jobs'[j].previous = jobs[j].previous
                 \/ \E v \in Versions : jobs'[j].previous = LeasePrevious(v)
      <4>1. \A x \in Jobs \ {Job(w)} : jobs'[x] = jobs[x]
        BY <3>1, TakeFacts
      <4>2. Version(w) \in Versions
        BY <3>1, TakeFacts
      <4> QED
        BY <3>1, <4>1, <4>2, TakenJob
    <3>2. ASSUME NEW w \in Workers, Ends(w)
          PROVE  jobs'[j].previous = jobs[j].previous
      BY <3>2, EndFacts
    <3>3. ASSUME NEW w \in Workers, Switches(w) \/ Abandons(w)
          PROVE  jobs' = jobs
      BY <3>3 DEF Switches, Abandons, commit_active_version, mark_document_failed
    <3> QED
      BY <3>1, <3>2, <3>3, SystemTableSteps DEF Touches, storeVars
  <2>2. jobs'[j].previous \in Versions /\ Committed(jobs'[j].previous)
    BY <1>0, <1>2, <1>4, <2>1 DEF Retirable
  <2> QED
    BY <2>2, CommittedFacts DEF Committed
<1> QED
  BY <1>3, <1>4 DEF Retirable

\* An execution touches the markers and the artifacts of another version only
\* when that one has been committed; before its acquire it touches none.
LEMMA OthersUntouched ==
    ASSUME JobInv, Retirable, NEW w \in Workers, Advance(w) \/ Raise(w),
           NEW j \in Jobs, NEW v \in Versions, ~Committed(v),
           worker[w].pc \in Before \/ (Job(w) # j /\ Version(w) # v)
    PROVE  /\ steps'[j] = steps[j] /\ points'[v] = points[v] /\ chunks'[v] = chunks[v]
           /\ \A p \in Procs : parents'[p][v] = parents[p][v]
<1> USE DEF At, planes
<1>0. /\ steps \in [Jobs -> SUBSET Markers] /\ points \in [Versions -> PointStatus]
      /\ chunks \in [Versions -> BOOLEAN] /\ parents \in [Procs -> [Versions -> ParentStatus]]
  BY DEF JobInv, PlanesOK
<1>1. CASE \/ Precheck(w) \/ OwnerCheck(w) \/ _short_circuit_already_indexed(w)
           \/ ReadBase(w) \/ _step_acquire(w) \/ NextStep(w)
           \/ _step_verify(w) \/ _step_finalize(w) \/ Fail(w) \/ Raise(w) \/ _step_commit(w)
  BY <1>1 DEF Precheck, OwnerCheck, _short_circuit_already_indexed, ReadBase, _step_acquire,
              NextStep, _step_verify, _step_finalize, Fail, Raise, _step_commit, _assert_owns_build
<1>2. CASE mark_step(w) \/ _step_write_parents(w) \/ _step_write_qdrant(w)
  <2>1. worker[w].pc \notin Before
    BY <1>2 DEF mark_step, _step_write_parents, _step_write_qdrant, Before
  <2> QED
    BY <1>0, <1>2, <2>1 DEF mark_step, _step_write_parents, _step_write_qdrant
<1>3. CASE _step_publish(w)
  <2>1. worker[w].pc \notin Before /\ worker[w].pc # "idle"
    BY <1>3 DEF _step_publish, Before
  <2>2. jobs[Job(w)].previous # v
    <3>1. Job(w) \in Jobs
      BY <2>1, RequestParts DEF JobInv
    <3> QED
      BY <3>1, NoneAssumption DEF Retirable
  <2>3. steps' = steps /\ chunks' = chunks /\ points'[v] = points[v]
    BY <1>0, <1>3, <2>1, <2>2 DEF _step_publish, _assert_owns_build
  <2>4. \A p \in Procs : parents'[p][v] = parents[p][v]
    <3>1. ASSUME NEW q, NEW x, NEW s, x # v, parents' = [parents EXCEPT ![q][x] = s]
          PROVE  \A p \in Procs : parents'[p][v] = parents[p][v]
      BY <1>0, <3>1
    <3>2. \/ parents' = parents
          \/ \E x, s : x # v /\ parents' = [parents EXCEPT ![ProcOf[w]][x] = s]
      BY <1>3, <2>1, <2>2 DEF _step_publish, _assert_owns_build
    <3> QED
      BY <3>1, <3>2
  <2> QED
    BY <2>3, <2>4
<1>4. CASE _compensate(w)
  <2>1. worker[w].pc \notin Before
    BY <1>4 DEF _compensate, Before
  <2> QED
    BY <1>0, <1>4, <2>1 DEF _compensate, clear_steps
<1> QED
  BY <1>1, <1>2, <1>3, <1>4 DEF Advance

\* Before the commit a build is left only behind its compensation.
LEMMA BuildExits ==
    ASSUME Compensated, JobInv, BuildInv, Builds, NEW w \in Live, Acquired(w),
           ~Committed(Version(w)), Advance(w) \/ Raise(w), worker'[w].pc = "idle"
    PROVE  steps[Job(w)] = {}
<1> USE DEF At
<1>0. /\ worker \in [Workers -> Execution] /\ worker[w] \in Execution /\ w \in Workers
      /\ worker[w].request \in Requests
  BY LiveRequest DEF JobInv, WorkersOK
<1>1. /\ worker[w].pc \notin Before /\ OwnsBuild(w) /\ worker[w].step <= 4
      /\ "commit" \notin steps[Job(w)]
  BY <1>0 DEF BuildInv, InPlace, PlacedWell, Holders, Holds, Unswitched, Job, Version
<1>2. \A place : Goto(w, place) => place = "idle"
  BY <1>0 DEF Goto, Execution
<1>3. CASE Fail(w)
  BY <1>3 DEF Fail, Builds, Built
<1>4. CASE Precheck(w) \/ OwnerCheck(w) \/ _short_circuit_already_indexed(w) \/ ReadBase(w) \/ _step_acquire(w)
  BY <1>1, <1>4 DEF Precheck, OwnerCheck, _short_circuit_already_indexed, ReadBase,
                    _step_acquire, Before
<1>5. CASE NextStep(w)
  <2> DEFINE todo == {k \in worker[w].step .. 6 : STEPS[k] \notin steps[Job(w)]}
             k == CHOOSE x \in todo : \A y \in todo : x <= y
  <2>1. 4 \in todo
    BY <1>0, <1>1 DEF STEPS, Execution
  <2>2. k \in 1 .. 6
    <3>1. todo \in SUBSET (1 .. 6)
      BY <1>0 DEF Execution
    <3> QED
      BY <2>1, <3>1, LeastStep
  <2>3. worker' = [worker EXCEPT ![w].pc = STEPS[k], ![w].step = k]
    BY <1>5, <2>1 DEF NextStep
  <2> HIDE DEF k
  <2>4. worker'[w].pc = STEPS[k]
    BY <1>0, <2>3 DEF Execution
  <2> QED
    BY <2>2, <2>4, StepPlace
<1>6. CASE mark_step(w)
  BY <1>0, <1>6 DEF mark_step, Execution
<1>7. CASE _step_write_parents(w) \/ _step_write_qdrant(w) \/ _step_verify(w) \/ _step_finalize(w)
  BY <1>2, <1>7 DEF _step_write_parents, _step_write_qdrant, _step_verify, _step_finalize
<1>8. CASE _step_commit(w)
  <2>1. Goto(w, "switch") \/ Goto(w, "handler") \/ Switches(w)
    BY <1>1, <1>8 DEF _step_commit, _assert_owns_build, Switches
  <2> QED
    BY <1>0, <1>2, <2>1 DEF Switches, Execution
<1>9. CASE _step_publish(w) \/ _compensate(w)
  BY <1>1, <1>2, <1>9 DEF _step_publish, _assert_owns_build, _compensate
<1>10. CASE Raise(w)
  BY <1>2, <1>10 DEF Raise, Compensated
<1> QED
  BY <1>3, <1>4, <1>5, <1>6, <1>7, <1>8, <1>9, <1>10 DEF Advance

\* Markers of an uncommitted version belong to an execution that is building it.
LEMMA ClearedStep ==
    ASSUME Compensated, Pinned, JobInv, BuildInv, CompleteInv, JobNext
    PROVE  Cleared'
<1> USE DEF CompleteInv, Compensated
<1> SUFFICES ASSUME NEW r \in Requests, ~Committed(r.version)', steps'[r.job] # {}
             PROVE  \E w \in Live' : Job(w)' = r.job /\ Acquired(w)'
  BY DEF Cleared
<1>0. r.job \in Jobs /\ r.version \in Versions /\ steps \in [Jobs -> SUBSET Markers]
  BY RequestTypes DEF JobInv, PlanesOK
<1>1. ~Committed(r.version)
  BY <1>0, CommittedFacts DEF Committed
<1>2. \E w \in Live : Job(w) = r.job /\ Acquired(w)
  <2>1. CASE steps[r.job] # {}
    BY <1>1, <2>1 DEF Cleared
  <2>2. CASE steps[r.job] = {}
    <3>1. ~\E w \in Workers : worker[w].pc = "undo_steps" /\ clear_steps(Job(w))
      BY <1>0, <2>2 DEF clear_steps
    <3>2. PICK w \in Workers : mark_step(w)
      BY <2>2, <3>1, MarkerSteps
    <3>3. Job(w) = r.job
      BY <1>0, <2>2, <3>2 DEF mark_step
    <3>4. w \in Live /\ worker[w].pc = "mark"
      BY <3>2 DEF mark_step, At, Live
    <3>5. Acquired(w)
      BY <3>4 DEF BuildInv, InPlace, PlacedWell, Before
    <3> QED
      BY <3>3, <3>4, <3>5
  <2> QED
    BY <2>1, <2>2
<1>3. PICK w \in Live : Job(w) = r.job /\ Acquired(w)
  BY <1>2
<1>4. /\ w \in Workers /\ worker[w].request \in Requests /\ worker[w].pc # "idle"
      /\ Version(w) = r.version
  BY <1>3, LiveRequest DEF Live, Pinned, Job, Version
<1>5. worker'[w].pc # "idle"
  <2>1. ASSUME worker'[w].pc = "idle", Advance(w) \/ Raise(w)
        PROVE  FALSE
    <3>1. steps[Job(w)] = {}
      BY <1>1, <1>3, <1>4, <2>1, BuildExits
    <3>2. steps' = steps
      <4>1. ~mark_step(w)
        BY <1>4, <2>1 DEF mark_step, JobInv, WorkersOK, Execution
      <4>2. ASSUME NEW x \in Workers, mark_step(x) PROVE x = w
        BY <1>4, <2>1, <4>2 DEF mark_step, JobInv, WorkersOK
      <4>3. ASSUME NEW x \in Workers, clear_steps(Job(x)) PROVE steps'[r.job] \in {steps[r.job], {}}
        BY <1>0, <4>3 DEF clear_steps
      <4> QED
        BY <1>3, <3>1, <4>1, <4>2, <4>3, MarkerSteps
    <3> QED
      BY <1>3, <3>1, <3>2
  <2>2. ASSUME NEW x \in Workers, x # w, Walk(x)
        PROVE  worker'[w] = worker[w]
    BY <1>4, <2>2 DEF Walk
  <2>3. ASSUME NEW x \in Workers, Starts(x)
        PROVE  worker'[w] = worker[w]
    BY <1>4, <2>3 DEF Starts
  <2> QED
    BY <1>4, <2>1, <2>2, <2>3, CrashFreeSteps
<1>6. w \in Live'
  BY <1>4, <1>5 DEF Live
<1>7. ~Starts(w)
  BY <1>4 DEF Starts
<1>8. Job(w)' = Job(w) /\ (worker'[w].generation = worker[w].generation \/ Takes(w))
  BY <1>6, <1>7, LiveBefore
<1>9. Acquired(w)'
  BY <1>3, <1>4, <1>8, TakenToken DEF Acquired
<1> QED
  BY <1>3, <1>6, <1>8, <1>9

\* What a build does to its own markers and artifacts.
LEMMA OwnBuild ==
    ASSUME Compensated, JobInv, BuildInv, NEW w \in Live, Acquired(w), Built(w),
           ~Committed(Version(w)), ~Committed(Version(w))', InPlace',
           Advance(w) \/ Raise(w), worker'[w].pc # "idle"
    PROVE  Built(w)'
<1> USE DEF At, planes
<1> DEFINE j == Job(w)
           v == Version(w)
           p == ProcOf[w]
<1>0. /\ worker \in [Workers -> Execution] /\ worker[w] \in Execution /\ w \in Workers
      /\ worker[w].request \in Requests /\ j \in Jobs /\ v \in Versions /\ p \in Procs
      /\ steps \in [Jobs -> SUBSET Markers] /\ points \in [Versions -> PointStatus]
      /\ chunks \in [Versions -> BOOLEAN] /\ parents \in [Procs -> [Versions -> ParentStatus]]
  BY LiveRequest, ProcOfAssumption DEF JobInv, WorkersOK, PlanesOK
<1>1. /\ worker[w].pc \notin Before /\ OwnsBuild(w) /\ worker[w].step <= 4
      /\ (worker[w].pc = "mark" => worker[w].step < 4)
      /\ "commit" \notin steps[j] /\ PlacedWell(w) /\ ~worker[w].committed
      /\ worker[w].step \in 1 .. 7
  BY <1>0 DEF BuildInv, InPlace, PlacedWell, Holders, Holds, Unswitched, Job, Version, Execution
<1>2. \A place : Goto(w, place) =>
          worker'[w].pc = place /\ worker'[w].step = worker[w].step /\ j' = j /\ v' = v
  BY <1>0 DEF Goto, Execution, Job, Version
<1>3. worker'[w].pc \notin InTry \cup {"undo_row", "fail"} => Built(w)'
  BY DEF Built
<1>4. ~Exit(w)
  BY <1>0 DEF Exit, Idle
<1>5. CASE Precheck(w) \/ OwnerCheck(w) \/ _short_circuit_already_indexed(w) \/ ReadBase(w) \/ _step_acquire(w)
  BY <1>1, <1>5 DEF Precheck, OwnerCheck, _short_circuit_already_indexed, ReadBase,
                    _step_acquire, Before
<1>6. CASE NextStep(w)
  <2> DEFINE todo == {k \in worker[w].step .. 6 : STEPS[k] \notin steps[j]}
             k == CHOOSE x \in todo : \A y \in todo : x <= y
  <2>1. worker[w].pc = "next" /\ "next" \in InTry /\ "next" # "mark" /\ "next" # "write_chunks"
    BY <1>6 DEF NextStep, InTry
  <2>2. STEPS[worker[w].step] \notin steps[j]
    BY <1>1, <2>1 DEF Built
  <2>3. worker[w].step \in todo /\ todo \in SUBSET (1 .. 6)
    BY <1>1, <2>2
  <2>4. k = worker[w].step
    BY <2>3, LeastStep
  <2>5. worker' = [worker EXCEPT ![w].pc = STEPS[k], ![w].step = k] /\ UNCHANGED planes
    BY <1>6, <2>3 DEF NextStep
  <2> HIDE DEF k
  <2>6. /\ worker'[w].pc = STEPS[k] /\ worker'[w].step = worker[w].step /\ j' = j /\ v' = v
    BY <1>0, <2>4, <2>5 DEF Execution, Job, Version
  <2>7. STEPS[k] \notin {"mark", "write_chunks", "undo_row", "fail"}
    <3>1. k = 1 \/ k = 2 \/ k = 3 \/ k = 4
      BY <1>1, <2>4
    <3>2. \A i \in {1, 2, 3, 4} : STEPS[i] \notin {"mark", "write_chunks", "undo_row", "fail"}
      BY DEF STEPS
    <3> QED
      BY <3>1, <3>2
  <2>8. \A i \in {1, 2} : Done(w, i)' <=> Done(w, i)
    BY <2>1, <2>6, <2>7 DEF Done
  <2> QED
    BY <2>1, <2>5, <2>6, <2>7, <2>8 DEF Built
<1>7. CASE mark_step(w)
  <2>1. worker[w].pc = "mark" /\ "mark" \in InTry
    BY <1>7 DEF mark_step, InTry
  <2>2. /\ worker'[w].pc = "next" /\ worker'[w].step = worker[w].step + 1 /\ j' = j /\ v' = v
        /\ points' = points /\ chunks' = chunks /\ parents' = parents
        /\ steps'[j] = steps[j] \cup {STEPS[worker[w].step]}
    BY <1>0, <1>7 DEF mark_step, Execution, Job, Version
  <2>3. \A i \in 1 .. 6 : STEPS[i] \in steps'[j] => i < worker[w].step + 1
    <3> SUFFICES ASSUME NEW i \in 1 .. 6, STEPS[i] \in steps'[j] PROVE i < worker[w].step + 1
      OBVIOUS
    <3>1. CASE STEPS[i] \in steps[j]
      BY <1>1, <2>1, <3>1 DEF Built
    <3>2. CASE STEPS[i] = STEPS[worker[w].step]
      BY <1>1, <3>2, StepNames
    <3> QED
      BY <2>2, <3>1, <3>2
  <2>4. \A i \in {1, 2} : Done(w, i)' => Done(w, i)
    BY <1>1, <2>1, <2>2 DEF Done
  <2> QED
    BY <2>1, <2>2, <2>3, <2>4 DEF Built
<1>8. CASE _step_write_parents(w)
  <2>1. /\ worker[w].pc = "write_parents" /\ Goto(w, "mark") /\ worker[w].step = 1
        /\ parents'[p][v] = "active" /\ steps' = steps /\ "write_parents" \in InTry
    BY <1>0, <1>1, <1>8 DEF _step_write_parents, PlacedWell, StepAt, InStep, InTry
  <2> QED
    BY <1>2, <2>1 DEF Built, Done
<1>9. CASE _step_write_qdrant(w)
  <2>1. CASE worker[w].pc = "write_qdrant"
    <3>1. /\ Goto(w, "write_chunks") /\ worker[w].step = 2 /\ points'[v] = "processing"
          /\ steps' = steps /\ parents' = parents /\ "write_qdrant" \in InTry
      BY <1>0, <1>1, <1>9, <2>1 DEF _step_write_qdrant, PlacedWell, StepAt, InStep, InTry
    <3> QED
      BY <1>2, <2>1, <3>1 DEF Built, Done
  <2>2. CASE worker[w].pc = "write_chunks"
    <3>1. /\ Goto(w, "mark") /\ worker[w].step = 2 /\ chunks'[v] = TRUE
          /\ steps' = steps /\ parents' = parents /\ points' = points /\ "write_chunks" \in InTry
      BY <1>0, <1>1, <1>9, <2>2 DEF _step_write_qdrant, PlacedWell, StepAt, InStep, InTry
    <3> QED
      BY <1>2, <2>2, <3>1 DEF Built, Done
  <2> QED
    BY <1>9, <2>1, <2>2 DEF _step_write_qdrant
<1>10. ASSUME UNCHANGED planes, worker[w].pc \in InTry \ {"mark"}, worker'[w].pc \in InTry,
              worker'[w].pc # "write_chunks",
              worker'[w].pc = "mark" => worker[w].step = 3 \/ worker[w].step = 4,
              worker'[w].step = worker[w].step, j' = j, v' = v
       PROVE  Built(w)'
  <2>1. \A i \in {1, 2} : Done(w, i)' => Done(w, i)
    BY <1>10 DEF Done
  <2>2. worker'[w].pc \notin {"undo_row", "fail"}
    BY <1>10 DEF InTry
  <2> QED
    BY <1>10, <2>1, <2>2 DEF Built
<1>11. CASE _step_verify(w)
  <2>1. /\ worker[w].pc = "verify" /\ worker[w].step = 3 /\ UNCHANGED planes
        /\ Goto(w, "mark") \/ Goto(w, "handler")
    BY <1>1, <1>11 DEF _step_verify, PlacedWell, StepAt, InStep
  <2>2. {"verify", "mark"} \subseteq InTry /\ "handler" \notin InTry
    BY DEF InTry
  <2> QED
    BY <1>2, <1>3, <1>10, <2>1, <2>2
<1>12. CASE _step_commit(w)
  <2>1. /\ worker[w].pc \in {"commit", "switch"} /\ worker[w].step = 4 /\ UNCHANGED planes
        /\ Goto(w, "switch") \/ Goto(w, "handler") \/ Switches(w)
    BY <1>1, <1>4, <1>12 DEF _step_commit, _assert_owns_build, Switches, PlacedWell, StepAt, InStep
  <2>2. {"commit", "switch"} \subseteq InTry /\ "handler" \notin InTry
    BY DEF InTry
  <2>3. ~Switches(w)
    <3> SUFFICES ASSUME Switches(w) PROVE FALSE
      OBVIOUS
    <3>1. worker'[w].committed = TRUE
      BY <1>0 DEF Switches, Execution
    <3>2. w \in Live'
      BY <1>0 DEF Live
    <3> QED
      BY <3>1, <3>2 DEF InPlace, PlacedWell
  <2> QED
    BY <1>2, <1>3, <1>10, <2>1, <2>2, <2>3
<1>13. CASE _step_publish(w) \/ _step_finalize(w)
  <2>1. worker[w].step \in {5, 6}
    BY <1>1, <1>13 DEF _step_publish, _step_finalize, PlacedWell, StepAt, InStep
  <2> QED
    BY <1>1, <2>1
<1>14. CASE _compensate(w)
  <2>1. \/ Goto(w, "undo_points") \/ Goto(w, "undo_parents")
        \/ Goto(w, "undo_chunks") \/ Goto(w, "undo_steps")
        \/ worker[w].pc = "undo_steps" /\ Goto(w, "undo_row") /\ clear_steps(j)
        \/ worker[w].pc = "undo_row" /\ Goto(w, "fail") /\ steps' = steps
    BY <1>1, <1>14 DEF _compensate
  <2>2. clear_steps(j) => steps'[j] = {}
    BY <1>0 DEF clear_steps
  <2>3. {"undo_points", "undo_parents", "undo_chunks", "undo_steps", "undo_row", "fail"} \cap InTry = {}
    BY DEF InTry
  <2>4. worker'[w].pc \in {"undo_row", "fail"} => steps'[j] = {}
    BY <1>2, <2>1, <2>2 DEF Built
  <2> QED
    BY <1>2, <2>1, <2>3, <2>4 DEF Built
<1>15. CASE Raise(w)
  <2>1. Goto(w, "handler") /\ "handler" \notin InTry
    BY <1>4, <1>15 DEF Raise, InTry
  <2> QED
    BY <1>2, <1>3, <2>1
<1>16. ~Fail(w)
  BY <1>4 DEF Fail
<1> QED
  BY <1>5, <1>6, <1>7, <1>8, <1>9, <1>11, <1>12, <1>13, <1>14, <1>15, <1>16 DEF Advance

\* What the markers and the place of a builder promise is in the planes.
LEMMA BuildsStep ==
    ASSUME Compensated, Pinned, JobInv, BuildInv, BuildInv', LeaseAgreesWithJob, CompleteInv, JobNext
    PROVE  Builds'
<1> USE DEF CompleteInv
<1> SUFFICES ASSUME NEW u \in Live', Acquired(u)', ~Committed(Version(u))'
             PROVE  Built(u)'
  BY DEF Builds
<1>1. ~Starts(u)
  BY DEF Starts, Acquired
<1>2. /\ u \in Live /\ Job(u)' = Job(u) /\ Version(u)' = Version(u)
      /\ worker'[u].generation = worker[u].generation \/ Takes(u)
      /\ u \in Workers /\ worker'[u].pc # "idle"
  BY <1>1, LiveBefore DEF Live
<1>3. Version(u) \in Versions /\ Job(u) \in Jobs /\ worker[u].request \in Requests
  BY <1>2, LiveRequest
<1>4. ~Committed(Version(u))
  BY <1>2, <1>3, CommittedFacts DEF Committed
<1>5. CASE Takes(u)
  <2>1. /\ worker'[u].pc = "next" /\ worker'[u].step = 1
    <3>1. worker[u].step = 1
      BY <1>2, <1>5 DEF Takes, BuildInv, InPlace, PlacedWell, Before
    <3> QED
      BY <1>2, <1>5, <3>1, TakenToken
  <2>2. steps[Job(u)] = {}
    <3> SUFFICES ASSUME steps[Job(u)] # {} PROVE FALSE
      OBVIOUS
    <3>1. PICK x \in Live : Job(x) = Job(u) /\ Acquired(x)
      BY <1>3, <1>4 DEF Cleared, Job, Version
    <3>2. Version(x) = Version(u)
      BY <1>3, <3>1, LiveRequest DEF Pinned, Job, Version
    <3> QED
      BY <1>2, <1>4, <1>5, <3>1, <3>2, ExclusiveTake
  <2>3. steps'[Job(u)] = {}
    <3>1. ~\E w \in Workers : mark_step(w)
      <4> SUFFICES ASSUME NEW w \in Workers, mark_step(w) PROVE FALSE
        OBVIOUS
      <4>1. w = u
        BY <1>2, <1>5 DEF mark_step, At, Takes, JobInv, WorkersOK, Execution
      <4> QED
        BY <1>5, <4>1 DEF mark_step, At, Takes
    <3>2. \A j : clear_steps(j) => steps'[Job(u)] \in {steps[Job(u)], {}}
      BY <1>3 DEF clear_steps, JobInv, PlanesOK
    <3> QED
      BY <2>2, <3>1, <3>2, MarkerSteps
  <2>4. ~Done(u, 1)' /\ ~Done(u, 2)'
    BY <2>1 DEF Done
  <2> QED
    BY <1>2, <2>1, <2>3, <2>4 DEF Built
<1>6. CASE ~Takes(u)
  <2>1. Acquired(u) /\ Built(u)
    BY <1>2, <1>4, <1>6 DEF Acquired, Builds
  <2>2. ASSUME worker'[u] = worker[u], steps'[Job(u)] = steps[Job(u)],
               points'[Version(u)] = points[Version(u)], chunks'[Version(u)] = chunks[Version(u)],
               \A p \in Procs : parents'[p][Version(u)] = parents[p][Version(u)]
        PROVE  Built(u)'
    <3>1. ProcOf[u] \in Procs /\ \A k \in {1, 2} : Done(u, k)' <=> Done(u, k)
      BY <1>2, <2>2, ProcOfAssumption DEF Done
    <3> QED
      BY <1>2, <2>1, <2>2, <3>1 DEF Built
  <2>3. ASSUME NEW w \in Workers, Advance(w) \/ Raise(w), Walk(w)
        PROVE  Built(u)'
    <3>1. CASE w = u
      BY <1>2, <1>4, <2>1, <2>3, <3>1, OwnBuild DEF BuildInv
    <3>2. CASE w # u
      <4>1. w \in Live /\ worker[w].request \in Requests
        BY <2>3, LiveRequest DEF Walk, Live
      <4>2. worker[w].pc \in Before \/ (Job(w) # Job(u) /\ Version(w) # Version(u))
        <5> SUFFICES ASSUME worker[w].pc \notin Before PROVE Job(w) # Job(u) /\ Version(w) # Version(u)
          OBVIOUS
        <5>1. Acquired(w)
          BY <4>1 DEF BuildInv, InPlace, PlacedWell
        <5>2. Version(w) # Version(u)
          BY <1>2, <1>4, <2>1, <3>2, <4>1, <5>1, OneHolder DEF BuildInv, Holders, Holds
        <5> QED
          BY <1>3, <4>1, <5>2 DEF Pinned, Job, Version
      <4>3. worker'[u] = worker[u]
        BY <1>2, <2>3, <3>2 DEF Walk
      <4> QED
        BY <1>3, <1>4, <2>2, <2>3, <4>2, <4>3, OthersUntouched
    <3> QED
      BY <3>1, <3>2
  <2>4. ASSUME UNCHANGED planes, NEW w \in Workers, Starts(w)
        PROVE  Built(u)'
    <3>1. worker'[u] = worker[u]
      BY <1>1, <1>2, <2>4 DEF Starts
    <3> QED
      BY <2>2, <2>4, <3>1 DEF planes
  <2> QED
    BY <2>3, <2>4, CrashFreeSteps DEF Compensated
<1> QED
  BY <1>5, <1>6

\* A version that is not active any more passes no verification.
LEMMA VerifiedBefore ==
    ASSUME MaxCrashes = 0, Undisturbed, Pinned, JobInv, BuildInv, JobNext,
           NEW r \in Requests, Committed(r.version), documents[r.version].status # "active",
           jobs[r.job].status # "absent", Verified(r.job)'
    PROVE  Verified(r.job)
<1>0. /\ r.job \in Jobs /\ r.version \in Versions /\ steps \in [Jobs -> SUBSET Markers]
      /\ worker \in [Workers -> Execution]
  BY RequestTypes DEF JobInv, PlanesOK, WorkersOK
<1>1. CASE "verify" \in steps'[r.job] /\ "verify" \notin steps[r.job]
  <2>1. ~\E w \in Workers : clear_steps(Job(w))
    BY <1>0, <1>1 DEF clear_steps
  <2>2. PICK w \in Workers : mark_step(w)
    BY <1>1, <2>1, MarkerSteps
  <2>3. Job(w) = r.job /\ "verify" = STEPS[worker[w].step] /\ worker[w].pc = "mark" /\ w \in Live
    BY <1>0, <1>1, <2>2 DEF mark_step, At, Live
  <2>4. worker[w].step \in 1 .. 6
    BY <2>3 DEF JobInv, WorkersOK, Sound, InStep
  <2>5. worker[w].step = 3
    BY <2>3, <2>4, StepNames
  <2>6. Acquired(w)
    BY <2>3 DEF BuildInv, InPlace, PlacedWell, Before
  <2> QED
    BY <2>3, <2>5, <2>6 DEF Verified, Done
<1>2. CASE "verify" \in steps[r.job]
  BY <1>2 DEF Verified
<1>3. CASE "verify" \notin steps'[r.job]
  <2>1. PICK w \in Live' : Job(w)' = r.job /\ Acquired(w)' /\ Done(w, 3)'
    BY <1>3 DEF Verified
  <2>2. ~Starts(w)
    BY <2>1 DEF Starts, Acquired
  <2>3. /\ w \in Live /\ Job(w)' = Job(w) /\ w \in Workers /\ worker'[w].pc # "idle"
        /\ worker'[w].generation = worker[w].generation \/ Takes(w)
    BY <2>2, LiveBefore DEF Live
  <2>4. Version(w) = r.version /\ PlacedWell(w) /\ worker[w] \in Execution
    BY <2>1, <2>3, LiveRequest DEF Pinned, Job, Version, BuildInv, InPlace
  <2>5. ~Takes(w)
    <3> SUFFICES ASSUME Takes(w) PROVE FALSE
      OBVIOUS
    <3>1. worker[w].step = 1
      BY <2>4 DEF Takes, PlacedWell, Before
    <3> QED
      BY <2>1, <2>3, <3>1, TakenToken DEF Done
  <2>6. Acquired(w)
    BY <2>1, <2>3, <2>5 DEF Acquired
  <2> SUFFICES ASSUME ~Done(w, 3), "verify" \notin steps[r.job] PROVE FALSE
    BY <1>2, <2>1, <2>3, <2>6 DEF Verified
  <2>7. worker'[w] # worker[w]
    BY <2>1 DEF Done
  <2>8. Walk(w) /\ (Advance(w) \/ Raise(w))
    <3>1. ASSUME NEW x \in Workers, Walk(x), x # w PROVE FALSE
      BY <2>3, <2>7, <3>1 DEF Walk
    <3>2. ASSUME NEW x \in Workers, Starts(x) PROVE FALSE
      BY <2>2, <2>3, <2>7, <3>2 DEF Starts
    <3> QED
      BY <3>1, <3>2, CrashFreeSteps
  <2>9. worker[w].step \in 1 .. 3 /\ ~(worker[w].step = 3 /\ worker[w].pc = "mark")
    BY <2>4 DEF Done, Execution
  <2>10. CASE NextStep(w)
    <3> DEFINE todo == {k \in worker[w].step .. 6 : STEPS[k] \notin steps[Job(w)]}
               k == CHOOSE x \in todo : \A y \in todo : x <= y
    <3>1. 3 \in todo
      BY <2>1, <2>3, <2>9 DEF STEPS
    <3>2. todo \in SUBSET (1 .. 6)
      BY <2>9
    <3>3. k \in 1 .. 6 /\ k <= 3
      BY <3>1, <3>2, LeastStep
    <3>4. worker' = [worker EXCEPT ![w].pc = STEPS[k], ![w].step = k]
      BY <2>10, <3>1 DEF NextStep
    <3> HIDE DEF k
    <3>5. worker'[w].pc = STEPS[k] /\ worker'[w].step = k
      BY <1>0, <2>3, <2>4, <3>4 DEF Execution
    <3>6. STEPS[k] # "mark"
      <4>1. k = 1 \/ k = 2 \/ k = 3
        BY <3>3
      <4>2. \A i \in {1, 2, 3} : STEPS[i] # "mark"
        BY DEF STEPS
      <4> QED
        BY <4>1, <4>2
    <3> QED
      BY <2>1, <3>3, <3>5, <3>6 DEF Done
  <2>11. CASE mark_step(w)
    <3>1. worker[w].pc = "mark" /\ worker'[w].pc = "next" /\ worker'[w].step = worker[w].step + 1
      BY <1>0, <2>3, <2>4, <2>11 DEF mark_step, At, Execution
    <3> QED
      BY <2>1, <2>9, <3>1 DEF Done
  <2>12. CASE ~NextStep(w) /\ ~mark_step(w)
    <3>1. worker'[w].step = worker[w].step
      BY <2>3, <2>8, <2>12 DEF Walk, Idle
    <3>2. worker'[w].pc = "mark" /\ worker[w].step = 3
      BY <2>1, <2>9, <3>1 DEF Done
    <3>3. worker[w].pc = "verify"
      <4>1. \/ worker[w].pc = "switch"
            \/ worker[w].pc \in {"write_parents", "write_chunks", "verify", "promote_parents",
                                 "retire", "finalize"}
        BY <2>3, <2>8, <3>2, MarkPlaces DEF Switches
      <4>2. worker[w].step = StepAt(worker[w].pc)
        BY <2>4, <4>1 DEF PlacedWell, InStep
      <4> QED
        BY <3>2, <4>1, <4>2 DEF StepAt
    <3>4. ~Raise(w)
      BY <1>0, <2>3, <3>2 DEF Raise, Goto, Exit, Idle, Execution
    <3>5. _step_verify(w)
      BY <2>8, <3>3, <3>4 DEF Advance, At, Precheck, OwnerCheck, _short_circuit_already_indexed,
             ReadBase, _step_acquire, NextStep, mark_step, _step_write_parents,
             _step_write_qdrant, _step_commit, _step_publish, _step_finalize, _compensate, Fail
    <3>6. Goto(w, "handler")
      BY <2>4, <3>5 DEF _step_verify, Committed
    <3> QED
      BY <1>0, <2>3, <2>4, <3>2, <3>6 DEF Goto, Execution
  <2> QED
    BY <2>10, <2>11, <2>12
<1> QED
  BY <1>1, <1>2, <1>3

\* A job that does not exist yet has nothing to show for, nor right after its
\* claim.
LEMMA NewJob ==
    ASSUME JobInv, BuildInv, Overtaken, JobNext,
           NEW r \in Requests, jobs[r.job].status = "absent"
    PROVE  /\ steps'[r.job] = {}
           /\ \A w \in Live' : Job(w)' = r.job /\ Acquired(w)' => Takes(w) /\ (worker[w].step)' = 1
<1>0. r.job \in Jobs /\ steps \in [Jobs -> SUBSET Markers]
  BY RequestTypes DEF JobInv, PlanesOK
<1>1. steps[r.job] = {} /\ \A w \in Live : Job(w) = r.job => ~Acquired(w)
  BY DEF Overtaken
<1>2. ASSUME NEW w \in Workers, mark_step(w)
      PROVE  Job(w) # r.job
  <2>1. w \in Live /\ worker[w].pc = "mark"
    BY <1>2 DEF mark_step, At, Live
  <2> QED
    BY <1>1, <2>1 DEF BuildInv, InPlace, PlacedWell, Before
<1>3. steps'[r.job] = {}
  <2>1. ASSUME NEW w \in Workers, mark_step(w)
        PROVE  steps'[r.job] = {}
    BY <1>0, <1>1, <1>2, <2>1 DEF mark_step
  <2>2. ASSUME NEW w \in Workers, clear_steps(Job(w))
        PROVE  steps'[r.job] = {}
    BY <1>0, <1>1, <2>2 DEF clear_steps
  <2> QED
    BY <1>1, <2>1, <2>2, MarkerSteps
<1>4. ASSUME NEW w \in Live', Job(w)' = r.job, Acquired(w)'
      PROVE  Takes(w) /\ (worker[w].step)' = 1
  <2>1. ~Starts(w)
    BY <1>4 DEF Starts, Acquired
  <2>2. /\ w \in Live /\ Job(w)' = Job(w) /\ w \in Workers
        /\ worker'[w].generation = worker[w].generation \/ Takes(w)
    BY <2>1, LiveBefore DEF Live
  <2>3. ~Acquired(w)
    BY <1>1, <1>4, <2>2
  <2>4. Takes(w)
    BY <1>4, <2>2, <2>3 DEF Acquired
  <2>5. worker[w].step = 1
    BY <2>2, <2>3 DEF BuildInv, InPlace, PlacedWell
  <2> QED
    BY <2>2, <2>4, <2>5, TakenToken
<1> QED
  BY <1>3, <1>4

\* Only the first claim of a job sets its base.
LEMMA BaseKept ==
    ASSUME JobInv, JobNext, NEW j \in Jobs, jobs[j].status # "absent"
    PROVE  jobs'[j].base = jobs[j].base /\ jobs'[j].status # "absent"
<1>1. ASSUME NEW w \in Workers, Takes(w)
      PROVE  jobs'[j].base = jobs[j].base /\ jobs'[j].status # "absent"
  <2>1. \A x \in Jobs \ {Job(w)} : jobs'[x] = jobs[x]
    BY <1>1, TakeFacts
  <2> QED
    BY <1>1, <2>1, TakenJob
<1>2. ASSUME NEW w \in Workers, Ends(w)
      PROVE  jobs'[j].base = jobs[j].base /\ jobs'[j].status # "absent"
  BY <1>2, EndFacts
<1>3. ASSUME NEW w \in Workers, Switches(w) \/ Abandons(w)
      PROVE  jobs' = jobs
  BY <1>3 DEF Switches, Abandons, commit_active_version, mark_document_failed
<1> QED
  BY <1>1, <1>2, <1>3, SystemTableSteps DEF Touches, storeVars

\* A version that lost its place before its job was done cannot be switched on again by it.
LEMMA OvertakenStep ==
    ASSUME MaxCrashes = 0, Undisturbed, Pinned, JobInv, JobInv', BuildInv, CompleteInv, JobNext
    PROVE  Overtaken'
<1> USE DEF CompleteInv
<1>1. ASSUME NEW r \in Requests, Committed(r.version)', documents'[r.version].status # "active",
             Verified(r.job)'
      PROVE  jobs'[r.job].base < get_current_revision'
  <2>0. /\ r.job \in Jobs /\ r.version \in Versions
        /\ jobs[r.job].base \in Nat /\ jobs[r.job].base <= get_current_revision
        /\ get_current_revision \in Nat /\ get_current_revision' \in Nat
        /\ get_current_revision <= get_current_revision'
    BY RequestTypes, RevisionMonotone DEF Bases, JobInv, IInv, TypeOK, JobRow
  <2>1. jobs[r.job].status # "absent"
    <3> SUFFICES ASSUME jobs[r.job].status = "absent" PROVE FALSE
      OBVIOUS
    <3>1. "verify" \notin steps'[r.job]
      BY NewJob
    <3>2. PICK w \in Live' : Job(w)' = r.job /\ Acquired(w)' /\ Done(w, 3)'
      BY <1>1, <3>1 DEF Verified
    <3>3. worker'[w].step = 1
      BY <3>2, NewJob
    <3> QED
      BY <3>2, <3>3 DEF Done
  <2>2. jobs'[r.job].base = jobs[r.job].base
    BY <2>0, <2>1, BaseKept
  <2>3. CASE documents[r.version].status = "active"
    <3>1. ActiveVersions' # ActiveVersions
      BY <1>1, <2>0, <2>3 DEF ActiveVersions
    <3>2. PICK w \in Workers : Switches(w)
      BY <3>1, RevisionFacts
    <3>3. documents' # documents
      BY <1>1, <2>3
    <3>4. get_current_revision' = get_current_revision + 1
      BY <3>2, <3>3, SwitchFacts
    <3> QED
      BY <2>0, <2>2, <3>4
  <2>4. CASE documents[r.version].status # "active"
    <3>1. Committed(r.version)
      <4> SUFFICES ASSUME ~Committed(r.version) PROVE FALSE
        OBVIOUS
      <4>1. PICK w \in Workers : Switches(w) /\ Version(w) = r.version
        BY <1>1, <2>0, CommittedFacts DEF Committed
      <4>2. SwitchActive(r.version, get_current_revision + 1)
        BY <2>4, <4>1, SwitchFacts
      <4> QED
        BY <1>1, <2>0, <4>2, SwitchedRows DEF JobInv, IInv
    <3>2. Verified(r.job)
      BY <1>1, <2>1, <2>4, <3>1, VerifiedBefore
    <3> QED
      BY <2>0, <2>2, <2>4, <3>1, <3>2 DEF Overtaken
  <2> QED
    BY <2>3, <2>4
<1>2. ASSUME NEW r \in Requests, jobs'[r.job].status = "absent"
      PROVE  steps'[r.job] = {} /\ \A w \in Live' : Job(w)' = r.job => ~Acquired(w)'
  <2>1. r.job \in Jobs /\ jobs[r.job].status = "absent"
    BY <1>2, RequestTypes, BaseKept
  <2>2. ASSUME NEW w \in Live', Job(w)' = r.job, Acquired(w)'
        PROVE  FALSE
    <3>1. Takes(w) /\ w \in Workers
      BY <2>1, <2>2, NewJob DEF Live
    <3>2. Job(w)' = Job(w)
      BY <3>1, TakeFacts, LiveBefore, <2>2 DEF Starts, Live
    <3> QED
      BY <1>2, <2>2, <3>1, <3>2, TakenJob
  <2> QED
    BY <2>1, <2>2, NewJob
<1> QED
  BY <1>1, <1>2 DEF Overtaken

\* The invariant behind CommitOnlyComplete is inductive.
LEMMA CompleteInvariantStep ==
    ASSUME Stamps = Nat, Undisturbed, Compensated, Pinned
    PROVE  JobInv /\ LeaseAgreesWithJob /\ BuildInv /\ CompleteInv /\ [JobNext]_jobVars
              => CompleteInv'
<1> SUFFICES ASSUME JobInv, LeaseAgreesWithJob, BuildInv, CompleteInv, [JobNext]_jobVars
             PROVE  CompleteInv'
  OBVIOUS
<1>1. JobInv' /\ BuildInv'
  BY JobInvariantStep, BuildInvariantStep
<1>2. CASE JobNext
  <2>1. Cleared' /\ Builds'
    BY <1>1, <1>2, ClearedStep, BuildsStep
  <2>2. Retirable' /\ Bases' /\ Overtaken'
    BY <1>1, <1>2, RetirableStep, BasesStep, OvertakenStep DEF CompleteInv, Compensated
  <2> QED
    BY <2>1, <2>2 DEF CompleteInv
<1>3. CASE UNCHANGED jobVars
  <2>1. get_current_revision' = get_current_revision
    BY <1>3 DEF jobVars, get_current_revision, Revisions, Rows
  <2> QED
    BY <1>3, <2>1 DEF jobVars, CompleteInv, Cleared, Builds, Built, Retirable, Bases, Overtaken,
                Verified, Done, Acquired, Committed, Live, Version, Job
<1> QED
  BY <1>2, <1>3

\* For any number of workers and processes, with any duplicates, takeovers and
\* faults inside the try block: when a commit makes a version active, its
\* parents, points and chunk rows are all there, although the verification was
\* an earlier statement, and even an earlier execution of a version that has
\* been replaced since.  (A crash, or a fault of the handler, leaves markers
\* behind of artifacts that are gone.)
THEOREM CommitOnlyCompleteHolds ==
    ASSUME Stamps = Nat, Undisturbed, Compensated, Pinned
    PROVE  JobSpec => CommitOnlyComplete
<1>1. JobInit => CompleteInv
  <2> SUFFICES ASSUME JobInit PROVE CompleteInv
    OBVIOUS
  <2>1. Live = {} /\ get_current_revision \in Nat
    BY JobInvariantInit, CurrentRevision DEF JobInit, Live, Idle, JobInv, IInv, RowsInv
  <2>2. \A r \in Requests : /\ jobs[r.job] = NoJob /\ steps[r.job] = {}
                            /\ documents[r.version] = NoDocument
    BY RequestTypes DEF JobInit, Init
  <2>3. /\ \A v \in Versions : builds[v] = NoBuild
        /\ \A j \in Jobs : jobs[j] = NoJob
    BY DEF JobInit, Init
  <2> QED
    BY <2>1, <2>2, <2>3 DEF CompleteInv, Cleared, Builds, Retirable, Bases, Overtaken, Committed,
                            NoJob, NoBuild, NoDocument
<1>2. JobInv /\ JobInv' /\ BuildInv /\ CompleteInv /\ [JobNext]_jobVars
      => [\A v \in Versions :
             documents[v].status # "active" /\ documents'[v].status = "active"
                => \E p \in Procs : Complete(p, v)]_jobVars
  <2> SUFFICES ASSUME JobInv, JobInv', BuildInv, CompleteInv, JobNext, NEW v \in Versions,
                      documents[v].status # "active", documents'[v].status = "active"
               PROVE  \E p \in Procs : Complete(p, v)
    OBVIOUS
  <2>1. PICK w \in Workers : Switches(w)
    <3>1. ActiveVersions' # ActiveVersions
      BY DEF ActiveVersions
    <3> QED
      BY <3>1, RevisionFacts
  <2>2. w \in Live /\ worker[w].pc = "switch"
    BY <2>1 DEF Switches, Live
  <2>3. worker[w].request \in Requests /\ Version(w) \in Versions /\ ProcOf[w] \in Procs
    BY <2>1, <2>2, LiveRequest, ProcOfAssumption
  <2>4. /\ SwitchActive(Version(w), get_current_revision + 1)
        /\ get_current_revision = jobs[Job(w)].base
    BY <2>1, SwitchFacts DEF CommitAccepted
  <2>5. v = Version(w)
    BY <2>3, <2>4, SwitchedRows DEF JobInv, IInv
  <2>6. Acquired(w) /\ worker[w].step = 4 /\ worker[w].pc \in InTry
    BY <2>2 DEF BuildInv, InPlace, PlacedWell, Before, InStep, StepAt, InTry
  <2>7. CASE ~Committed(v)
    <3>1. Built(w)
      BY <2>2, <2>5, <2>6, <2>7 DEF CompleteInv, Builds
    <3> QED
      BY <2>3, <2>5, <2>6, <3>1 DEF Built, Done, Complete
  <2>8. CASE Committed(v)
    <3>1. Verified(Job(w))
      BY <2>2, <2>6 DEF Verified, Done
    <3>2. jobs[Job(w)].base < get_current_revision
      BY <2>3, <2>5, <2>8, <3>1 DEF CompleteInv, Overtaken, Job, Version
    <3> QED
      BY <2>4, <3>2, RevisionMonotone
  <2> QED
    BY <2>7, <2>8
<1> QED
  BY <1>1, <1>2, BuildInvariantHolds, CompleteInvariantStep, PTL DEF JobSpec, CommitOnlyComplete

-----------------------------------------------------------------------------
(* What has succeeded is published.                                        *)

\* All executions share one process, whose build guard lets one at a version.
OneProcessOnly == \A u, w \in Workers : ProcOf[u] = ProcOf[w]

\* Nothing but crashes fails; or the calls of the steps do, and with more than
\* one failure not those that mark a step.  Reading the markers does not raise.
Contained ==
    /\ "next" \notin FaultPoints
    /\ \/ MaxFaults = 0
       \/ Compensated /\ (MaxFaults = 1 \/ "mark" \notin FaultPoints)

\* No marking of a step fails any more.
Settled == "mark" \notin FaultPoints \/ ~(faults < MaxFaults)

\* A version has one execution at a time.
Sole == \A u, w \in Live : Version(u) = Version(w) => u = w

\* It keeps the lease that it acquired, and does not go back behind its commit.
Owned ==
    \A w \in Live : /\ Acquired(w) => OwnsBuild(w)
                    /\ worker[w].committed => Acquired(w) /\ worker[w].step >= 4

\* The markers of a job are those of its first steps.
Ordered ==
    \A j \in Jobs : \A i, k \in 1 .. 6 : i < k /\ STEPS[k] \in steps[j] => STEPS[i] \in steps[j]

\* An execution works on the first step that is not marked.
Working ==
    \A w \in Live : worker[w].pc \in InLoop =>
        /\ \A k \in 1 .. 6 : k < worker[w].step => STEPS[k] \in steps[Job(w)]
        /\ worker[w].pc \in InStep => STEPS[worker[w].step] \notin steps[Job(w)]

\* The execution has nothing left to do but to mark its last step.
Finishing(w) ==
    \/ worker[w].pc = "mark" /\ worker[w].step = 6
    \/ worker[w].pc = "next" /\ "finalize" \in steps[Job(w)]

\* The job of an execution that works runs until its finalization.
Busy ==
    \A w \in Live : worker[w].pc \in InLoop =>
        /\ ~Finishing(w) => jobs[Job(w)].status = "running"
        /\ Finishing(w) /\ worker[w].committed => jobs[Job(w)].status = "succeeded"

\* The job of a version once committed was based on an earlier revision.
Based ==
    \A r \in Requests : Committed(r.version) =>
        jobs[r.job].status # "absent" /\ jobs[r.job].base < get_current_revision

\* What a committed version replaced is not active any more.
Replaced ==
    \A r \in Requests :
        /\ jobs[r.job].previous # r.version
        /\ Committed(r.version) => \/ jobs[r.job].previous = None
                                   \/ documents[jobs[r.job].previous].status # "active"

\* The compensation has begun and the markers are still there.
Undoing(w) == worker[w].pc \in {"undo_parents", "undo_chunks", "undo_steps"}

\* What an execution of the active version knows.
Serving(w) ==
    /\ worker[w].pc \in InTry /\ ~worker[w].committed => Settled
    /\ worker[w].pc \in InHandler =>
          /\ MaxFaults # 0
          /\ worker[w].committed => Settled /\ worker[w].pc \in {"handler", "fail"}
          /\ ~worker[w].committed => jobs[Job(w)].status # "succeeded"
    /\ worker[w].pc = "short" => jobs[Job(w)].status = "succeeded"
    /\ \/ worker[w].pc \in {"promote_parents", "retire_parents", "retire"}
       \/ worker[w].pc = "mark" /\ worker[w].step = 5
       => points[Version(w)] = "active"

\* What holds of the active version: its commit is followed by its publication,
\* whose marker and whose success mean visible points.
Served(r) ==
    /\ \/ \E w \in Live : Version(w) = r.version /\ worker[w].committed
       \/ jobs[r.job].status = "succeeded"
       \/ Settled
    /\ "publish" \in steps[r.job] =>
          \/ points[r.version] = "active"
          \/ \E w \in Live : Version(w) = r.version /\ Undoing(w)
    /\ jobs[r.job].status = "succeeded" => points[r.version] = "active"
    /\ MaxFaults = 0 => "verify" \in steps[r.job]

\* Both, of every execution of the active version and of its delivery.
Publishing ==
    /\ \A w \in Live : documents[Version(w)].status = "active" => Serving(w)
    /\ \A r \in Requests : documents[r.version].status = "active" => Served(r)

\* Two executions have versions and jobs of their own.
LEMMA Apart ==
    ASSUME JobInv, Sole, Paired, NEW u \in Live, NEW w \in Live, u # w
    PROVE  Version(u) # Version(w) /\ Job(u) # Job(w)
<1>1. Version(u) # Version(w)
  BY DEF Sole
<1>2. worker[u].request \in Requests /\ worker[w].request \in Requests
  BY LiveRequest
<1> QED
  BY <1>1, <1>2 DEF Paired, Job, Version

\* The build guard of the process admits one execution of a version.
LEMMA SoleStep ==
    ASSUME OneProcessOnly, JobInv, Sole, JobNext
    PROVE  Sole'
<1>0. worker \in [Workers -> Execution]
  BY DEF JobInv, WorkersOK
<1>1. ASSUME NEW w \in Workers, Deliver(w)
      PROVE  Sole'
  <2>1. PICK r \in Requests, recover \in BOOLEAN : run(w, r, recover)
    BY <1>1 DEF Deliver
  <2>2. \A u \in Live : Version(u) # r.version
    BY <2>1 DEF run, _claim_build_guard, OneProcessOnly, Live
  <2>3. /\ worker'[w].request = r
        /\ \A u \in Workers \ {w} : worker'[u] = worker[u]
    BY <1>0, <2>1 DEF run
  <2>4. \A u \in Live' : u # w => u \in Live /\ Version(u)' = Version(u)
    BY <2>3 DEF Live, Version
  <2>5. Version(w)' = r.version
    BY <2>3 DEF Version
  <2> QED
    BY <2>2, <2>4, <2>5 DEF Sole
<1>2. ASSUME NEW w \in Workers, Walk(w)
      PROVE  Sole'
  <2>1. \A u \in Live' : u \in Live /\ Version(u)' = Version(u)
    BY <1>2 DEF Walk, Live, Version, Idle
  <2> QED
    BY <2>1 DEF Sole
<1>3. ASSUME Stops PROVE Sole'
  <2>1. \A u \in Live' : u \in Live /\ Version(u)' = Version(u)
    BY <1>3 DEF Stops, Live, Version, Idle
  <2> QED
    BY <2>1 DEF Sole
<1>4. ASSUME NEW p \in Procs, Crash(p) PROVE Stops
  BY <1>4 DEF Crash, Stops
<1> QED
  BY <1>1, <1>2, <1>3, <1>4, AdvanceWalks DEF JobNext

\* The loop goes on to the first step that is not marked, if there is one.
LEMMA NextStepFacts ==
    ASSUME JobInv, NEW w \in Workers, NextStep(w)
    PROVE  \/ Exit(w) /\ \A k \in 1 .. 6 : worker[w].step <= k => STEPS[k] \in steps[Job(w)]
           \/ \E k \in 1 .. 6 :
                 /\ worker'[w].pc = STEPS[k] /\ worker'[w].step = k
                 /\ worker[w].step <= k /\ STEPS[k] \notin steps[Job(w)]
                 /\ \A i \in 1 .. 6 : worker[w].step <= i /\ i < k => STEPS[i] \in steps[Job(w)]
<1> DEFINE todo == {k \in worker[w].step .. 6 : STEPS[k] \notin steps[Job(w)]}
           k == CHOOSE x \in todo : \A y \in todo : x <= y
<1>1. worker \in [Workers -> Execution] /\ worker[w] \in Execution
  BY DEF JobInv, WorkersOK
<1>2. worker[w].step \in 1 .. 7
  BY <1>1 DEF Execution
<1>3. CASE todo = {}
  <2>1. Exit(w)
    BY <1>3 DEF NextStep
  <2>2. \A i \in 1 .. 6 : worker[w].step <= i => STEPS[i] \in steps[Job(w)]
    BY <1>2, <1>3
  <2> QED
    BY <2>1, <2>2
<1>4. CASE todo # {}
  <2>1. todo \in SUBSET (1 .. 6)
    BY <1>2
  <2>2. worker' = [worker EXCEPT ![w].pc = STEPS[k], ![w].step = k]
    BY <1>4 DEF NextStep
  <2>3. k \in todo /\ \A y \in todo : k <= y
    BY <1>4, <2>1, LeastStep
  <2>4. /\ k \in 1 .. 6 /\ worker[w].step <= k /\ STEPS[k] \notin steps[Job(w)]
        /\ \A i \in 1 .. 6 : worker[w].step <= i /\ i < k => STEPS[i] \in steps[Job(w)]
    <3>1. \A i \in 1 .. 6 : worker[w].step <= i /\ STEPS[i] \notin steps[Job(w)] => i \in todo
      BY <1>2
    <3>2. k \in 1 .. 6 /\ worker[w].step <= k /\ STEPS[k] \notin steps[Job(w)]
      BY <1>2, <2>1, <2>3
    <3> HIDE DEF todo, k
    <3>3. \A i \in 1 .. 6 : i < k => ~(k <= i)
      BY <3>2
    <3> QED
      BY <2>3, <3>1, <3>2, <3>3
  <2> HIDE DEF todo, k
  <2>5. worker'[w].pc = STEPS[k] /\ worker'[w].step = k
    BY <1>1, <2>2 DEF Execution
  <2> QED
    BY <2>4, <2>5
<1> QED
  BY <1>3, <1>4

\* How an execution gets to a place behind its acquire.
LEMMA LoopMoves ==
    ASSUME JobInv, NEW u \in Workers, Advance(u) \/ Raise(u), worker'[u].pc \in InLoop
    PROVE  \/ Takes(u)
           \/ NextStep(u)
           \/ mark_step(u)
           \/ /\ worker[u].pc \in InStep \ {"mark"} /\ worker'[u].pc \in InStep
              /\ worker'[u].step = worker[u].step
<1> USE DEF At
<1>0. worker \in [Workers -> Execution] /\ worker[u] \in Execution
  BY DEF JobInv, WorkersOK
<1>1. /\ ~Exit(u)
      /\ \A place : Goto(u, place) => worker'[u].pc = place /\ worker'[u].step = worker[u].step
  BY <1>0 DEF Exit, Idle, Goto, Execution, InLoop, InStep
<1>2. CASE Precheck(u) \/ OwnerCheck(u) \/ _short_circuit_already_indexed(u) \/ Fail(u) \/ Raise(u)
  BY <1>1, <1>2 DEF Precheck, OwnerCheck, _short_circuit_already_indexed, Fail, Raise, InLoop, InStep
<1>3. CASE ReadBase(u)
  BY <1>0, <1>3 DEF ReadBase, Execution, InLoop, InStep
<1>4. CASE _step_acquire(u)
  BY <1>1, <1>4 DEF _step_acquire, Takes, Job, Version, InLoop, InStep
<1>5. CASE _step_write_parents(u) \/ _step_write_qdrant(u) \/ _step_verify(u) \/ _step_finalize(u)
  <2>1. /\ worker[u].pc \in {"write_parents", "write_qdrant", "write_chunks", "verify", "finalize"}
        /\ Goto(u, "write_chunks") \/ Goto(u, "mark") \/ Goto(u, "handler")
    BY <1>5 DEF _step_write_parents, _step_write_qdrant, _step_verify, _step_finalize
  <2> QED
    BY <1>1, <2>1 DEF InLoop, InStep
<1>6. CASE _step_commit(u)
  <2>1. /\ worker[u].pc \in {"commit", "switch"}
        /\ Goto(u, "switch") \/ Goto(u, "handler") \/ Exit(u) \/ Switches(u)
    BY <1>6 DEF _step_commit, _assert_owns_build, Switches
  <2>2. CASE Switches(u)
    BY <1>0, <2>2 DEF Switches, Execution, InStep
  <2> QED
    BY <1>1, <2>1, <2>2 DEF InLoop, InStep
<1>7. CASE _step_publish(u)
  <2>1. /\ worker[u].pc \in {"publish", "promote", "promote_parents", "retire_parents", "retire"}
        /\ \/ Goto(u, "promote") \/ Exit(u) \/ Goto(u, "promote_parents") \/ Goto(u, "mark")
           \/ Goto(u, "retire_parents") \/ Goto(u, "retire")
    BY <1>7 DEF _step_publish, _assert_owns_build
  <2> QED
    BY <1>1, <2>1 DEF InLoop, InStep
<1>8. CASE _compensate(u)
  <2>1. \/ Goto(u, "undo_points") \/ Goto(u, "fail") \/ Goto(u, "undo_parents")
        \/ Goto(u, "undo_chunks") \/ Goto(u, "undo_steps") \/ Goto(u, "undo_row")
    BY <1>8 DEF _compensate
  <2> QED
    BY <1>1, <2>1 DEF InLoop, InStep
<1> QED
  BY <1>2, <1>3, <1>4, <1>5, <1>6, <1>7, <1>8 DEF Advance

\* The marker of the step that an execution is at.
LEMMA MarkFacts ==
    ASSUME JobInv, NEW w \in Workers, mark_step(w)
    PROVE  /\ w \in Live /\ worker[w].pc = "mark" /\ worker[w].step \in 1 .. 6
           /\ worker'[w].pc = "next" /\ worker'[w].step = worker[w].step + 1
           /\ worker'[w].request = worker[w].request /\ worker'[w].committed = worker[w].committed
           /\ \A u \in Workers \ {w} : worker'[u] = worker[u]
           /\ steps'[Job(w)] = steps[Job(w)] \cup {STEPS[worker[w].step]}
           /\ \A j \in Jobs \ {Job(w)} : steps'[j] = steps[j]
           /\ UNCHANGED storeVars
<1>1. worker \in [Workers -> Execution] /\ worker[w] \in Execution /\ Sound(worker[w])
  BY DEF JobInv, WorkersOK
<1>2. w \in Live /\ worker[w].pc = "mark" /\ worker[w].step \in 1 .. 6
  BY <1>1 DEF mark_step, At, Live, Sound, InStep
<1>3. Job(w) \in Jobs
  BY <1>2, LiveRequest
<1>4. /\ worker'[w].pc = "next" /\ worker'[w].step = worker[w].step + 1
      /\ worker'[w].request = worker[w].request /\ worker'[w].committed = worker[w].committed
      /\ \A u \in Workers \ {w} : worker'[u] = worker[u]
  BY <1>1 DEF mark_step, Execution
<1>5. /\ steps'[Job(w)] = steps[Job(w)] \cup {STEPS[worker[w].step]}
      /\ \A j \in Jobs \ {Job(w)} : steps'[j] = steps[j]
  BY <1>3 DEF mark_step, JobInv, PlanesOK
<1> QED
  BY <1>2, <1>4, <1>5 DEF mark_step

\* Markers are added in their order and taken away together.
LEMMA OrderedStep ==
    ASSUME JobInv, Ordered, Working, JobNext
    PROVE  Ordered'
<1>1. ASSUME NEW w \in Workers, mark_step(w)
      PROVE  Ordered'
  <2>1. /\ w \in Live /\ worker[w].pc = "mark" /\ worker[w].step \in 1 .. 6
        /\ steps'[Job(w)] = steps[Job(w)] \cup {STEPS[worker[w].step]}
        /\ \A j \in Jobs \ {Job(w)} : steps'[j] = steps[j]
    BY <1>1, MarkFacts
  <2>2. \A k \in 1 .. 6 : k < worker[w].step => STEPS[k] \in steps[Job(w)]
    BY <2>1 DEF Working, InLoop, InStep
  <2> SUFFICES ASSUME NEW j \in Jobs, NEW i \in 1 .. 6, NEW k \in 1 .. 6, i < k, STEPS[k] \in steps'[j]
               PROVE  STEPS[i] \in steps'[j]
    BY DEF Ordered
  <2>3. CASE j # Job(w)
    BY <2>1, <2>3 DEF Ordered
  <2>4. CASE j = Job(w) /\ STEPS[k] \in steps[j]
    BY <2>1, <2>4 DEF Ordered
  <2>5. CASE j = Job(w) /\ STEPS[k] \notin steps[j]
    <3>1. k = worker[w].step
      BY <2>1, <2>5, StepNames
    <3> QED
      BY <2>1, <2>2, <2>5, <3>1
  <2> QED
    BY <2>3, <2>4, <2>5
<1>2. ASSUME NEW w \in Workers, clear_steps(Job(w))
      PROVE  Ordered'
  <2>1. \A j \in Jobs : steps'[j] = steps[j] \/ steps'[j] = {}
    BY <1>2 DEF clear_steps, JobInv, PlanesOK
  <2> QED
    BY <2>1 DEF Ordered
<1>3. steps' = steps => Ordered'
  BY DEF Ordered
<1> QED
  BY <1>1, <1>2, <1>3, MarkerSteps

\* An execution that goes on has made the step itself or is where it was.
LEMMA Acts ==
    ASSUME JobInv, JobNext, NEW u \in Live, u \in Live'
    PROVE  worker'[u] = worker[u] \/ Advance(u) \/ Raise(u)
<1>1. u \in Workers /\ worker[u].pc # "idle" /\ worker'[u].pc # "idle"
  BY DEF Live
<1>2. ASSUME NEW w \in Workers, Advance(w) \/ Raise(w), Walk(w)
      PROVE  worker'[u] = worker[u] \/ Advance(u) \/ Raise(u)
  BY <1>1, <1>2 DEF Walk
<1>3. ASSUME NEW w \in Workers, Starts(w)
      PROVE  worker'[u] = worker[u]
  BY <1>1, <1>3 DEF Starts
<1>4. Stops => worker'[u] = worker[u]
  BY <1>1 DEF Stops, Idle
<1> QED
  BY <1>2, <1>3, <1>4, WorkerSteps

\* Nobody else acquires the lease while an execution is under way.
LEMMA OwnedStep ==
    ASSUME OneProcessOnly, Paired, JobInv, InPlace, Sole, Owned, JobNext
    PROVE  Owned'
<1> SUFFICES ASSUME NEW u \in Live'
             PROVE  /\ Acquired(u)' => OwnsBuild(u)'
                    /\ (worker[u].committed)' => Acquired(u)' /\ (worker[u].step)' >= 4
  BY DEF Owned
<1>1. CASE Starts(u)
  BY <1>1 DEF Starts, Acquired
<1>2. CASE ~Starts(u)
  <2>1. /\ u \in Live /\ Job(u)' = Job(u) /\ Version(u)' = Version(u)
        /\ worker'[u].generation = worker[u].generation \/ Takes(u)
    BY <1>2, LiveBefore
  <2>2. u \in Workers /\ Version(u) \in Versions /\ Job(u) \in Jobs
    BY <2>1, LiveRequest
  <2>3. CASE Takes(u)
    <3>1. /\ worker'[u].generation = builds'[Version(u)].generation
          /\ builds'[Version(u)].owner = Job(u)
      <4>1. worker \in [Workers -> Execution]
        BY DEF JobInv, WorkersOK
      <4>2. worker' = [worker EXCEPT ![u].pc = "next",
                                     ![u].generation = builds'[Version(u)].generation]
        BY <2>3 DEF Takes
      <4>3. worker'[u].generation = builds'[Version(u)].generation
        <5>1. worker[u] \in Execution
          BY <2>2, <4>1
        <5> QED
          BY <2>2, <4>1, <4>2, <5>1 DEF Execution
      <4> QED
        BY <2>2, <2>3, <4>3, TakenLease
    <3>2. Acquired(u)'
      BY <2>2, <2>3, TakenToken DEF Acquired
    <3>3. ~worker[u].committed
      BY <2>1, <2>3 DEF Owned, InPlace, PlacedWell, Takes, Before
    <3>4. worker'[u].committed = worker[u].committed
      BY <2>2, <2>3 DEF Takes, Execution, JobInv, WorkersOK
    <3> QED
      BY <2>1, <3>1, <3>2, <3>3, <3>4 DEF OwnsBuild, get_build_owner, get_lease_generation
  <2>4. CASE ~Takes(u)
    <3>1. worker'[u].generation = worker[u].generation
      BY <2>1, <2>4
    <3>2. /\ builds'[Version(u)].owner = builds[Version(u)].owner
          /\ builds'[Version(u)].generation = builds[Version(u)].generation
      <4>1. ASSUME NEW w \in Workers, Takes(w)
            PROVE  builds'[Version(u)] = builds[Version(u)]
        <5>1. w \in Live /\ w # u /\ \A v \in Versions \ {Version(w)} : builds'[v] = builds[v]
          BY <2>4, <4>1, TakeFacts
        <5>2. Version(u) # Version(w)
          BY <2>1, <5>1 DEF Sole
        <5> QED
          BY <2>2, <5>1, <5>2
      <4>2. ASSUME NEW w \in Workers, Ends(w)
            PROVE  /\ builds'[Version(u)].owner = builds[Version(u)].owner
                   /\ builds'[Version(u)].generation = builds[Version(u)].generation
        BY <2>2, <4>2, EndFacts
      <4>3. ASSUME NEW w \in Workers, Switches(w) \/ Abandons(w) \/ UNCHANGED storeVars
            PROVE  UNCHANGED builds
        BY <4>3 DEF Switches, Abandons, commit_active_version, mark_document_failed, storeVars
      <4> QED
        BY <2>2, <4>1, <4>2, <4>3, SystemTableSteps DEF Touches, storeVars
    <3>3. Acquired(u)' => OwnsBuild(u)'
      BY <2>1, <3>1, <3>2 DEF Owned, Acquired, OwnsBuild, get_build_owner, get_lease_generation
    <3>4. (worker[u].committed)' => worker[u].committed \/ Switches(u)
      <4>1. worker'[u].pc # "idle"
        BY DEF Live
      <4>2. ASSUME NEW w \in Workers, Walk(w)
            PROVE  worker'[u].committed => worker[u].committed \/ Switches(u)
        BY <2>2, <4>1, <4>2 DEF Walk, Idle
      <4>3. ASSUME NEW w \in Workers, Starts(w)
            PROVE  worker'[u] = worker[u]
        BY <1>2, <2>2, <4>3 DEF Starts
      <4>4. Stops => worker'[u] = worker[u]
        BY <2>2, <4>1 DEF Stops, Idle
      <4> QED
        BY <4>2, <4>3, <4>4, WorkerSteps
    <3>5. Switches(u) => Acquired(u)
      BY <2>1 DEF Switches, InPlace, PlacedWell, Before
    <3>6. (worker[u].committed)' => (worker[u].step)' >= 4
      <4>1. worker[u].step \in 1 .. 7
        BY <2>1, LiveRequest DEF Execution
      <4>2. CASE Switches(u)
        <5>1. worker[u].step = 4
          BY <2>1, <4>2 DEF Switches, InPlace, PlacedWell, InStep, StepAt
        <5>2. worker'[u].step = worker[u].step
          BY <2>2, <4>2 DEF Switches, JobInv, WorkersOK, Execution
        <5> QED
          BY <5>1, <5>2
      <4>3. CASE ~Switches(u)
        <5> SUFFICES ASSUME (worker[u].committed)' PROVE (worker[u].step)' >= 4
          OBVIOUS
        <5>1. worker[u].step >= 4
          BY <2>1, <3>4, <4>3 DEF Owned
        <5>2. worker'[u] = worker[u] \/ Advance(u) \/ Raise(u)
          BY <2>1, Acts
        <5>3. CASE Advance(u) \/ Raise(u)
          <6>1. worker'[u] # Idle
            BY DEF Idle
          <6>2. worker'[u].step = worker[u].step \/ NextStep(u) \/ mark_step(u)
            BY <2>2, <5>3, <6>1, AdvanceWalks DEF Walk
          <6>3. CASE NextStep(u)
            <7>1. ~Exit(u)
              BY <2>2, <6>1 DEF Exit, JobInv, WorkersOK
            <7>2. PICK k \in 1 .. 6 : worker'[u].step = k /\ worker[u].step <= k
              BY <2>2, <6>3, <7>1, NextStepFacts
            <7> QED
              BY <4>1, <5>1, <7>2
          <6>4. CASE mark_step(u)
            BY <2>2, <4>1, <5>1, <6>4, MarkFacts
          <6> QED
            BY <5>1, <6>2, <6>3, <6>4
        <5> QED
          BY <5>1, <5>2, <5>3
      <4> QED
        BY <4>2, <4>3
    <3> QED
      BY <2>1, <3>1, <3>3, <3>4, <3>5, <3>6 DEF Owned, Acquired
  <2> QED
    BY <2>3, <2>4
<1> QED
  BY <1>1, <1>2

\* The markers of an execution's job are its own.
LEMMA JobMarkers ==
    ASSUME Paired, Sole, JobInv, JobNext, NEW u \in Live
    PROVE  \/ steps'[Job(u)] = steps[Job(u)]
           \/ mark_step(u)
           \/ worker[u].pc = "undo_steps"
<1>1. Job(u) \in Jobs
  BY LiveRequest
<1>2. ASSUME NEW w \in Workers, mark_step(w), w # u
      PROVE  steps'[Job(u)] = steps[Job(u)]
  <2>1. w \in Live /\ \A j \in Jobs \ {Job(w)} : steps'[j] = steps[j]
    BY <1>2, MarkFacts
  <2> QED
    BY <1>1, <1>2, <2>1, Apart
<1>3. ASSUME NEW w \in Workers, worker[w].pc = "undo_steps", clear_steps(Job(w)), w # u
      PROVE  steps'[Job(u)] = steps[Job(u)]
  <2>1. w \in Live
    BY <1>3 DEF Live
  <2>2. Job(w) # Job(u)
    BY <1>3, <2>1, Apart
  <2> QED
    BY <1>1, <1>3, <2>2 DEF clear_steps, JobInv, PlanesOK
<1> QED
  BY <1>2, <1>3, MarkerSteps

\* So is its row.
LEMMA JobRows ==
    ASSUME Paired, Sole, JobInv, JobNext, NEW u \in Live
    PROVE  jobs'[Job(u)] = jobs[Job(u)] \/ Takes(u) \/ Ends(u)
<1>1. Job(u) \in Jobs
  BY LiveRequest
<1>2. ASSUME NEW w \in Workers, Takes(w), w # u
      PROVE  jobs'[Job(u)] = jobs[Job(u)]
  <2>1. w \in Live /\ \A j \in Jobs \ {Job(w)} : jobs'[j] = jobs[j]
    BY <1>2, TakeFacts
  <2> QED
    BY <1>1, <1>2, <2>1, Apart
<1>3. ASSUME NEW w \in Workers, Ends(w), w # u
      PROVE  jobs'[Job(u)] = jobs[Job(u)]
  <2>1. w \in Live
    BY <1>3, EndFacts
  <2>2. Job(w) # Job(u)
    BY <1>3, <2>1, Apart
  <2> QED
    BY <1>1, <1>3, <2>2, EndFacts
<1>4. ASSUME NEW w \in Workers, Switches(w) \/ Abandons(w) \/ UNCHANGED storeVars
      PROVE  UNCHANGED jobs
  BY <1>4 DEF Switches, Abandons, commit_active_version, mark_document_failed, storeVars
<1> QED
  BY <1>2, <1>3, <1>4, SystemTableSteps DEF Touches, storeVars

\* An execution has marked what it has done, and not what it is at.
LEMMA WorkingStep ==
    ASSUME Paired, Sole, InPlace, JobInv, Working, JobNext
    PROVE  Working'
<1> SUFFICES ASSUME NEW u \in Live', (worker[u].pc)' \in InLoop
             PROVE  /\ \A k \in 1 .. 6 : k < (worker[u].step)' => STEPS[k] \in (steps[Job(u)])'
                    /\ (worker[u].pc)' \in InStep => STEPS[(worker[u].step)'] \notin (steps[Job(u)])'
  BY DEF Working
<1>1. /\ u \in Live /\ Job(u)' = Job(u)
      /\ worker[u].pc \in InLoop \/ Takes(u)
  BY InLoopBefore
<1>2. u \in Workers /\ worker[u] \in Execution /\ worker[u].step \in 1 .. 7
  BY <1>1, LiveRequest DEF Execution
<1>3. CASE mark_step(u)
  <2>1. /\ worker[u].pc = "mark" /\ worker[u].step \in 1 .. 6
        /\ worker'[u].pc = "next" /\ worker'[u].step = worker[u].step + 1
        /\ steps'[Job(u)] = steps[Job(u)] \cup {STEPS[worker[u].step]}
    BY <1>2, <1>3, MarkFacts
  <2>2. \A k \in 1 .. 6 : k < worker[u].step => STEPS[k] \in steps[Job(u)]
    BY <1>1, <2>1 DEF Working, InLoop, InStep
  <2>3. \A k \in 1 .. 6 : k < worker[u].step + 1 => k < worker[u].step \/ k = worker[u].step
    BY <2>1
  <2>4. "next" \notin InStep
    BY DEF InStep
  <2> QED
    BY <1>1, <2>1, <2>2, <2>3, <2>4
<1>4. CASE ~mark_step(u)
  <2>1. worker[u].pc # "undo_steps"
    BY <1>1 DEF Takes, InLoop, InStep
  <2>2. (steps[Job(u)])' = steps[Job(u)]
    BY <1>1, <1>4, <2>1, JobMarkers
  <2>3. CASE worker'[u] = worker[u]
    BY <1>1, <2>2, <2>3 DEF Working, Takes, InLoop, InStep
  <2>4. CASE Takes(u)
    <3>1. worker'[u].pc = "next" /\ worker'[u].step = worker[u].step
      BY <1>2, <2>4, TakenToken
    <3>2. worker[u].step = 1
      BY <1>1, <2>4 DEF InPlace, PlacedWell, Takes, Before
    <3>3. "next" \notin InStep /\ \A k \in 1 .. 6 : ~(k < 1)
      BY DEF InStep
    <3> QED
      BY <3>1, <3>2, <3>3
  <2>5. CASE NextStep(u)
    <3>1. worker[u].pc = "next"
      BY <2>5 DEF NextStep, At
    <3>2. \A k \in 1 .. 6 : k < worker[u].step => STEPS[k] \in steps[Job(u)]
      BY <1>1, <3>1 DEF Working, InLoop
    <3>3. worker'[u].pc # "idle" /\ ~Exit(u)
      <4>1. worker'[u].pc # "idle"
        BY DEF InLoop, InStep
      <4> QED
        BY <1>2, <4>1 DEF Exit, Idle, JobInv, WorkersOK
    <3>4. PICK k \in 1 .. 6 :
             /\ worker'[u].pc = STEPS[k] /\ worker'[u].step = k
             /\ worker[u].step <= k /\ STEPS[k] \notin steps[Job(u)]
             /\ \A i \in 1 .. 6 : worker[u].step <= i /\ i < k => STEPS[i] \in steps[Job(u)]
      BY <1>2, <2>5, <3>3, NextStepFacts
    <3>5. \A i \in 1 .. 6 : i < k => STEPS[i] \in steps[Job(u)]
      <4>1. \A i \in 1 .. 6 : i < worker[u].step \/ worker[u].step <= i
        BY <1>2
      <4> QED
        BY <3>2, <3>4, <4>1
    <3> QED
      BY <2>2, <3>4, <3>5
  <2>6. CASE /\ worker[u].pc \in InStep \ {"mark"} /\ worker'[u].pc \in InStep
             /\ worker'[u].step = worker[u].step
    BY <1>1, <2>2, <2>6 DEF Working, InLoop
  <2>7. worker'[u] = worker[u] \/ Advance(u) \/ Raise(u)
    BY <1>1, Acts
  <2> QED
    BY <1>2, <1>4, <2>3, <2>4, <2>5, <2>6, <2>7, LoopMoves
<1> QED
  BY <1>3, <1>4

\* The names of the last steps.
LEMMA LastSteps ==
    /\ STEPS[4] = "commit" /\ STEPS[5] = "publish" /\ STEPS[6] = "finalize"
    /\ \A k \in 1 .. 6 : STEPS[k] \notin {"mark", "next"}
    /\ \A k \in 1 .. 6 : STEPS[k] = "finalize" => k = 6
<1>1. 1 .. 6 = {1, 2, 3, 4, 5, 6}
  OBVIOUS
<1> QED
  BY <1>1 DEF STEPS

\* What happens at the last step: it is made, or it raises.
LEMMA AtFinalize ==
    ASSUME NEW u \in Workers, worker[u].pc = "finalize", Advance(u) \/ Raise(u)
    PROVE  _step_finalize(u) \/ (UNCHANGED storeVars /\ Goto(u, "handler"))
<1>1. Raise(u) => UNCHANGED storeVars /\ Goto(u, "handler")
  BY DEF Raise, InTry, InHandler
<1>2. Advance(u) => _step_finalize(u)
  BY DEF Advance, At, Precheck, OwnerCheck, _short_circuit_already_indexed, ReadBase,
         _step_acquire, NextStep, mark_step, _step_write_parents, _step_write_qdrant,
         _step_verify, _step_commit, _step_publish, _compensate, Fail
<1> QED
  BY <1>1, <1>2

\* It moves the execution,
LEMMA FinalizeMoves ==
    ASSUME JobInv, NEW u \in Workers, worker[u].pc = "finalize", Advance(u)
    PROVE  worker'[u] # worker[u]
<1>1. worker \in [Workers -> Execution] /\ worker[u] \in Execution
  BY DEF JobInv, WorkersOK
<1>2. Goto(u, "mark") \/ Goto(u, "handler")
  BY AtFinalize DEF _step_finalize
<1>3. worker'[u].pc \in {"mark", "handler"}
  BY <1>1, <1>2 DEF Goto, Execution
<1> QED
  BY <1>3

\* and if it goes on, the job has succeeded.
LEMMA FinalizeFacts ==
    ASSUME JobInv, NEW u \in Live, worker[u].pc = "finalize", Advance(u) \/ Raise(u),
           worker'[u].pc \in InStep, jobs[Job(u)].status = "running"
    PROVE  jobs'[Job(u)].status = "succeeded" /\ worker'[u].pc = "mark"
<1>1. worker \in [Workers -> Execution] /\ worker[u] \in Execution /\ u \in Workers /\ Job(u) \in Jobs
  BY LiveRequest DEF JobInv, WorkersOK
<1>2. ~Goto(u, "handler")
  BY <1>1 DEF Goto, Execution, InStep
<1>3. _step_finalize(u)
  BY <1>1, <1>2, AtFinalize
<1>4. worker'[u].pc = "mark"
  BY <1>1, <1>3 DEF _step_finalize, Goto, Execution
<1>5. mark_job_terminal(Job(u), "succeeded") /\ jobs \in [Jobs -> JobRow]
  BY <1>3 DEF _step_finalize, JobInv, IInv, TypeOK
<1>6. jobs'[Job(u)].status = "succeeded"
  BY <1>1, <1>5 DEF mark_job_terminal, JobRow
<1> QED
  BY <1>4, <1>6

\* The places where the steps begin.
LEMMA StepsAre ==
    ASSUME NEW k \in 1 .. 6
    PROVE  /\ STEPS[k] \in {"write_parents", "write_qdrant", "verify", "commit", "publish", "finalize"}
           /\ STEPS[k] = "publish" => k = 5
<1>1. k \in {1, 2, 3, 4, 5, 6}
  OBVIOUS
<1> QED
  BY <1>1 DEF STEPS

\* The row of a job runs from the acquire to the finalization.
LEMMA BusyStep ==
    ASSUME Paired, Sole, InPlace, Owned, JobInv, Ordered, Working, Busy, JobNext
    PROVE  Busy'
<1> SUFFICES ASSUME NEW u \in Live', (worker[u].pc)' \in InLoop
             PROVE  /\ ~Finishing(u)' => (jobs[Job(u)].status)' = "running"
                    /\ Finishing(u)' /\ (worker[u].committed)' => (jobs[Job(u)].status)' = "succeeded"
  BY DEF Busy
<1>1. /\ u \in Live /\ Job(u)' = Job(u)
      /\ worker[u].pc \in InLoop \/ Takes(u)
  BY InLoopBefore
<1>2. u \in Workers /\ worker[u] \in Execution /\ worker[u].step \in 1 .. 7 /\ Job(u) \in Jobs
  BY <1>1, LiveRequest DEF Execution
<1>3. CASE mark_step(u)
  <2>1. /\ worker[u].pc = "mark" /\ worker[u].step \in 1 .. 6
        /\ worker'[u].pc = "next" /\ worker'[u].committed = worker[u].committed
        /\ steps'[Job(u)] = steps[Job(u)] \cup {STEPS[worker[u].step]}
        /\ jobs' = jobs
    BY <1>2, <1>3, MarkFacts DEF storeVars
  <2>2. STEPS[worker[u].step] \notin steps[Job(u)]
    BY <1>1, <2>1 DEF Working, InLoop, InStep
  <2>3. worker[u].pc \in InLoop
    BY <2>1 DEF InLoop, InStep
  <2>4. CASE worker[u].step = 6
    <3>1. Finishing(u) /\ Finishing(u)'
      BY <1>1, <2>1, <2>4, LastSteps DEF Finishing
    <3> QED
      BY <1>1, <2>1, <2>3, <3>1 DEF Busy
  <2>5. CASE worker[u].step # 6
    <3>1. ~Finishing(u)
      BY <2>1, <2>5 DEF Finishing
    <3>2. "finalize" \notin steps[Job(u)]
      <4>1. worker[u].step \in 1 .. 6 /\ 6 \in 1 .. 6 /\ worker[u].step < 6
        BY <2>1, <2>5
      <4> QED
        BY <1>2, <2>2, <4>1, LastSteps DEF Ordered
    <3>3. ~Finishing(u)'
      BY <1>1, <2>1, <2>5, <3>2, LastSteps DEF Finishing
    <3> QED
      BY <1>1, <2>1, <2>3, <3>1, <3>3 DEF Busy
  <2> QED
    BY <2>4, <2>5
<1>4. CASE ~mark_step(u)
  <2>1. worker[u].pc # "undo_steps"
    BY <1>1 DEF Takes, InLoop, InStep
  <2>2. (steps[Job(u)])' = steps[Job(u)]
    BY <1>1, <1>4, <2>1, JobMarkers
  <2>3. jobs'[Job(u)] = jobs[Job(u)] \/ Takes(u) \/ Ends(u)
    BY <1>1, JobRows
  <2>4. CASE worker'[u] = worker[u]
    <3>1. worker'[u].pc # "idle" /\ worker[u].pc \in InLoop
      BY <2>4 DEF InLoop, InStep
    <3>2. ~Takes(u)
      BY <3>1 DEF Takes, InLoop, InStep
    <3>3. ~Ends(u) \/ jobs'[Job(u)] = jobs[Job(u)]
      <4>1. CASE Ends(u)
        <5>1. worker[u].pc = "finalize"
          BY <3>1, <4>1 DEF Ends, InLoop, InStep
        <5>2. ASSUME NEW w \in Workers, Advance(w), Touches(w)
              PROVE  w = u \/ jobs'[Job(u)] = jobs[Job(u)]
          <6> SUFFICES ASSUME w # u PROVE jobs'[Job(u)] = jobs[Job(u)]
            OBVIOUS
          <6>1. Walk(w) /\ w \in Live
            BY <5>2, AdvanceWalks DEF Walk, Live
          <6>2. Job(w) # Job(u)
            BY <1>1, <6>1, Apart
          <6>3. Takes(w) => jobs'[Job(u)] = jobs[Job(u)]
            BY <1>2, <6>2, TakeFacts
          <6>4. Ends(w) => jobs'[Job(u)] = jobs[Job(u)]
            BY <1>2, <6>2, EndFacts
          <6>5. Switches(w) \/ Abandons(w) => jobs' = jobs
            BY DEF Switches, Abandons, commit_active_version, mark_document_failed
          <6> QED
            BY <5>2, <6>3, <6>4, <6>5 DEF Touches
        <5>3. ~Advance(u)
          BY <1>2, <2>4, <5>1, FinalizeMoves
        <5> QED
          BY <5>2, <5>3, SystemTableSteps DEF storeVars
      <4> QED
        BY <4>1
    <3>4. jobs'[Job(u)] = jobs[Job(u)]
      BY <2>3, <3>2, <3>3
    <3>5. Finishing(u)' <=> Finishing(u)
      BY <1>1, <2>2, <2>4 DEF Finishing
    <3> QED
      BY <1>1, <2>4, <3>1, <3>4, <3>5 DEF Busy
  <2>5. CASE Takes(u)
    <3>1. jobs'[Job(u)].status = "running"
      BY <1>2, <2>5, TakenJob
    <3>2. ~worker[u].committed
      BY <1>1, <2>5 DEF Owned, InPlace, PlacedWell, Takes, Before
    <3>3. worker'[u].committed = worker[u].committed
      BY <1>2, <2>5 DEF Takes, Execution, JobInv, WorkersOK
    <3> QED
      BY <1>1, <3>1, <3>2, <3>3
  <2>6. CASE NextStep(u)
    <3>1. worker[u].pc = "next" /\ jobs' = jobs
      BY <2>6 DEF NextStep, At, storeVars
    <3>2. ~Exit(u)
      <4>1. worker'[u].pc # "idle"
        BY DEF InLoop, InStep
      <4> QED
        BY <1>2, <4>1 DEF Exit, Idle, JobInv, WorkersOK
    <3>3. PICK k \in 1 .. 6 :
             worker'[u].pc = STEPS[k] /\ worker'[u].step = k /\ STEPS[k] \notin steps[Job(u)]
      BY <1>2, <2>6, <3>2, NextStepFacts
    <3>4. "finalize" \notin steps[Job(u)]
      <4>1. k < 6 \/ k = 6
        BY <3>3
      <4> QED
        BY <1>2, <3>3, <4>1, LastSteps DEF Ordered
    <3>5. ~Finishing(u) /\ ~Finishing(u)'
      BY <3>1, <3>3, <3>4, LastSteps DEF Finishing
    <3> QED
      BY <1>1, <3>1, <3>5 DEF Busy, InLoop
  <2>7. CASE /\ worker[u].pc \in InStep \ {"mark"} /\ worker'[u].pc \in InStep
             /\ worker'[u].step = worker[u].step /\ (Advance(u) \/ Raise(u))
    <3>1. worker[u].pc # "next" /\ worker[u].pc # "mark" /\ worker[u].pc \in InLoop
          /\ worker'[u].pc # "next"
      BY <2>7 DEF InStep, InLoop
    <3>2. ~Finishing(u)
      BY <3>1 DEF Finishing
    <3>3. jobs[Job(u)].status = "running"
      BY <1>1, <3>1, <3>2 DEF Busy
    <3>4. worker[u].step = StepAt(worker[u].pc)
      BY <1>1, <2>7 DEF InPlace, PlacedWell
    <3>5. CASE worker[u].pc = "finalize"
      <4>1. jobs'[Job(u)].status = "succeeded" /\ worker'[u].pc = "mark"
        BY <1>1, <1>2, <2>7, <3>3, <3>5, FinalizeFacts
      <4>2. Finishing(u)'
        BY <2>7, <3>4, <3>5, <4>1 DEF Finishing, StepAt
      <4> QED
        BY <1>1, <4>1, <4>2
    <3>6. CASE worker[u].pc # "finalize"
      <4>1. ~Ends(u) /\ ~Takes(u)
        BY <2>7, <3>6 DEF Ends, Takes, InStep
      <4>2. worker[u].step # 6
        BY <2>7, <3>4, <3>6 DEF StepAt, InStep
      <4>3. ~Finishing(u)'
        BY <2>7, <3>1, <4>2 DEF Finishing
      <4> QED
        BY <1>1, <2>3, <3>3, <4>1, <4>3
    <3> QED
      BY <3>5, <3>6
  <2>8. worker'[u] = worker[u] \/ Advance(u) \/ Raise(u)
    BY <1>1, Acts
  <2> QED
    BY <1>2, <1>4, <2>4, <2>5, <2>6, <2>7, <2>8, LoopMoves
<1> QED
  BY <1>3, <1>4

\* A switch that makes a version active is its first: a later one comes with a
\* base of the past.
LEMMA FirstSwitch ==
    ASSUME Paired, JobInv, Based, NEW w \in Workers, Switches(w),
           documents[Version(w)].status # "active"
    PROVE  /\ jobs[Job(w)].base = get_current_revision
           /\ ~Committed(Version(w))
<1>1. w \in Live
  BY DEF Switches, Live
<1>2. worker[w].request \in Requests
  BY <1>1, LiveRequest
<1>3. jobs[Job(w)].base = get_current_revision
  BY DEF Switches, commit_active_version, CommitAccepted
<1>4. get_current_revision \in Nat
  BY CurrentRevision DEF JobInv, IInv, RowsInv
<1>5. ~(jobs[Job(w)].base < get_current_revision)
  BY <1>3, <1>4
<1> QED
  BY <1>2, <1>3, <1>5 DEF Based, Job, Version

\* A version becomes active by its first switch only.
LEMMA NewlyActive ==
    ASSUME Paired, JobInv, JobInv', Based, JobNext, NEW v \in Versions,
           documents'[v].status = "active", documents[v].status # "active"
    PROVE  ~Committed(v) /\ \E w \in Workers : Switches(w) /\ Version(w) = v
<1>1. ASSUME NEW w \in Workers, Switches(w)
      PROVE  Version(w) = v /\ ~Committed(v)
  <2>1. Version(w) \in Versions
    BY <1>1, RequestParts DEF Switches, JobInv
  <2>2. /\ documents[Version(w)].status # "active"
        /\ SwitchActive(Version(w), get_current_revision + 1)
    BY <1>1, SwitchFacts
  <2>3. Version(w) = v
    <3>1. \A x \in Versions : x # Version(w) =>
             documents'[x].status =
                IF documents[x].status = "active" THEN "deprecated" ELSE documents[x].status
      BY <2>1, <2>2, SwitchedRows DEF JobInv, IInv
    <3> QED
      BY <3>1
  <2> QED
    BY <1>1, <2>2, <2>3, FirstSwitch
<1>2. \E w \in Workers : Switches(w)
  <2> SUFFICES ASSUME ~\E w \in Workers : Switches(w) PROVE FALSE
    OBVIOUS
  <2>1. ActiveVersions' = ActiveVersions
    BY RevisionFacts
  <2>2. v \in ActiveVersions' /\ v \notin ActiveVersions
    BY DEF ActiveVersions
  <2> QED
    BY <2>1, <2>2
<1> QED
  BY <1>1, <1>2

\* What a delivery's job row keeps, once it is there.
LEMMA RowKept ==
    ASSUME JobInv, JobNext, NEW j \in Jobs, jobs[j].status # "absent"
    PROVE  jobs'[j].status # "absent" /\ jobs'[j].base = jobs[j].base
<1>1. ASSUME NEW w \in Workers, Takes(w)
      PROVE  jobs'[j].status # "absent" /\ jobs'[j].base = jobs[j].base
  <2>1. \A i \in Jobs \ {Job(w)} : jobs'[i] = jobs[i]
    BY <1>1, TakeFacts
  <2> QED
    BY <1>1, <2>1, TakenJob
<1>2. ASSUME NEW w \in Workers, Ends(w)
      PROVE  jobs'[j].status # "absent" /\ jobs'[j].base = jobs[j].base
  BY <1>2, EndFacts
<1>3. ASSUME NEW w \in Workers, Switches(w) \/ Abandons(w) \/ UNCHANGED storeVars
      PROVE  UNCHANGED jobs
  BY <1>3 DEF Switches, Abandons, commit_active_version, mark_document_failed, storeVars
<1> QED
  BY <1>1, <1>2, <1>3, SystemTableSteps DEF Touches, storeVars

\* A commit puts the document ahead of the base it was made from.
LEMMA BasedStep ==
    ASSUME Paired, JobInv, JobInv', RowsPaired, Bases, Based, JobNext
    PROVE  Based'
<1> SUFFICES ASSUME NEW r \in Requests, Committed(r.version)'
             PROVE  jobs'[r.job].status # "absent" /\ jobs'[r.job].base < get_current_revision'
  BY DEF Based
<1>0. r.job \in Jobs /\ r.version \in Versions /\ jobs[r.job].base \in Nat
  BY RequestTypes DEF JobInv, IInv, TypeOK, JobRow
<1>1. /\ get_current_revision \in Nat /\ get_current_revision' \in Nat
      /\ get_current_revision <= get_current_revision'
  BY RevisionMonotone
<1>2. CASE Committed(r.version)
  <2>1. jobs[r.job].status # "absent" /\ jobs[r.job].base < get_current_revision
    BY <1>2 DEF Based
  <2>2. jobs'[r.job].status # "absent" /\ jobs'[r.job].base = jobs[r.job].base
    BY <1>0, <2>1, RowKept
  <2> QED
    BY <1>0, <1>1, <2>1, <2>2
<1>3. CASE ~Committed(r.version)
  <2>1. PICK w \in Workers : Switches(w) /\ Version(w) = r.version
    BY <1>0, <1>3, CommittedFacts
  <2>2. w \in Live /\ worker[w].pc \in InLoop
    BY <2>1 DEF Switches, Live, InLoop, InStep
  <2>3. worker[w].request \in Requests
    BY <2>2, LiveRequest
  <2>4. Job(w) = r.job
    BY <2>1, <2>3 DEF Paired, Job, Version
  <2>5. jobs[r.job].status # "absent"
    BY <2>2, <2>4 DEF RowsPaired
  <2>6. documents[Version(w)].status # "active"
    BY <1>3, <2>1 DEF Committed
  <2>7. jobs' = jobs /\ get_current_revision' = get_current_revision + 1
    BY <2>1, <2>6, SwitchFacts
  <2>8. jobs[r.job].base = get_current_revision
    BY <2>1, <2>4, <2>6, FirstSwitch
  <2> QED
    BY <1>0, <1>1, <2>5, <2>7, <2>8
<1> QED
  BY <1>2, <1>3

\* Once a job has its row it names the same previous version for ever.
LEMMA PreviousKept ==
    ASSUME Paired, JobInv, PairedInv, JobNext, NEW r \in Requests, jobs[r.job].status # "absent"
    PROVE  jobs'[r.job].previous = jobs[r.job].previous
<1>0. r.job \in Jobs /\ r.version \in Versions
  BY RequestTypes
<1>1. ASSUME NEW w \in Workers, Takes(w)
      PROVE  jobs'[r.job].previous = jobs[r.job].previous
  <2>1. w \in Live /\ \A j \in Jobs \ {Job(w)} : jobs'[j] = jobs[j]
    BY <1>1, TakeFacts
  <2>2. CASE r.job # Job(w)
    BY <1>0, <2>1, <2>2
  <2>3. CASE r.job = Job(w)
    <3>1. Version(w) = r.version
      BY <2>1, <2>3, LiveRequest DEF Paired, Job, Version
    <3>2. builds[r.version].status # "absent" /\ jobs[r.job].previous = builds[r.version].previous
      BY DEF PairedInv, RowsPaired, Replaces
    <3>3. LeasePrevious(r.version) = jobs[r.job].previous
      BY <3>2 DEF LeasePrevious
    <3> QED
      BY <1>1, <2>3, <3>1, <3>3, TakenJob
  <2> QED
    BY <2>2, <2>3
<1>2. ASSUME NEW w \in Workers, Ends(w)
      PROVE  jobs'[r.job].previous = jobs[r.job].previous
  BY <1>0, <1>2, EndFacts
<1>3. ASSUME NEW w \in Workers, Switches(w) \/ Abandons(w) \/ UNCHANGED storeVars
      PROVE  UNCHANGED jobs
  BY <1>3 DEF Switches, Abandons, commit_active_version, mark_document_failed, storeVars
<1> QED
  BY <1>1, <1>2, <1>3, SystemTableSteps DEF Touches, storeVars

\* No job names the version it builds, and what a commit replaced stays replaced.
LEMMA ReplacedStep ==
    ASSUME Paired, JobInv, JobInv', PairedInv, Retirable, Based, Replaced, JobNext
    PROVE  Replaced'
<1> SUFFICES ASSUME NEW r \in Requests
             PROVE  /\ jobs'[r.job].previous # r.version
                    /\ Committed(r.version)' =>
                          \/ jobs'[r.job].previous = None
                          \/ documents'[jobs'[r.job].previous].status # "active"
  BY DEF Replaced
<1>0. /\ r.job \in Jobs /\ r.version \in Versions /\ r.version # None
      /\ jobs[r.job].previous \in Versions \cup {None}
  BY RequestTypes, NoneAssumption DEF JobInv, IInv, TypeOK, JobRow
<1>1. CASE jobs[r.job].status = "absent"
  <2>1. ~Committed(r.version) /\ builds[r.version].status = "absent"
    BY <1>1 DEF Based, PairedInv, RowsPaired
  <2>2. ~Committed(r.version)'
    <3> SUFFICES ASSUME NEW w \in Workers, Switches(w), Version(w) = r.version PROVE FALSE
      BY <1>0, <2>1, CommittedFacts
    <3>1. w \in Live /\ worker[w].pc \in InLoop
      BY DEF Switches, Live, InLoop, InStep
    <3>2. Job(w) = r.job
      BY <3>1, LiveRequest DEF Paired, Job, Version
    <3> QED
      BY <1>1, <3>1, <3>2 DEF PairedInv, RowsPaired
  <2>3. get_active_version # r.version
    BY <1>0, <2>1 DEF get_active_version, ActiveVersions, Committed
  <2>4. jobs'[r.job].previous # r.version
    <3>1. jobs[r.job].previous # r.version
      BY DEF Replaced
    <3>2. ASSUME NEW w \in Workers, Takes(w)
          PROVE  jobs'[r.job].previous # r.version
      <4>1. w \in Live /\ \A j \in Jobs \ {Job(w)} : jobs'[j] = jobs[j]
        BY <3>2, TakeFacts
      <4>2. CASE r.job # Job(w)
        BY <1>0, <3>1, <4>1, <4>2
      <4>3. CASE r.job = Job(w)
        <5>1. Version(w) = r.version
          BY <4>1, <4>3, LiveRequest DEF Paired, Job, Version
        <5>2. jobs'[r.job].previous = LeasePrevious(r.version)
          BY <1>1, <3>2, <4>3, <5>1, TakenJob
        <5> QED
          BY <2>1, <2>3, <5>2 DEF LeasePrevious
      <4> QED
        BY <4>2, <4>3
    <3>3. ASSUME NEW w \in Workers, Ends(w)
          PROVE  jobs'[r.job].previous = jobs[r.job].previous
      BY <1>0, <3>3, EndFacts
    <3>4. ASSUME NEW w \in Workers, Switches(w) \/ Abandons(w) \/ UNCHANGED storeVars
          PROVE  UNCHANGED jobs
      BY <3>4 DEF Switches, Abandons, commit_active_version, mark_document_failed, storeVars
    <3> QED
      BY <3>1, <3>2, <3>3, <3>4, SystemTableSteps DEF Touches, storeVars
  <2> QED
    BY <2>2, <2>4
<1>2. CASE jobs[r.job].status # "absent"
  <2> DEFINE previous == jobs[r.job].previous
  <2>1. jobs'[r.job].previous = previous /\ previous # r.version
    BY <1>2, PreviousKept DEF Replaced
  <2>2. ASSUME previous # None, Committed(r.version)'
        PROVE  documents'[previous].status # "active"
    <3>1. previous \in Versions /\ Committed(previous)
      BY <1>0, <2>2 DEF Retirable
    <3>2. CASE Committed(r.version)
      <4>1. documents[previous].status # "active"
        BY <2>2, <3>2 DEF Replaced
      <4> QED
        BY <3>1, <4>1, NewlyActive
    <3>3. CASE ~Committed(r.version)
      <4>1. PICK w \in Workers : Switches(w) /\ Version(w) = r.version
        BY <1>0, <2>2, <3>3, CommittedFacts
      <4>2. documents[Version(w)].status # "active"
        BY <3>3, <4>1 DEF Committed
      <4>3. SwitchActive(Version(w), get_current_revision + 1)
        BY <4>1, <4>2, SwitchFacts
      <4>4. \A x \in Versions : x # Version(w) => documents'[x].status # "active"
        <5>1. \A x \in Versions : x # Version(w) =>
             documents'[x].status =
                IF documents[x].status = "active" THEN "deprecated" ELSE documents[x].status
          BY <1>0, <4>1, <4>3, SwitchedRows DEF JobInv, IInv
        <5> QED
          BY <5>1
      <4> QED
        BY <2>1, <3>1, <4>1, <4>4
    <3> QED
      BY <3>2, <3>3
  <2> QED
    BY <2>1, <2>2
<1> QED
  BY <1>1, <1>2

\* What holds of the active version, as far as its only execution is concerned.
Upheld(w, j, v) ==
    /\ worker[w].committed \/ jobs[j].status = "succeeded" \/ Settled
    /\ "publish" \in steps[j] => points[v] = "active" \/ Undoing(w)
    /\ jobs[j].status = "succeeded" => points[v] = "active"
    /\ MaxFaults = 0 => "verify" \in steps[j]

\* Execution w is the one of the active version v, under job j.
Serves(w, j, v) ==
    /\ Job(w) = j /\ Version(w) = v /\ documents[v].status = "active"
    /\ Serving(w) /\ Upheld(w, j, v)

\* It leaves the version as it should be, and knows what it should.
StillServes(w, j, v) ==
    /\ Upheld(w, j, v)'
    /\ worker'[w].pc # "idle" => Serving(w)'

\* A statement that only moves the execution changes its place.
LEMMA Moved ==
    ASSUME JobInv, NEW w \in Workers, NEW place, Goto(w, place)
    PROVE  /\ worker'[w].pc = place /\ worker'[w].step = worker[w].step
           /\ worker'[w].committed = worker[w].committed
           /\ Job(w)' = Job(w) /\ Version(w)' = Version(w)
<1>1. worker \in [Workers -> Execution] /\ worker[w] \in Execution
  BY DEF JobInv, WorkersOK
<1>2. /\ worker'[w].pc = place /\ worker'[w].step = worker[w].step
      /\ worker'[w].committed = worker[w].committed /\ worker'[w].request = worker[w].request
  BY <1>1 DEF Goto, Execution
<1> QED
  BY <1>2 DEF Job, Version

\* The end of run() leaves nothing of it.
LEMMA Left ==
    ASSUME JobInv, NEW w \in Workers, Exit(w)
    PROVE  worker'[w].pc = "idle" /\ ~worker'[w].committed
BY DEF Exit, Idle, JobInv, WorkersOK

\* The places before the acquire.
LEMMA EarlySteps ==
    ASSUME JobInv, Owned, InPlace, RowsPaired, Bindings, NEW r \in Requests, NEW w \in Live,
           Serves(w, r.job, r.version),
           Precheck(w) \/ OwnerCheck(w) \/ _short_circuit_already_indexed(w) \/ ReadBase(w)
    PROVE  StillServes(w, r.job, r.version)
<1> DEFINE j == r.job
           v == r.version
<1> USE DEF At, planes
<1>0. /\ w \in Workers /\ j \in Jobs /\ v \in Versions
      /\ worker \in [Workers -> Execution] /\ worker[w] \in Execution
  BY LiveRequest, RequestTypes DEF JobInv, WorkersOK
<1>1. /\ worker[w].pc \in {"precheck", "owner", "short", "base"}
      /\ steps' = steps /\ points' = points /\ faults' = faults
  BY DEF Precheck, OwnerCheck, _short_circuit_already_indexed, ReadBase
<1>2. ~worker[w].committed /\ ~Undoing(w)
  BY <1>1 DEF Owned, InPlace, PlacedWell, Before, Undoing
<1>3. /\ jobs[j].status = "succeeded" \/ Settled
      /\ "publish" \in steps[j] => points[v] = "active"
      /\ jobs[j].status = "succeeded" => points[v] = "active"
      /\ MaxFaults = 0 => "verify" \in steps[j]
  BY <1>2 DEF Serves, Upheld
<1>4. Settled' <=> Settled
  BY <1>1 DEF Settled
<1>5. jobs'[j].status = jobs[j].status => Upheld(w, j, v)'
  BY <1>1, <1>3, <1>4 DEF Upheld
<1>6. CASE Precheck(w)
  <2>1. jobs' = jobs
    BY <1>6 DEF Precheck, storeVars
  <2>2. Exit(w) \/ Goto(w, "owner")
    BY <1>6 DEF Precheck, Serves
  <2>3. worker'[w].pc # "idle" => Serving(w)'
    BY <1>0, <2>2, Left, Moved DEF Serving, InTry, InHandler
  <2> QED
    BY <1>5, <2>1, <2>3 DEF StillServes
<1>7. CASE OwnerCheck(w)
  <2>1. jobs' = jobs
    BY <1>7 DEF OwnerCheck, storeVars
  <2>2. jobs[j].status = "succeeded" <=> PublishedBy(v)
    <3>1. CASE builds[v].status = "absent"
      <4>1. jobs[j].status = "absent" /\ builds[v].owner = None
        BY <1>0, <3>1 DEF RowsPaired, Bindings
      <4> QED
        BY <4>1 DEF PublishedBy, get_job_status, get_build_owner
    <3>2. CASE builds[v].status # "absent"
      <4>1. builds[v].owner = j /\ j # None
        BY <1>0, <3>2, NoneAssumption DEF RowsPaired
      <4> QED
        BY <4>1 DEF PublishedBy, get_job_status, get_build_owner
    <3> QED
      BY <3>1, <3>2
  <2>3. CASE jobs[j].status = "succeeded"
    <3>1. Goto(w, "short")
      BY <1>7, <2>2, <2>3 DEF OwnerCheck, Serves
    <3>2. worker'[w].pc = "short" /\ Job(w)' = j
      BY <1>0, <3>1, Moved DEF Serves
    <3>3. Serving(w)'
      BY <2>1, <2>3, <3>2 DEF Serving, InTry, InHandler
    <3> QED
      BY <1>5, <2>1, <3>3 DEF StillServes
  <2>4. CASE jobs[j].status # "succeeded"
    <3>1. Goto(w, "base")
      BY <1>7, <2>2, <2>4 DEF OwnerCheck, Serves
    <3>2. worker'[w].pc = "base"
      BY <1>0, <3>1, Moved
    <3>3. Serving(w)'
      BY <1>3, <1>4, <2>4, <3>2 DEF Serving, InTry, InHandler
    <3> QED
      BY <1>5, <2>1, <3>3 DEF StillServes
  <2> QED
    BY <2>3, <2>4
<1>8. CASE _short_circuit_already_indexed(w)
  <2>1. jobs[j].status = "succeeded"
    BY <1>8 DEF _short_circuit_already_indexed, Serves, Serving
  <2>2. jobs'[j].status = "succeeded"
    <3>1. Job(w) = j /\ jobs \in [Jobs -> JobRow]
      BY DEF Serves, JobInv, IInv, TypeOK
    <3>2. mark_job_terminal(j, "succeeded") \/ UNCHANGED storeVars
      BY <1>8, <3>1 DEF _short_circuit_already_indexed
    <3> QED
      BY <1>0, <2>1, <3>1, <3>2 DEF mark_job_terminal, JobRow, storeVars
  <2>3. worker'[w].pc = "idle"
    BY <1>0, <1>8, Left DEF _short_circuit_already_indexed
  <2> QED
    BY <1>5, <2>1, <2>2, <2>3 DEF StillServes
<1>9. CASE ReadBase(w)
  <2>1. jobs' = jobs
    BY <1>9 DEF ReadBase, storeVars
  <2>2. worker'[w].pc = "acquire"
    BY <1>0, <1>9 DEF ReadBase, Execution
  <2>3. Settled
    BY <1>2, <1>9 DEF ReadBase, Serves, Serving, InTry
  <2>4. Serving(w)'
    BY <1>4, <2>2, <2>3 DEF Serving, InTry, InHandler
  <2> QED
    BY <1>5, <2>1, <2>4 DEF StillServes
<1> QED
  BY <1>6, <1>7, <1>8, <1>9

\* The acquire: the job of an active version runs again.
LEMMA AcquireServes ==
    ASSUME JobInv, Owned, InPlace, Bindings, NEW r \in Requests, NEW w \in Live,
           Serves(w, r.job, r.version), _step_acquire(w)
    PROVE  StillServes(w, r.job, r.version)
<1> DEFINE j == r.job
           v == r.version
<1> USE DEF At, planes
<1>0. /\ w \in Workers /\ j \in Jobs /\ v \in Versions
      /\ worker \in [Workers -> Execution] /\ worker[w] \in Execution
  BY LiveRequest, RequestTypes DEF JobInv, WorkersOK
<1>1. worker[w].pc = "acquire" /\ steps' = steps /\ points' = points /\ faults' = faults
  BY DEF _step_acquire
<1>2. ~worker[w].committed /\ ~Undoing(w)
  BY <1>1 DEF Owned, InPlace, PlacedWell, Before, Undoing
<1>3. /\ "publish" \in steps[j] => points[v] = "active"
      /\ jobs[j].status = "succeeded" => points[v] = "active"
      /\ MaxFaults = 0 => "verify" \in steps[j]
  BY <1>2 DEF Serves, Upheld
<1>4. Settled /\ Settled'
  <2>1. Settled
    BY <1>1, <1>2 DEF Serves, Serving, InTry
  <2> QED
    BY <1>1, <2>1 DEF Settled
<1>6. Takes(w) \/ (Exit(w) /\ jobs' = jobs)
  <2>1. \/ Takes(w)
        \/ Exit(w) /\ UNCHANGED storeVars
        \/ ~IdentityMatches(Job(w), Version(w), worker[w].request.hash)
    BY DEF _step_acquire, Takes, Job, Version
  <2> QED
    BY <2>1, IdentityHeld DEF storeVars
<1>7. CASE Takes(w)
  <2>1. jobs'[j].status = "running" /\ worker'[w].pc = "next"
    BY <1>0, <1>7, TakenJob, TakenToken DEF Serves
  <2>2. Upheld(w, j, v)'
    BY <1>1, <1>3, <1>4, <2>1 DEF Upheld
  <2>3. Serving(w)'
    BY <1>4, <2>1 DEF Serving, InTry, InHandler
  <2> QED
    BY <2>2, <2>3 DEF StillServes
<1>8. CASE Exit(w) /\ jobs' = jobs
  <2>1. Upheld(w, j, v)'
    BY <1>1, <1>3, <1>4, <1>8 DEF Upheld
  <2> QED
    BY <1>0, <1>8, <2>1, Left DEF StillServes
<1> QED
  BY <1>6, <1>7, <1>8

\* The loop: it ends with the finalization marked, and the marker of publish
\* comes after the promotion.
LEMMA LoopServes ==
    ASSUME JobInv, Working, Busy, NEW r \in Requests, NEW w \in Live,
           Serves(w, r.job, r.version), NextStep(w) \/ mark_step(w)
    PROVE  StillServes(w, r.job, r.version)
<1> DEFINE j == r.job
           v == r.version
<1> USE DEF At, planes
<1>0. /\ w \in Workers /\ j \in Jobs /\ v \in Versions /\ Job(w) = j
      /\ worker \in [Workers -> Execution] /\ worker[w] \in Execution
      /\ worker[w].step \in 1 .. 7
  BY LiveRequest, RequestTypes DEF JobInv, WorkersOK, Execution, Serves
<1>1. /\ worker[w].pc \in {"next", "mark"}
      /\ jobs' = jobs /\ points' = points /\ faults' = faults
  BY DEF NextStep, mark_step, storeVars
<1>2. ~Undoing(w) /\ worker[w].pc \in InLoop /\ worker[w].pc \in InTry
  BY <1>1 DEF Undoing, InLoop, InStep, InTry
<1>3. /\ worker[w].committed \/ jobs[j].status = "succeeded" \/ Settled
      /\ "publish" \in steps[j] => points[v] = "active"
      /\ jobs[j].status = "succeeded" => points[v] = "active"
      /\ MaxFaults = 0 => "verify" \in steps[j]
  BY <1>2 DEF Serves, Upheld
<1>4. (Settled' <=> Settled) /\ (~worker[w].committed => Settled)
  BY <1>1, <1>2 DEF Settled, Serves, Serving
<1>5. CASE NextStep(w)
  <2>1. worker[w].pc = "next" /\ steps' = steps
    BY <1>5 DEF NextStep
  <2>2. CASE Exit(w) /\ \A k \in 1 .. 6 : worker[w].step <= k => STEPS[k] \in steps[j]
    <3>1. "finalize" \in steps[j]
      <4>1. 6 \in 1 .. 6 /\ (6 < worker[w].step \/ worker[w].step <= 6)
        BY <1>0
      <4>2. \A k \in 1 .. 6 : k < worker[w].step => STEPS[k] \in steps[j]
        BY <1>0, <1>2 DEF Working
      <4> QED
        BY <2>2, <4>1, <4>2, LastSteps
    <3>2. worker[w].committed => jobs[j].status = "succeeded"
      BY <1>0, <1>2, <2>1, <3>1 DEF Busy, Finishing
    <3>3. Upheld(w, j, v)'
      BY <1>1, <1>3, <1>4, <2>1, <3>2 DEF Upheld
    <3> QED
      BY <1>0, <2>2, <3>3, Left DEF StillServes
  <2>3. CASE \E k \in 1 .. 6 : worker'[w].pc = STEPS[k] /\ worker'[w].step = k
    <3>1. PICK k \in 1 .. 6 : worker'[w].pc = STEPS[k] /\ worker'[w].step = k
      BY <2>3
    <3>2. worker'[w].pc \in {"write_parents", "write_qdrant", "verify", "commit", "publish", "finalize"}
      BY <3>1, StepsAre
    <3>3. worker'[w].committed = worker[w].committed
      <4>1. Walk(w) /\ worker'[w] # Idle
        BY <1>0, <1>5, <3>2, AdvanceWalks DEF Advance, Idle
      <4> QED
        BY <2>1, <4>1 DEF Walk, Switches
    <3>4. Upheld(w, j, v)'
      BY <1>1, <1>3, <1>4, <2>1, <3>3 DEF Upheld
    <3>5. Serving(w)'
      BY <1>4, <3>2, <3>3 DEF Serving, InHandler
    <3> QED
      BY <3>4, <3>5 DEF StillServes
  <2> QED
    BY <1>0, <1>5, <2>2, <2>3, NextStepFacts
<1>6. CASE mark_step(w)
  <2>1. /\ worker[w].pc = "mark" /\ worker[w].step \in 1 .. 6
        /\ worker'[w].pc = "next" /\ worker'[w].committed = worker[w].committed
        /\ steps'[j] = steps[j] \cup {STEPS[worker[w].step]}
    BY <1>0, <1>6, MarkFacts
  <2>2. "publish" \in steps'[j] => points[v] = "active"
    <3>1. STEPS[worker[w].step] = "publish" => worker[w].step = 5
      BY <2>1, StepsAre
    <3>2. worker[w].step = 5 => points[v] = "active"
      BY <2>1 DEF Serves, Serving
    <3> QED
      BY <1>3, <2>1, <3>1, <3>2
  <2>3. Upheld(w, j, v)'
    BY <1>1, <1>3, <1>4, <2>1, <2>2 DEF Upheld
  <2>4. Serving(w)'
    BY <1>4, <2>1 DEF Serving, InHandler
  <2> QED
    BY <2>3, <2>4 DEF StillServes
<1> QED
  BY <1>5, <1>6

\* The steps up to the commit: the points of a version whose publication is marked
\* are not staged again.
LEMMA BuildServes ==
    ASSUME JobInv, Owned, InPlace, Ordered, Working, Busy, NEW r \in Requests, NEW w \in Live,
           Serves(w, r.job, r.version),
           \/ _step_write_parents(w) \/ _step_write_qdrant(w) \/ _step_verify(w)
           \/ _step_commit(w)
    PROVE  StillServes(w, r.job, r.version)
<1> DEFINE j == r.job
           v == r.version
<1> USE DEF At, planes
<1>0. /\ w \in Workers /\ j \in Jobs /\ v \in Versions /\ Job(w) = j /\ Version(w) = v
      /\ worker \in [Workers -> Execution] /\ worker[w] \in Execution
      /\ points \in [Versions -> PointStatus] /\ documents[v].status = "active"
  BY LiveRequest, RequestTypes DEF JobInv, WorkersOK, PlanesOK, Serves
<1>1. /\ worker[w].pc \in {"write_parents", "write_qdrant", "write_chunks", "verify", "commit", "switch"}
      /\ steps' = steps /\ jobs' = jobs /\ faults' = faults
  BY DEF _step_write_parents, _step_write_qdrant, _step_verify, _step_commit, _assert_owns_build,
         commit_active_version, storeVars
<1>2. ~Undoing(w) /\ worker[w].pc \in InLoop /\ worker[w].pc \in InTry /\ worker[w].pc \in InStep
      /\ worker[w].pc # "mark" /\ worker[w].pc # "next"
  BY <1>1 DEF Undoing, InLoop, InStep, InTry
<1>3. /\ worker[w].committed \/ jobs[j].status = "succeeded" \/ Settled
      /\ "publish" \in steps[j] => points[v] = "active"
      /\ MaxFaults = 0 => "verify" \in steps[j]
  BY <1>2 DEF Serves, Upheld
<1>4. (Settled' <=> Settled) /\ (~worker[w].committed => Settled)
  BY <1>1, <1>2 DEF Settled, Serves, Serving
<1>5. worker[w].step = StepAt(worker[w].pc) /\ worker[w].step \in {1, 2, 3, 4}
  <2>1. worker[w].step = StepAt(worker[w].pc)
    BY <1>2 DEF InPlace, PlacedWell
  <2> QED
    BY <1>1, <2>1 DEF StepAt
<1>6. jobs[j].status = "running"
  BY <1>0, <1>2 DEF Busy, Finishing
<1>7. STEPS[worker[w].step] \notin steps[j] /\ "publish" \notin steps[j]
  <2>1. STEPS[worker[w].step] \notin steps[j]
    BY <1>0, <1>2 DEF Working
  <2>2. worker[w].step \in 1 .. 6 /\ 5 \in 1 .. 6 /\ worker[w].step < 5
    BY <1>5
  <2> QED
    BY <1>0, <2>1, <2>2, LastSteps DEF Ordered
<1>8. (worker'[w].committed \/ Settled) => Upheld(w, j, v)'
  BY <1>1, <1>3, <1>4, <1>6, <1>7 DEF Upheld
<1>9. CASE \E place \in {"write_chunks", "mark", "switch"} : Goto(w, place)
  <2>1. /\ worker'[w].pc \in {"write_chunks", "mark", "switch"}
        /\ worker'[w].step = worker[w].step /\ worker'[w].committed = worker[w].committed
    BY <1>0, <1>9, Moved
  <2>2. Upheld(w, j, v)'
    BY <1>4, <1>8, <2>1
  <2>3. worker'[w].step # 5
    BY <1>5, <2>1
  <2>4. Serving(w)'
    BY <1>4, <2>1, <2>3 DEF Serving, InTry, InHandler
  <2> QED
    BY <2>2, <2>4 DEF StillServes
<1>10. CASE Goto(w, "handler") /\ worker[w].pc = "verify"
  <2>1. worker'[w].pc = "handler" /\ worker'[w].committed = worker[w].committed /\ Job(w)' = j
    BY <1>0, <1>10, Moved
  <2>2. worker[w].step = 3 /\ STEPS[3] = "verify"
    BY <1>5, <1>10, StepNames DEF StepAt
  <2>3. MaxFaults # 0
    BY <1>3, <1>7, <2>2
  <2>4. ~worker[w].committed
    BY <2>2 DEF Owned
  <2>5. Upheld(w, j, v)'
    BY <1>4, <1>8, <2>4
  <2>6. Serving(w)'
    BY <1>1, <1>6, <2>1, <2>3, <2>4 DEF Serving, InTry
  <2> QED
    BY <2>5, <2>6 DEF StillServes
<1>11. CASE Switches(w)
  <2>1. /\ worker'[w].pc = "mark" /\ worker'[w].committed /\ worker'[w].step = worker[w].step
    BY <1>0, <1>11 DEF Switches, Execution
  <2>2. worker'[w].step # 5
    BY <1>5, <2>1
  <2>3. Serving(w)'
    BY <2>1, <2>2 DEF Serving, InHandler
  <2> QED
    BY <1>8, <2>1, <2>3 DEF StillServes
<1>12. _step_commit(w) => Goto(w, "switch") \/ Switches(w)
  <2>1. OwnsBuild(w)
    BY <1>2 DEF Owned, InPlace, PlacedWell, Before, InStep
  <2> QED
    BY <1>0, <2>1 DEF _step_commit, _assert_owns_build, Switches
<1> QED
  BY <1>9, <1>10, <1>11, <1>12 DEF _step_write_parents, _step_write_qdrant, _step_verify

\* The publication shows the points and takes none of its own back.
LEMMA PublishServes ==
    ASSUME JobInv, Owned, InPlace, Busy, Replaced, NEW r \in Requests, NEW w \in Live,
           Serves(w, r.job, r.version), _step_publish(w)
    PROVE  StillServes(w, r.job, r.version)
<1> DEFINE j == r.job
           v == r.version
<1> USE DEF At, planes
<1>0. /\ w \in Workers /\ j \in Jobs /\ v \in Versions /\ Job(w) = j /\ Version(w) = v
      /\ worker \in [Workers -> Execution] /\ worker[w] \in Execution
      /\ points \in [Versions -> PointStatus]
  BY LiveRequest, RequestTypes DEF JobInv, WorkersOK, PlanesOK, Serves
<1>1. /\ worker[w].pc \in {"publish", "promote", "promote_parents", "retire_parents", "retire"}
      /\ steps' = steps /\ jobs' = jobs /\ faults' = faults
  BY DEF _step_publish, _assert_owns_build, storeVars
<1>2. ~Undoing(w) /\ worker[w].pc \in InLoop /\ worker[w].pc \in InTry /\ worker[w].pc \in InStep
      /\ worker[w].pc # "mark" /\ worker[w].pc # "next"
  BY <1>1 DEF Undoing, InLoop, InStep, InTry
<1>3. /\ worker[w].committed \/ jobs[j].status = "succeeded" \/ Settled
      /\ "publish" \in steps[j] => points[v] = "active"
      /\ jobs[j].status = "succeeded" => points[v] = "active"
      /\ MaxFaults = 0 => "verify" \in steps[j]
  BY <1>2 DEF Serves, Upheld
<1>4. (Settled' <=> Settled) /\ (~worker[w].committed => Settled)
  BY <1>1, <1>2 DEF Settled, Serves, Serving
<1>5. OwnsBuild(w)
  BY <1>2 DEF Owned, InPlace, PlacedWell, Before, InStep
<1>6. jobs[j].previous # v
  BY DEF Replaced
<1>7. points[v] = "active" => points'[v] = "active"
  BY <1>0, <1>6 DEF _step_publish, _assert_owns_build
<1>8. \E place \in {"promote", "promote_parents", "retire_parents", "retire", "mark"} :
         /\ Goto(w, place)
         /\ place # "promote" => points'[v] = "active"
  <2>1. CASE worker[w].pc = "publish"
    BY <1>5, <2>1 DEF _step_publish, _assert_owns_build
  <2>2. CASE worker[w].pc = "promote"
    <3>1. points' = [points EXCEPT ![v] = "active"] /\ Goto(w, "promote_parents")
      BY <1>0, <2>2 DEF _step_publish
    <3> QED
      BY <1>0, <3>1
  <2>3. CASE worker[w].pc \in {"promote_parents", "retire_parents", "retire"}
    <3>1. points[v] = "active"
      BY <1>0, <2>3 DEF Serves, Serving
    <3>2. \E place \in {"retire_parents", "retire", "mark"} : Goto(w, place)
      BY <2>3 DEF _step_publish
    <3> QED
      BY <1>7, <3>1, <3>2
  <2> QED
    BY <1>1, <2>1, <2>2, <2>3
<1>9. PICK place \in {"promote", "promote_parents", "retire_parents", "retire", "mark"} :
         /\ Goto(w, place)
         /\ place # "promote" => points'[v] = "active"
  BY <1>8
<1>10. /\ worker'[w].pc = place /\ worker'[w].committed = worker[w].committed /\ Version(w)' = v
  BY <1>0, <1>9, Moved
<1>11. Upheld(w, j, v)'
  BY <1>1, <1>3, <1>4, <1>7, <1>10 DEF Upheld
<1>12. Serving(w)'
  BY <1>4, <1>9, <1>10 DEF Serving, InHandler
<1> QED
  BY <1>11, <1>12 DEF StillServes

\* The ends of a job: it succeeds only behind its publication, and whoever fails it
\* leaves no commit that another fault could catch unmarked.
LEMMA EndServes ==
    ASSUME JobInv, InPlace, Working, RowsPaired, NEW r \in Requests, NEW w \in Live,
           Serves(w, r.job, r.version), _step_finalize(w) \/ Fail(w)
    PROVE  StillServes(w, r.job, r.version)
<1> DEFINE j == r.job
           v == r.version
<1> USE DEF At, planes
<1>0. /\ w \in Workers /\ j \in Jobs /\ v \in Versions /\ Job(w) = j /\ Version(w) = v
      /\ worker \in [Workers -> Execution] /\ worker[w] \in Execution
      /\ jobs \in [Jobs -> JobRow]
  BY LiveRequest, RequestTypes DEF JobInv, WorkersOK, IInv, TypeOK, Serves
<1>1. /\ worker[w].pc \in {"finalize", "fail"}
      /\ steps' = steps /\ points' = points /\ faults' = faults
  BY DEF _step_finalize, Fail
<1>2. ~Undoing(w)
  BY <1>1 DEF Undoing
<1>3. /\ worker[w].committed \/ jobs[j].status = "succeeded" \/ Settled
      /\ "publish" \in steps[j] => points[v] = "active"
      /\ jobs[j].status = "succeeded" => points[v] = "active"
      /\ MaxFaults = 0 => "verify" \in steps[j]
  BY <1>2 DEF Serves, Upheld
<1>4. Settled' <=> Settled
  BY <1>1 DEF Settled
<1>5. CASE _step_finalize(w)
  <2>1. worker[w].pc = "finalize" /\ mark_job_terminal(j, "succeeded") /\ Goto(w, "mark")
    BY <1>0, <1>5 DEF _step_finalize
  <2>2. worker[w].pc \in InLoop /\ worker[w].pc \in InTry /\ worker[w].step = 6
    BY <2>1 DEF InLoop, InStep, InTry, InPlace, PlacedWell, StepAt
  <2>3. points[v] = "active"
    <3>1. 5 \in 1 .. 6 /\ 5 < worker[w].step
      BY <2>2
    <3>2. STEPS[5] \in steps[j]
      BY <1>0, <2>2, <3>1 DEF Working
    <3> QED
      BY <1>3, <3>2, LastSteps
  <2>4. jobs'[j].status = "succeeded"
    <3>1. jobs[j].status # "absent"
      BY <1>0, <2>2 DEF RowsPaired
    <3> QED
      BY <1>0, <2>1, <3>1 DEF mark_job_terminal, JobRow
  <2>5. worker'[w].pc = "mark" /\ worker'[w].step = 6 /\ worker'[w].committed = worker[w].committed
    BY <1>0, <2>1, <2>2, Moved
  <2>6. ~worker[w].committed => Settled
    BY <2>2 DEF Serves, Serving
  <2>7. Upheld(w, j, v)'
    BY <1>1, <1>3, <2>3, <2>4 DEF Upheld
  <2>8. Serving(w)'
    BY <1>4, <2>5, <2>6 DEF Serving, InHandler
  <2> QED
    BY <2>7, <2>8 DEF StillServes
<1>6. CASE Fail(w)
  <2>1. worker[w].pc = "fail" /\ mark_job_terminal(j, "failed") /\ Exit(w)
    BY <1>0, <1>6 DEF Fail
  <2>2. Settled
    <3>1. /\ worker[w].committed => Settled
          /\ ~worker[w].committed => jobs[j].status # "succeeded"
      BY <1>0, <2>1 DEF Serves, Serving, InHandler
    <3> QED
      BY <1>3, <3>1
  <2>3. jobs'[j].status # "succeeded"
    BY <1>0, <2>1 DEF mark_job_terminal, JobRow
  <2>4. Upheld(w, j, v)'
    BY <1>1, <1>3, <1>4, <2>2, <2>3 DEF Upheld
  <2>5. worker'[w].pc = "idle"
    BY <1>0, <2>1, Left
  <2> QED
    BY <2>4, <2>5 DEF StillServes
<1> QED
  BY <1>5, <1>6

\* The compensation takes the points of a version back only with its markers, and
\* only when its job has not succeeded.
LEMMA UndoServes ==
    ASSUME JobInv, NEW r \in Requests, NEW w \in Live,
           Serves(w, r.job, r.version), _compensate(w)
    PROVE  StillServes(w, r.job, r.version)
<1> DEFINE j == r.job
           v == r.version
<1> USE DEF At, planes
<1>0. /\ w \in Workers /\ j \in Jobs /\ v \in Versions /\ Job(w) = j /\ Version(w) = v
      /\ worker \in [Workers -> Execution] /\ worker[w] \in Execution
      /\ points \in [Versions -> PointStatus] /\ steps \in [Jobs -> SUBSET Markers]
  BY LiveRequest, RequestTypes DEF JobInv, WorkersOK, PlanesOK, Serves
<1>1. /\ worker[w].pc \in {"handler", "undo_points", "undo_parents", "undo_chunks", "undo_steps",
                           "undo_row"}
      /\ jobs' = jobs /\ faults' = faults
  BY DEF _compensate, mark_document_failed, storeVars
<1>2. /\ MaxFaults # 0
      /\ worker[w].committed => Settled /\ worker[w].pc \in {"handler", "fail"}
      /\ ~worker[w].committed => jobs[j].status # "succeeded"
  BY <1>0, <1>1 DEF Serves, Serving, InHandler
<1>3. /\ worker[w].committed \/ jobs[j].status = "succeeded" \/ Settled
      /\ "publish" \in steps[j] => points[v] = "active" \/ Undoing(w)
      /\ jobs[j].status = "succeeded" => points[v] = "active"
  BY DEF Serves, Upheld
<1>4. Settled' <=> Settled
  BY <1>1 DEF Settled
<1>5. ASSUME NEW place \in InHandler, Goto(w, place),
             worker[w].committed => place \in {"handler", "fail"}
      PROVE  Serving(w)'
  <2>1. /\ worker'[w].pc = place /\ worker'[w].committed = worker[w].committed
        /\ Job(w)' = j /\ Version(w)' = v
    BY <1>0, <1>5, Moved
  <2>2. place \notin InTry /\ place # "short" /\ place # "mark"
        /\ place \notin {"promote_parents", "retire_parents", "retire"}
    BY <1>5 DEF InHandler, InTry
  <2>3. jobs'[j].status = jobs[j].status
    BY <1>1
  <2> QED
    BY <1>2, <1>4, <1>5, <2>1, <2>2, <2>3 DEF Serving
<1>6. CASE worker[w].pc = "handler"
  <2>1. PICK place \in {"undo_points", "fail"} :
           Goto(w, place) /\ (worker[w].committed => place = "fail")
    BY <1>6 DEF _compensate
  <2>2. steps' = steps /\ points' = points
    BY <1>6 DEF _compensate
  <2>3. worker'[w].committed = worker[w].committed /\ ~Undoing(w)
    BY <1>0, <1>6, <2>1, Moved DEF Undoing
  <2>4. Upheld(w, j, v)'
    BY <1>1, <1>2, <1>3, <1>4, <2>2, <2>3 DEF Upheld
  <2>5. Serving(w)'
    BY <1>5, <2>1 DEF InHandler
  <2> QED
    BY <2>4, <2>5 DEF StillServes
<1>7. CASE worker[w].pc # "handler"
  <2>1. ~worker[w].committed /\ jobs'[j].status # "succeeded" /\ Settled'
    BY <1>1, <1>2, <1>3, <1>4, <1>7
  <2>2. CASE worker[w].pc = "undo_points"
    <3>1. Goto(w, "undo_parents")
      BY <2>2 DEF _compensate
    <3>2. worker'[w].pc = "undo_parents"
      BY <1>0, <3>1, Moved
    <3>3. Upheld(w, j, v)'
      BY <1>2, <2>1, <3>2 DEF Upheld, Undoing
    <3>4. Serving(w)'
      BY <1>5, <2>1, <3>1 DEF InHandler
    <3> QED
      BY <3>3, <3>4 DEF StillServes
  <2>3. CASE worker[w].pc \in {"undo_parents", "undo_chunks"}
    <3>1. PICK place \in {"undo_chunks", "undo_steps"} : Goto(w, place)
      BY <2>3 DEF _compensate
    <3>2. worker'[w].pc \in {"undo_chunks", "undo_steps"}
      BY <1>0, <3>1, Moved
    <3>3. Upheld(w, j, v)'
      BY <1>2, <2>1, <3>2 DEF Upheld, Undoing
    <3>4. Serving(w)'
      BY <1>5, <2>1, <3>1 DEF InHandler
    <3> QED
      BY <3>3, <3>4 DEF StillServes
  <2>4. CASE worker[w].pc = "undo_steps"
    <3>1. Goto(w, "undo_row") /\ clear_steps(j)
      BY <1>0, <2>4 DEF _compensate
    <3>2. steps'[j] = {}
      BY <1>0, <3>1 DEF clear_steps
    <3>3. Upheld(w, j, v)'
      BY <1>2, <2>1, <3>2 DEF Upheld
    <3>4. Serving(w)'
      BY <1>5, <2>1, <3>1 DEF InHandler
    <3> QED
      BY <3>3, <3>4 DEF StillServes
  <2>5. CASE worker[w].pc = "undo_row"
    <3>1. Goto(w, "fail") /\ steps' = steps /\ points' = points
      BY <2>5 DEF _compensate
    <3>2. ~Undoing(w)
      BY <2>5 DEF Undoing
    <3>3. Upheld(w, j, v)'
      BY <1>2, <1>3, <2>1, <3>1, <3>2 DEF Upheld
    <3>4. Serving(w)'
      BY <1>5, <2>1, <3>1 DEF InHandler
    <3> QED
      BY <3>3, <3>4 DEF StillServes
  <2> QED
    BY <1>1, <1>7, <2>2, <2>3, <2>4, <2>5
<1> QED
  BY <1>6, <1>7

\* One more failure does not unsettle.
LEMMA SettledKept ==
    ASSUME Contained, JobInv, faults' = faults \/ (faults < MaxFaults /\ faults' = faults + 1)
    PROVE  /\ Settled => Settled'
           /\ faults' # faults => Settled' /\ MaxFaults # 0
<1>1. faults \in Nat
  BY DEF JobInv, PlanesOK
<1>2. MaxFaults = 0 \/ MaxFaults = 1 \/ "mark" \notin FaultPoints
  BY DEF Contained
<1> QED
  BY <1>1, <1>2 DEF Settled

\* A call of an execution of the active version that raises: its job has not
\* succeeded yet, or the commit was its own.
LEMMA RaiseServes ==
    ASSUME Contained, Undisturbed, JobInv, Busy, NEW r \in Requests, NEW w \in Live,
           Serves(w, r.job, r.version), Raise(w)
    PROVE  StillServes(w, r.job, r.version)
<1> DEFINE j == r.job
           v == r.version
<1> USE DEF At, planes
<1>0. /\ w \in Workers /\ j \in Jobs /\ v \in Versions /\ Job(w) = j /\ Version(w) = v
      /\ faults \in Nat
  BY LiveRequest, RequestTypes DEF JobInv, PlanesOK, Serves
<1>1. /\ worker[w].pc \in FaultPoints /\ faults < MaxFaults /\ faults' = faults + 1
      /\ steps' = steps /\ points' = points /\ jobs' = jobs
  BY DEF Raise, storeVars
<1>2. Settled' /\ MaxFaults # 0
  BY <1>0, <1>1, SettledKept
<1>3. worker[w].pc \notin InHandler
  BY <1>1, <1>2 DEF Contained, Compensated
<1>4. worker[w].pc \in InTry /\ Goto(w, "handler")
  BY <1>3 DEF Raise
<1>5. /\ worker'[w].pc = "handler" /\ worker'[w].committed = worker[w].committed
      /\ Job(w)' = j /\ ~Undoing(w)
  BY <1>0, <1>4, Moved DEF Undoing, InTry
<1>6. ASSUME ~worker[w].committed
      PROVE  jobs[j].status # "succeeded"
  <2>1. worker[w].pc \in InLoop /\ worker[w].pc # "next"
    BY <1>1, <1>4 DEF InTry, InLoop, InStep, Undisturbed, Contained
  <2>2. Settled
    BY <1>4, <1>6 DEF Serves, Serving
  <2>3. worker[w].pc # "mark"
    BY <1>1, <2>2 DEF Settled
  <2>4. ~Finishing(w)
    BY <2>1, <2>3 DEF Finishing
  <2> QED
    BY <1>0, <2>1, <2>4 DEF Busy
<1>7. Upheld(w, j, v)'
  BY <1>1, <1>2, <1>5 DEF Serves, Upheld
<1>8. Serving(w)'
  <2>1. "handler" \notin InTry
    BY DEF InTry
  <2> QED
    BY <1>1, <1>2, <1>5, <1>6, <2>1 DEF Serving
<1> QED
  BY <1>7, <1>8 DEF StillServes

\* An execution leaves the job and the points of another version alone while that
\* version is active: what it retires is not active any more.
LEMMA Elsewhere ==
    ASSUME Paired, JobInv, InPlace, Unswitched, Replaced,
           NEW w \in Live, Advance(w) \/ Raise(w),
           NEW r \in Requests, Version(w) # r.version, documents[r.version].status = "active"
    PROVE  /\ steps'[r.job] = steps[r.job] /\ jobs'[r.job] = jobs[r.job]
           /\ points'[r.version] = points[r.version]
<1> DEFINE j == r.job
           v == r.version
<1> USE DEF At, planes
<1>0. /\ w \in Workers /\ j \in Jobs /\ v \in Versions /\ worker[w].request \in Requests
      /\ Job(w) \in Jobs /\ Version(w) \in Versions
      /\ points \in [Versions -> PointStatus] /\ steps \in [Jobs -> SUBSET Markers]
  BY LiveRequest, RequestTypes DEF JobInv, PlanesOK
<1>1. Job(w) # j
  BY <1>0 DEF Paired, Job, Version
<1>2. jobs'[j] = jobs[j]
  <2>1. ASSUME Takes(w) PROVE jobs'[j] = jobs[j]
    <3>1. \A i \in Jobs \ {Job(w)} : jobs'[i] = jobs[i]
      BY <1>0, <2>1, TakeFacts
    <3> QED
      BY <1>0, <1>1, <3>1
  <2>2. Ends(w) => jobs'[j] = jobs[j]
    BY <1>0, <1>1, EndFacts
  <2>3. Switches(w) \/ Abandons(w) \/ UNCHANGED storeVars => jobs' = jobs
    BY DEF Switches, Abandons, commit_active_version, mark_document_failed, storeVars
  <2>4. Raise(w) => UNCHANGED storeVars
    BY DEF Raise
  <2> QED
    BY <1>0, <2>1, <2>2, <2>3, <2>4, TableSteps DEF Touches
<1>3. CASE \/ Precheck(w) \/ OwnerCheck(w) \/ _short_circuit_already_indexed(w)
           \/ ReadBase(w) \/ _step_acquire(w) \/ NextStep(w)
           \/ _step_verify(w) \/ _step_finalize(w) \/ Fail(w) \/ Raise(w) \/ _step_commit(w)
           \/ _step_write_parents(w)
  BY <1>2, <1>3 DEF Precheck, OwnerCheck, _short_circuit_already_indexed, ReadBase, _step_acquire,
              NextStep, _step_verify, _step_finalize, Fail, Raise, _step_commit, _assert_owns_build,
              _step_write_parents
<1>4. CASE mark_step(w) \/ _step_write_qdrant(w)
  BY <1>0, <1>1, <1>2, <1>4 DEF mark_step, _step_write_qdrant
<1>5. CASE _step_publish(w)
  <2>1. steps' = steps
    BY <1>5 DEF _step_publish, _assert_owns_build
  <2>2. CASE worker[w].pc = "retire"
    <3>1. worker[w].step = 5
      BY <2>2 DEF InPlace, PlacedWell, InStep, StepAt
    <3>2. Committed(Version(w))
      BY <3>1 DEF Unswitched
    <3>3. jobs[Job(w)].previous # v
      BY <1>0, <3>2, NoneAssumption DEF Replaced, Job, Version
    <3>4. points' = [points EXCEPT ![jobs[Job(w)].previous] = "inactive"]
      BY <1>5, <2>2 DEF _step_publish
    <3> QED
      BY <1>0, <1>2, <2>1, <3>3, <3>4
  <2>3. CASE worker[w].pc # "retire"
    <3>1. points' = points \/ points' = [points EXCEPT ![Version(w)] = "active"]
      BY <1>5, <2>3 DEF _step_publish, _assert_owns_build
    <3> QED
      BY <1>0, <1>2, <2>1, <3>1
  <2> QED
    BY <2>2, <2>3
<1>6. CASE _compensate(w)
  BY <1>0, <1>1, <1>2, <1>6 DEF _compensate, clear_steps
<1> QED
  BY <1>3, <1>4, <1>5, <1>6 DEF Advance

\* The version that a commit makes active has not been published, its job runs
\* and is verified, and the execution that committed it goes on.
LEMMA NewlyServed ==
    ASSUME Paired, JobInv, JobInv', InPlace, Unswitched, Based, Sole, Ordered, Working, Busy,
           JobNext, NEW r \in Requests,
           documents[r.version].status # "active", documents'[r.version].status = "active"
    PROVE  /\ Served(r)'
           /\ \A u \in Live' : Version(u)' = r.version => Serving(u)'
<1>0. r.version \in Versions /\ r.job \in Jobs
  BY RequestTypes
<1>1. PICK w \in Workers : Switches(w) /\ Version(w) = r.version /\ ~Committed(r.version)
  BY <1>0, NewlyActive
<1>2. /\ w \in Live /\ worker[w].pc = "switch"
      /\ worker' = [worker EXCEPT ![w].pc = "mark", ![w].committed = TRUE]
  BY <1>1 DEF Switches, Live
<1>3. /\ Job(w) = r.job /\ worker[w].step = 4
      /\ worker \in [Workers -> Execution] /\ worker[w] \in Execution
  BY <1>1, <1>2, LiveRequest DEF Paired, Job, Version, InPlace, PlacedWell, InStep, StepAt,
                                 JobInv, WorkersOK
<1>4. /\ worker'[w].pc = "mark" /\ worker'[w].committed /\ worker'[w].step = 4
      /\ worker'[w].request = worker[w].request
      /\ \A u \in Workers \ {w} : worker'[u] = worker[u]
  BY <1>2, <1>3 DEF Execution
<1>5. w \in Live' /\ Version(w)' = r.version
  BY <1>1, <1>4 DEF Live, Version
<1>6. jobs'[r.job].status = "running"
  <2>1. jobs' = jobs
    BY <1>1, SwitchFacts
  <2>2. worker[w].pc \in InLoop /\ ~Finishing(w)
    BY <1>2 DEF InLoop, InStep, Finishing
  <2> QED
    BY <1>2, <1>3, <2>1, <2>2 DEF Busy
<1>7. steps'[r.job] = steps[r.job]
  <2>1. ~mark_step(w)
    BY <1>2, MarkFacts
  <2> QED
    BY <1>2, <1>3, <2>1, JobMarkers
<1>8. "publish" \notin steps[r.job]
  <2>1. STEPS[4] \notin steps[r.job]
    BY <1>1, LastSteps DEF Unswitched
  <2>2. 4 \in 1 .. 6 /\ 5 \in 1 .. 6 /\ 4 < 5
    OBVIOUS
  <2>3. STEPS[5] \notin steps[r.job]
    BY <1>0, <2>1, <2>2 DEF Ordered
  <2> QED
    BY <2>3, LastSteps
<1>9. "verify" \in steps[r.job]
  <2>1. 3 \in 1 .. 6 /\ 3 < worker[w].step /\ worker[w].pc \in InLoop
    BY <1>2, <1>3 DEF InLoop, InStep
  <2>2. STEPS[3] \in steps[r.job]
    BY <1>2, <1>3, <2>1 DEF Working
  <2> QED
    BY <2>2 DEF STEPS
<1>10. Served(r)'
  BY <1>4, <1>5, <1>6, <1>7, <1>8, <1>9 DEF Served
<1>11. Serving(w)'
  BY <1>4 DEF Serving, InHandler
<1>12. ASSUME NEW u \in Live', Version(u)' = r.version
       PROVE  u = w
  <2> SUFFICES ASSUME u # w PROVE FALSE
    OBVIOUS
  <2>1. u \in Live /\ Version(u) = r.version
    BY <1>4, <1>12 DEF Live, Version
  <2> QED
    BY <1>1, <1>2, <2>1 DEF Sole
<1> QED
  BY <1>10, <1>11, <1>12

\* What the execution of the active version does.
LEMMA ActorServes ==
    ASSUME Contained, Undisturbed, JobInv, Owned, InPlace, RowsPaired, Bindings, Ordered, Working,
           Busy, Replaced, NEW r \in Requests, NEW w \in Live,
           Serves(w, r.job, r.version), Advance(w) \/ Raise(w)
    PROVE  StillServes(w, r.job, r.version)
BY EarlySteps, AcquireServes, LoopServes, BuildServes, PublishServes, EndServes, UndoServes,
   RaiseServes DEF Advance

\* A version that is active keeps what the active version has, whoever goes on.
LEMMA WalkServed ==
    ASSUME Contained, Undisturbed, Paired, JobInv, Sole, Owned, InPlace, Unswitched, RowsPaired,
           Bindings, Ordered, Working, Busy, Replaced, Publishing,
           NEW w \in Workers, Advance(w) \/ Raise(w),
           NEW r \in Requests, documents[r.version].status = "active"
    PROVE  /\ Served(r)'
           /\ \A u \in Live' : Version(u)' = r.version => Serving(u)'
<1>1. Walk(w)
  BY AdvanceWalks
<1>2. /\ w \in Live /\ \A u \in Workers \ {w} : worker'[u] = worker[u]
      /\ w \in Live' => Version(w)' = Version(w)
      /\ w \notin Live' => ~worker'[w].committed /\ ~Undoing(w)'
  BY <1>1 DEF Walk, Live, Version, Idle, Undoing
<1>3. Served(r) /\ \A u \in Live : Version(u) = r.version => Serving(u)
  BY DEF Publishing
<1>4. CASE Version(w) = r.version
  <2>1. Job(w) = r.job
    BY <1>2, <1>4, LiveRequest DEF Paired, Job, Version
  <2>2. \A u \in Live : Version(u) = r.version => u = w
    BY <1>2, <1>4 DEF Sole
  <2>3. Upheld(w, r.job, r.version)
    BY <1>3, <2>2 DEF Served, Upheld
  <2>4. StillServes(w, r.job, r.version)
    BY <1>2, <1>3, <1>4, <2>1, <2>3, ActorServes DEF Serves
  <2>5. Served(r)'
    BY <1>2, <1>4, <2>4 DEF StillServes, Upheld, Served
  <2>6. ASSUME NEW u \in Live', Version(u)' = r.version
        PROVE  Serving(u)'
    <3>1. u = w
      BY <1>2, <2>2, <2>6 DEF Live, Version
    <3> QED
      BY <2>4, <2>6, <3>1 DEF StillServes, Live
  <2> QED
    BY <2>5, <2>6
<1>5. CASE Version(w) # r.version
  <2>1. /\ steps'[r.job] = steps[r.job] /\ jobs'[r.job] = jobs[r.job]
        /\ points'[r.version] = points[r.version]
    BY <1>2, <1>5, Elsewhere
  <2>2. Settled => Settled'
    <3>1. faults' = faults \/ (faults < MaxFaults /\ faults' = faults + 1)
      BY DEF Advance, Raise, Precheck, OwnerCheck, _short_circuit_already_indexed, ReadBase,
             _step_acquire, NextStep, mark_step, _step_write_parents, _step_write_qdrant,
             _step_verify, _step_commit, _step_publish, _step_finalize, _compensate, Fail,
             _assert_owns_build
    <3> QED
      BY <3>1, SettledKept
  <2>3. \A u \in Live : Version(u) = r.version =>
           u \in Live' /\ worker'[u] = worker[u] /\ Version(u)' = r.version
    BY <1>2, <1>5 DEF Live, Version
  <2>4. \A u \in Live' : Version(u)' = r.version =>
           u \in Live /\ worker'[u] = worker[u] /\ Version(u) = r.version
    BY <1>2, <1>5 DEF Live, Version
  <2>5. Served(r)'
    BY <1>3, <2>1, <2>2, <2>3 DEF Served, Undoing
  <2>6. ASSUME NEW u \in Live', Version(u)' = r.version
        PROVE  Serving(u)'
    <3>1. u \in Live /\ worker'[u] = worker[u] /\ Version(u) = r.version /\ Serving(u)
      BY <1>3, <2>4, <2>6
    <3>2. Job(u) = r.job
      BY <3>1, LiveRequest DEF Paired, Job, Version
    <3>3. Job(u)' = r.job
      BY <3>1, <3>2 DEF Job
    <3> QED
      BY <2>1, <2>2, <2>6, <3>1, <3>2, <3>3 DEF Serving
  <2> QED
    BY <2>5, <2>6
<1> QED
  BY <1>4, <1>5

\* A delivery knows nothing yet.
LEMMA StartServed ==
    ASSUME JobInv, Publishing, NEW w \in Workers, Deliver(w),
           NEW r \in Requests, documents[r.version].status = "active"
    PROVE  /\ Served(r)'
           /\ \A u \in Live' : Version(u)' = r.version => Serving(u)'
<1>1. Starts(w)
  BY DeliverStarts
<1>2. UNCHANGED <<storeVars, planes, faults>>
  BY DEF Deliver, run
<1>3. Served(r) /\ \A u \in Live : Version(u) = r.version => Serving(u)
  BY DEF Publishing
<1>4. \A u \in Live : u \in Live' /\ worker'[u] = worker[u] /\ Version(u)' = Version(u)
  BY <1>1 DEF Starts, Live, Version
<1>5. steps' = steps /\ jobs' = jobs /\ points' = points /\ (Settled => Settled')
  BY <1>2 DEF storeVars, planes, Settled
<1>6. Served(r)'
  BY <1>3, <1>4, <1>5 DEF Served, Undoing
<1>7. ASSUME NEW u \in Live', Version(u)' = r.version
      PROVE  Serving(u)'
  <2>1. CASE u = w
    BY <1>1, <2>1 DEF Starts, Serving, InTry, InHandler
  <2>2. CASE u # w
    <3>1. worker'[u] = worker[u] /\ u \in Live /\ Version(u) = r.version /\ Job(u)' = Job(u)
      BY <1>1, <1>7, <2>2 DEF Starts, Live, Version, Job
    <3> QED
      BY <1>3, <1>5, <1>7, <3>1 DEF Serving
  <2> QED
    BY <2>1, <2>2
<1> QED
  BY <1>6, <1>7

\* A crash is the only failure there is, so no compensation is cut short by it.
LEMMA CrashServed ==
    ASSUME Contained, JobInv, Publishing, NEW p \in Procs, Crash(p),
           NEW r \in Requests, documents[r.version].status = "active"
    PROVE  /\ Served(r)'
           /\ \A u \in Live' : Version(u)' = r.version => Serving(u)'
<1>1. MaxFaults = 0 /\ faults \in Nat /\ crashes \in Nat /\ crashes < MaxCrashes
  BY DEF Crash, Contained, Compensated, JobInv, PlanesOK
<1>2. /\ UNCHANGED <<storeVars, steps, points, faults>>
      /\ \A u \in Workers : worker'[u] \in {worker[u], Idle}
  BY DEF Crash
<1>3. Served(r) /\ \A u \in Live : Version(u) = r.version => Serving(u)
  BY DEF Publishing
<1>4. Settled /\ Settled'
  BY <1>1, <1>2 DEF Settled
<1>5. \A u \in Live : Version(u) = r.version => ~Undoing(u)
  BY <1>1, <1>3 DEF Serving, Undoing, InHandler
<1>6. steps' = steps /\ jobs' = jobs /\ points' = points
  BY <1>2 DEF storeVars
<1>7. Served(r)'
  BY <1>3, <1>4, <1>5, <1>6 DEF Served
<1>8. ASSUME NEW u \in Live', Version(u)' = r.version
      PROVE  Serving(u)'
  <2>1. worker'[u] = worker[u] /\ u \in Live /\ Version(u) = r.version /\ Job(u)' = Job(u)
    BY <1>2, <1>8 DEF Live, Idle, Version, Job
  <2> QED
    BY <1>3, <1>4, <1>6, <1>8, <2>1 DEF Serving
<1> QED
  BY <1>7, <1>8

\* Every version that is active after a step is as it should be.
LEMMA PublishingStep ==
    ASSUME Contained, Undisturbed, Paired, JobInv, JobInv', Sole, Owned, InPlace, Unswitched,
           RowsPaired, Bindings, Ordered, Working, Busy, Based, Replaced, Publishing, JobNext
    PROVE  Publishing'
<1>1. ASSUME NEW r \in Requests, documents'[r.version].status = "active"
      PROVE  /\ Served(r)'
             /\ \A u \in Live' : Version(u)' = r.version => Serving(u)'
  <2>1. CASE documents[r.version].status # "active"
    BY <1>1, <2>1, NewlyServed
  <2>2. CASE documents[r.version].status = "active"
    BY <1>1, <2>2, WalkServed, StartServed, CrashServed DEF JobNext
  <2> QED
    BY <2>1, <2>2
<1>2. ASSUME NEW u \in Live', (documents[Version(u)])'.status = "active"
      PROVE  Serving(u)'
  <2>1. PICK r \in Requests : Version(u)' = r.version
    BY <1>2 DEF JobInv, WorkersOK, Sound, Live, Version
  <2> QED
    BY <1>1, <1>2, <2>1
<1> QED
  BY <1>1, <1>2 DEF Publishing

\* What makes success visible, together.
VisibleInv == /\ Sole /\ Owned /\ Ordered /\ Working /\ Busy
              /\ Retirable /\ Based /\ Replaced /\ Publishing

\* It is inductive over the invariants of the builds and of the paired deliveries.
LEMMA VisibleInvariantStep ==
    ASSUME Stamps = Nat, OneProcessOnly, Paired, Undisturbed, Contained
    PROVE  JobInv /\ PairedInv /\ BuildInv /\ VisibleInv /\ [JobNext]_jobVars => VisibleInv'
<1> SUFFICES ASSUME JobInv, PairedInv, BuildInv, VisibleInv, [JobNext]_jobVars
             PROVE  VisibleInv'
  OBVIOUS
<1>1. JobInv'
  BY JobInvariantStep
<1>2. CASE JobNext
  <2>1. Sole' /\ Owned' /\ Ordered'
    BY <1>2, SoleStep, OwnedStep, OrderedStep DEF BuildInv, VisibleInv
  <2>2. Working' /\ Busy'
    BY <1>2, WorkingStep, BusyStep DEF BuildInv, VisibleInv
  <2>3. Retirable' /\ Based' /\ Replaced'
    BY <1>1, <1>2, RetirableStep, BasedStep, ReplacedStep DEF PairedInv, VisibleInv
  <2>4. Publishing'
    BY <1>1, <1>2, PublishingStep DEF BuildInv, PairedInv, VisibleInv
  <2> QED
    BY <2>1, <2>2, <2>3, <2>4 DEF VisibleInv
<1>3. CASE UNCHANGED jobVars
  <2>1. Sole' /\ Owned' /\ Ordered'
    BY <1>3 DEF jobVars, VisibleInv, Sole, Owned, Ordered, Live, Version, Job, Acquired, OwnsBuild,
                get_build_owner, get_lease_generation
  <2>2. Working' /\ Busy'
    BY <1>3 DEF jobVars, VisibleInv, Working, Busy, Finishing, Live, Job
  <2>3. Retirable' /\ Based' /\ Replaced'
    BY <1>3 DEF jobVars, VisibleInv, Retirable, Based, Replaced, Committed, get_current_revision,
                Revisions, Rows
  <2>4. Publishing'
    BY <1>3 DEF jobVars, VisibleInv, Publishing, Served, Serving, Settled, Undoing, Live, Version,
                Job
  <2> QED
    BY <2>1, <2>2, <2>3, <2>4 DEF VisibleInv
<1> QED
  BY <1>2, <1>3

\* Nothing is claimed, built or active at first.
LEMMA VisibleInvariantInit == JobInit => PairedInv /\ VisibleInv
<1> SUFFICES ASSUME JobInit PROVE PairedInv /\ VisibleInv
  OBVIOUS
<1>1. Live = {}
  BY DEF JobInit, Live, Idle
<1>2. get_current_revision \in Nat
  BY JobInvariantInit, CurrentRevision DEF JobInv, IInv, RowsInv
<1>3. /\ \A j \in Jobs : jobs[j] = NoJob /\ steps[j] = {}
      /\ \A v \in Versions : builds[v] = NoBuild /\ documents[v] = NoDocument
  BY DEF JobInit, Init
<1>4. \A r \in Requests : /\ jobs[r.job] = NoJob /\ builds[r.version] = NoBuild
                          /\ documents[r.version] = NoDocument
  BY <1>3, RequestTypes
<1>5. PairedInv
  BY <1>1, <1>2, <1>4 DEF PairedInv, RowsPaired, Bases, Replaces, NoJob, NoBuild
<1>6. Sole /\ Owned /\ Working /\ Busy
  BY <1>1 DEF Sole, Owned, Working, Busy
<1>7. Ordered /\ Retirable
  BY <1>3 DEF Ordered, Retirable, NoJob, NoBuild
<1>8. Based /\ Replaced /\ Publishing
  BY <1>1, <1>4, NoneAssumption, RequestTypes
     DEF Based, Replaced, Publishing, Committed, NoJob, NoDocument
<1> QED
  BY <1>5, <1>6, <1>7, <1>8 DEF VisibleInv

\* For any number of workers of one process and any deliveries, a job id and a
\* version each belonging to one of them, with takeovers, recoveries and either
\* crashes or calls of the steps that raise: an active version whose job has
\* succeeded is visible in the data plane, so that the short circuit of a later
\* delivery answers truly.  (An execution that resumes the job of a version
\* committed before it does not know of the commit: if marking the finalization
\* raises after a crash or a first failure, its compensation takes the points of
\* the succeeded job back.)
THEOREM SucceededIsPublishedHolds ==
    ASSUME Stamps = Nat, OneProcessOnly, Paired, Pinned, Undisturbed, Contained
    PROVE  JobSpec => []SucceededIsPublished
<1>1. JobInv /\ BuildInv /\ VisibleInv => SucceededIsPublished
  <2> SUFFICES ASSUME JobInv, BuildInv, VisibleInv, NEW v \in ActiveVersions,
                      get_job_status(builds[v].owner) = "succeeded"
               PROVE  points[v] = "active"
    BY DEF SucceededIsPublished
  <2>1. v \in Versions /\ documents[v].status = "active"
    BY DEF ActiveVersions
  <2>2. builds[v].owner # None
    BY DEF get_job_status
  <2>3. PICK r \in Requests : r.version = v /\ builds[v].owner = r.job
    BY <2>1, <2>2 DEF BuildInv, Bindings
  <2>4. jobs[r.job].status = "succeeded"
    BY <2>2, <2>3 DEF get_job_status
  <2> QED
    BY <2>1, <2>3, <2>4 DEF VisibleInv, Publishing, Served
<1>2. JobSpec => [](JobInv /\ BuildInv)
  BY BuildInvariantHolds, PTL
<1> QED
  BY <1>1, <1>2, VisibleInvariantInit, VisibleInvariantStep, PairedInvariantStep, PTL DEF JobSpec
===============================================================================
