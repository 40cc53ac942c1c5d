---------------------------- MODULE IngestionJob ----------------------------
(***************************************************************************)
(* The ingestion job: IngestionJob.run executed by workers (threads) of    *)
(* several processes over the control plane of MetadataStore and three     *)
(* data planes: the Qdrant points and the chunk rows, which all processes  *)
(* share, and the Parent Store, which lives in the memory of one process.  *)
(* One action is one statement that is atomic for the other workers: a     *)
(* transaction, an autocommitted SQL statement, or one call to a data      *)
(* plane.  A version has one content, so the artifacts of a version are    *)
(* one value per plane.                                                    *)
(***************************************************************************)
EXTENDS MetadataStore

CONSTANTS
    Workers,         \* threads that execute deliveries
    Procs,           \* processes
    ProcOf,          \* the process of a worker
    Requests,        \* the deliveries that may arrive
    FaultPoints,     \* the values of pc at which a call may raise
    MaxFaults,       \* bound on the calls that raise
    MaxCrashes,      \* bound on the process crashes
    MaxGeneration,   \* a version whose lease has this generation gets no delivery
    RecoverLive      \* may recover=True be given to an attempt that is alive?

ASSUME ProcOfAssumption == ProcOf \in [Workers -> Procs]
ASSUME RequestsAssumption ==
    /\ Requests \subseteq [job : Jobs, version : Versions, hash : Hashes, acl : Acls]
    /\ None \notin Requests

VARIABLES
    steps,     \* job id  -> markers of the steps that are done (job_steps)
    points,    \* version -> status of its Qdrant points
    chunks,    \* version -> are its chunk rows there?
    parents,   \* process -> version -> status of its parents in the Parent Store
    worker,    \* worker  -> the execution it is in
    faults,    \* calls that raised so far
    crashes    \* crashes so far

jobVars == <<documents, builds, jobs, steps, points, chunks, parents, worker,
             faults, crashes>>
planes == <<steps, points, chunks, parents>>

STEPS == <<"write_parents", "write_qdrant", "verify", "commit", "publish", "finalize">>
Markers == {STEPS[k] : k \in 1 .. 6}

\* A step is where the worker is; a step of several calls has further places.
InTry == {"base", "acquire", "next", "write_parents", "write_qdrant", "write_chunks",
          "verify", "commit", "switch", "publish", "promote", "promote_parents",
          "retire_parents", "retire", "finalize", "mark"}
InHandler == {"handler", "undo_points", "undo_parents", "undo_chunks", "undo_steps",
              "undo_row", "fail"}
Places == {"idle", "precheck", "owner", "short"} \cup InTry \cup InHandler

PointStatus == {"none", "processing", "active", "inactive"}
ParentStatus == {"none", "active", "deprecated"}

\* `request` is None while the worker is idle; `generation` is the fencing token
\* and `committed` the flag of this instance, both lost with it.
Execution == [pc : Places, request : Requests \cup {None}, recover : BOOLEAN,
              attempt : Attempts \cup {None}, base : Nat, generation : Nat,
              step : 1 .. 7, committed : BOOLEAN]

Idle == [pc |-> "idle", request |-> None, recover |-> FALSE, attempt |-> None,
         base |-> 0, generation |-> 0, step |-> 1, committed |-> FALSE]

Live == {w \in Workers : worker[w].pc # "idle"}
Job(w) == worker[w].request.job
Version(w) == worker[w].request.version
At(w, place) == worker[w].pc = place

Goto(w, place) == worker' = [worker EXCEPT ![w].pc = place]

\* Mutant: the build guard and the attempt outlive the run.
Bug_Exit_keeps_guard(w) == worker' = [worker EXCEPT ![w].pc = "idle"]

\* run() returns or raises: the guard is released, the instance is gone.
Exit(w) == worker' = [worker EXCEPT ![w] = Idle]

-----------------------------------------------------------------------------
(* run(): the build guard and the checks made before the first mutation.   *)

\* One execution per version and process.
_claim_build_guard(w, v) ==
    \A u \in Live : ProcOf[u] = ProcOf[w] => Version(u) # v

\* recover=True is for a lease left running by an attempt that is over, by the
\* only execution of that version; an operator's error gives it at any time.
RecoverAllowed(v) ==
    \/ RecoverLive
    \/ /\ builds[v].status = "running"
       /\ \A u \in Live : Version(u) # v

\* uuid4: an id that is neither on a lease nor held by an execution.
FreshAttempts ==
    {a \in Attempts : /\ \A v \in Versions : builds[v].attempt # a
                      /\ \A u \in Workers : worker[u].attempt # a}

run(w, r, recover) ==
    /\ At(w, "idle")
    /\ builds[r.version].generation < MaxGeneration
    /\ _claim_build_guard(w, r.version)
    /\ recover => RecoverAllowed(r.version)
    /\ FreshAttempts # {}
    /\ worker' = [worker EXCEPT ![w] =
          [pc |-> "precheck", request |-> r, recover |-> recover,
           attempt |-> CHOOSE a \in FreshAttempts : TRUE,
           base |-> 0, generation |-> 0, step |-> 1, committed |-> FALSE]]
    /\ UNCHANGED <<storeVars, planes, faults, crashes>>

\* validate_job_identity, then the row of this version.
Precheck(w) ==
    LET row == documents[Version(w)]
        rejected == \/ ~IdentityMatches(Job(w), Version(w), worker[w].request.hash)
                    \/ row.status # "absent" /\ row.hash # worker[w].request.hash
    IN  /\ At(w, "precheck")
        /\ CASE rejected -> Exit(w)
             [] ~rejected /\ row.status = "active" -> Goto(w, "owner")
             [] ~rejected /\ row.status = "deprecated" -> Goto(w, "short")
             [] OTHER -> Goto(w, "base")
        /\ UNCHANGED <<storeVars, planes, faults, crashes>>

\* Mutant: whoever owns the build, an active version counts as published.
Bug_PublishedBy_any_owner(v) == get_build_owner(v) # None

\* The job that owns the build of an active version has completed it.
PublishedBy(v) == get_job_status(get_build_owner(v)) = "succeeded"

OwnerCheck(w) ==
    /\ At(w, "owner")
    /\ Goto(w, IF PublishedBy(Version(w)) THEN "short" ELSE "base")
    /\ UNCHANGED <<storeVars, planes, faults, crashes>>

_short_circuit_already_indexed(w) ==
    /\ At(w, "short")
    /\ IF /\ IdentityMatches(Job(w), Version(w), worker[w].request.hash)
          /\ jobs[Job(w)].status # "absent"
       THEN mark_job_terminal(Job(w), "succeeded")
       ELSE UNCHANGED storeVars
    /\ Exit(w)
    /\ UNCHANGED <<planes, faults, crashes>>

-----------------------------------------------------------------------------
(* _step_acquire: the base revision is read before the transaction.        *)

ReadBase(w) ==
    /\ At(w, "base")
    /\ worker' = [worker EXCEPT ![w].pc = "acquire", ![w].base = get_current_revision]
    /\ UNCHANGED <<storeVars, planes, faults, crashes>>

_step_acquire(w) ==
    LET r == worker[w].request
        granted == LeaseGranted(r.job, r.version, worker[w].attempt, worker[w].recover)
    IN  /\ At(w, "acquire")
        /\ \/ /\ acquire_job(r.job, r.version, r.hash, r.acl, worker[w].base,
                             worker[w].attempt, worker[w].recover)
              /\ worker' = [worker EXCEPT ![w].pc = "next",
                                          ![w].generation = builds'[r.version].generation]
           \/ /\ ~granted                       \* BuildConflict
              /\ Exit(w)
              /\ UNCHANGED storeVars
           \/ /\ granted                        \* JobIdentityConflict
              /\ ~IdentityMatches(r.job, r.version, r.hash)
              /\ Goto(w, "handler")
              /\ UNCHANGED storeVars
        /\ UNCHANGED <<planes, faults, crashes>>

-----------------------------------------------------------------------------
(* The loop over the steps.  parse and chunk only recompute what is        *)
(* deterministic, so they are left out.                                    *)

\* Skip the steps whose marker is there; after the last one run() returns.
NextStep(w) ==
    LET todo == {k \in worker[w].step .. 6 : STEPS[k] \notin steps[Job(w)]}
        k == CHOOSE x \in todo : \A y \in todo : x <= y
    IN  /\ At(w, "next")
        /\ IF todo = {} THEN Exit(w)
           ELSE worker' = [worker EXCEPT ![w].pc = STEPS[k], ![w].step = k]
        /\ UNCHANGED <<storeVars, planes, faults, crashes>>

mark_step(w) ==
    /\ At(w, "mark")
    /\ steps' = [steps EXCEPT ![Job(w)] = steps[Job(w)] \cup {STEPS[worker[w].step]}]
    /\ worker' = [worker EXCEPT ![w].pc = "next", ![w].step = worker[w].step + 1]
    /\ UNCHANGED <<storeVars, points, chunks, parents, faults, crashes>>

\* The parents are written "active" from the start.
_step_write_parents(w) ==
    /\ At(w, "write_parents")
    /\ parents' = [parents EXCEPT ![ProcOf[w]][Version(w)] = "active"]
    /\ Goto(w, "mark")
    /\ UNCHANGED <<storeVars, steps, points, chunks, faults, crashes>>

_step_write_qdrant(w) ==
    /\ \/ /\ At(w, "write_qdrant")
          /\ points' = [points EXCEPT ![Version(w)] = "processing"]
          /\ Goto(w, "write_chunks")
          /\ UNCHANGED chunks
       \/ /\ At(w, "write_chunks")
          /\ chunks' = [chunks EXCEPT ![Version(w)] = TRUE]
          /\ Goto(w, "mark")
          /\ UNCHANGED points
    /\ UNCHANGED <<storeVars, steps, parents, faults, crashes>>

\* Everything that the version needs is there, as far as process p sees.
Complete(p, v) ==
    /\ parents[p][v] # "none"
    /\ points[v] = "processing"
    /\ chunks[v]

_step_verify(w) ==
    /\ At(w, "verify")
    /\ IF /\ Complete(ProcOf[w], Version(w))
          /\ documents[Version(w)].status \in {"processing", "failed", "active"}
       THEN Goto(w, "mark") ELSE Goto(w, "handler")
    /\ UNCHANGED <<storeVars, planes, faults, crashes>>

\* Mutant: the fence compares the owner and not the token.
Bug_OwnsBuild_owner_only(w) == get_build_owner(Version(w)) = Job(w)

\* The fence: this execution is the last one that acquired the lease.
OwnsBuild(w) ==
    /\ get_build_owner(Version(w)) = Job(w)
    /\ get_lease_generation(Version(w)) = worker[w].generation

\* BuildConflict ends the run without compensation.
_assert_owns_build(w, place) ==
    /\ IF OwnsBuild(w) THEN Goto(w, place) ELSE Exit(w)
    /\ UNCHANGED <<storeVars, planes, faults, crashes>>

\* The compare-and-swap is against the base of the job ROW.
_step_commit(w) ==
    \/ /\ At(w, "commit")
       /\ _assert_owns_build(w, "switch")
    \/ /\ At(w, "switch")
       /\ \/ /\ commit_active_version(Version(w), jobs[Job(w)].base)
             /\ worker' = [worker EXCEPT ![w].pc = "mark", ![w].committed = TRUE]
          \/ /\ documents[Version(w)].status # "active"    \* ActiveVersionConflict
             /\ ~CommitAccepted(Version(w), jobs[Job(w)].base)
             /\ Goto(w, "handler")
             /\ UNCHANGED storeVars
       /\ UNCHANGED <<planes, faults, crashes>>

\* Promote this version, then retire the one that the job row names, as far as
\* its chunk rows tell what there is to retire.
_step_publish(w) ==
    LET p == ProcOf[w]
        v == Version(w)
        previous == jobs[Job(w)].previous
    IN  \/ /\ At(w, "publish")
           /\ _assert_owns_build(w, "promote")
        \/ /\ At(w, "promote")
           /\ points' = [points EXCEPT ![v] = "active"]
           /\ Goto(w, "promote_parents")
           /\ UNCHANGED <<storeVars, steps, chunks, parents, faults, crashes>>
        \/ /\ At(w, "promote_parents")
           /\ parents' = IF parents[p][v] = "none" THEN parents
                         ELSE [parents EXCEPT ![p][v] = "active"]
           /\ Goto(w, IF previous \in {None, v} \/ ~chunks[previous]
                      THEN "mark" ELSE "retire_parents")
           /\ UNCHANGED <<storeVars, steps, points, chunks, faults, crashes>>
        \/ /\ At(w, "retire_parents")
           /\ parents' = IF parents[p][previous] = "none" THEN parents
                         ELSE [parents EXCEPT ![p][previous] = "deprecated"]
           /\ Goto(w, "retire")
           /\ UNCHANGED <<storeVars, steps, points, chunks, faults, crashes>>
        \/ /\ At(w, "retire")
           /\ points' = [points EXCEPT ![previous] = "inactive"]
           /\ Goto(w, "mark")
           /\ UNCHANGED <<storeVars, steps, chunks, parents, faults, crashes>>

_step_finalize(w) ==
    /\ At(w, "finalize")
    /\ mark_job_terminal(Job(w), "succeeded")
    /\ Goto(w, "mark")
    /\ UNCHANGED <<planes, faults, crashes>>

-----------------------------------------------------------------------------
(* Failure.  A call that raises inside the try block leads to the handler; *)
(* one that raises inside the handler escapes from run() and leaves the    *)
(* job row and the lease as they are.                                      *)

Raise(w) ==
    /\ worker[w].pc \in FaultPoints
    /\ faults < MaxFaults
    /\ faults' = faults + 1
    /\ \/ /\ worker[w].pc \in InTry
          /\ Goto(w, "handler")
       \/ /\ worker[w].pc \in InHandler
          /\ Exit(w)
    /\ UNCHANGED <<storeVars, planes, crashes>>

\* Mutant: the markers survive the compensation.
Bug_clear_steps_forgotten(j) == UNCHANGED steps

clear_steps(j) == steps' = [steps EXCEPT ![j] = {}]

\* Nothing is undone after the commit of THIS instance, nor without the lease.
_compensate(w) ==
    LET v == Version(w) IN
    \/ /\ At(w, "handler")
       /\ Goto(w, IF ~worker[w].committed /\ OwnsBuild(w) THEN "undo_points" ELSE "fail")
       /\ UNCHANGED <<storeVars, planes, faults, crashes>>
    \/ /\ At(w, "undo_points")
       /\ points' = [points EXCEPT ![v] = "none"]
       /\ Goto(w, "undo_parents")
       /\ UNCHANGED <<storeVars, steps, chunks, parents, faults, crashes>>
    \/ /\ At(w, "undo_parents")
       /\ parents' = [parents EXCEPT ![ProcOf[w]][v] = "none"]
       /\ Goto(w, "undo_chunks")
       /\ UNCHANGED <<storeVars, steps, points, chunks, faults, crashes>>
    \/ /\ At(w, "undo_chunks")
       /\ chunks' = [chunks EXCEPT ![v] = FALSE]
       /\ Goto(w, "undo_steps")
       /\ UNCHANGED <<storeVars, steps, points, parents, faults, crashes>>
    \/ /\ At(w, "undo_steps")
       /\ clear_steps(Job(w))
       /\ Goto(w, "undo_row")
       /\ UNCHANGED <<storeVars, points, chunks, parents, faults, crashes>>
    \/ /\ At(w, "undo_row")
       /\ mark_document_failed(v)
       /\ Goto(w, "fail")
       /\ UNCHANGED <<planes, faults, crashes>>

\* Not fenced: the job row and its leases fail whoever holds them now.
Fail(w) ==
    /\ At(w, "fail")
    /\ mark_job_terminal(Job(w), "failed")
    /\ Exit(w)
    /\ UNCHANGED <<planes, faults, crashes>>

\* A process ends at any point: its executions and its Parent Store are gone.
Crash(p) ==
    /\ crashes < MaxCrashes
    /\ \E w \in Live : ProcOf[w] = p
    /\ crashes' = crashes + 1
    /\ worker' = [w \in Workers |-> IF ProcOf[w] = p THEN Idle ELSE worker[w]]
    /\ parents' = [parents EXCEPT ![p] = [v \in Versions |-> "none"]]
    /\ UNCHANGED <<storeVars, steps, points, chunks, faults>>

-----------------------------------------------------------------------------
JobInit ==
    /\ Init
    /\ steps = [j \in Jobs |-> {}]
    /\ points = [v \in Versions |-> "none"]
    /\ chunks = [v \in Versions |-> FALSE]
    /\ parents = [p \in Procs |-> [v \in Versions |-> "none"]]
    /\ worker = [w \in Workers |-> Idle]
    /\ faults = 0
    /\ crashes = 0

\* The code that a worker executes once it has been called.
Advance(w) ==
    \/ Precheck(w) \/ OwnerCheck(w) \/ _short_circuit_already_indexed(w)
    \/ ReadBase(w) \/ _step_acquire(w) \/ NextStep(w) \/ mark_step(w)
    \/ _step_write_parents(w) \/ _step_write_qdrant(w) \/ _step_verify(w)
    \/ _step_commit(w) \/ _step_publish(w) \/ _step_finalize(w)
    \/ _compensate(w) \/ Fail(w)

Deliver(w) == \E r \in Requests, recover \in BOOLEAN : run(w, r, recover)

JobNext ==
    \/ \E w \in Workers : Deliver(w) \/ Advance(w) \/ Raise(w)
    \/ \E p \in Procs : Crash(p)

JobSpec == JobInit /\ [][JobNext]_jobVars

\* The caller delivers again what has not been reported as done, as a recovery
\* when the lease was left behind; a call that was made goes on.
Redeliver(r) == \E w \in Workers : run(w, r, RecoverAllowed(r.version))

JobFairness ==
    /\ \A w \in Workers : WF_jobVars(Advance(w))
    /\ \A r \in Requests : SF_jobVars(Redeliver(r))

FairJobSpec == JobSpec /\ JobFairness

-----------------------------------------------------------------------------
(* Properties.                                                             *)

\* The control plane keeps its schema, and the markers, the planes and the
\* executions stay in their types; an execution has a request exactly while it
\* is under way.
JobTypeOK ==
    /\ TypeOK
    /\ steps \in [Jobs -> SUBSET Markers]
    /\ points \in [Versions -> PointStatus]
    /\ chunks \in [Versions -> BOOLEAN]
    /\ parents \in [Procs -> [Versions -> ParentStatus]]
    /\ worker \in [Workers -> Execution]
    /\ \A w \in Workers : worker[w].request = None <=> worker[w].pc = "idle"
    /\ faults \in Nat /\ crashes \in Nat

\* No two executions of one version pass the fence of commit, publish and
\* compensation, whatever crashes, duplicate deliveries, takeovers and even
\* mistaken recoveries of a live attempt there are.
FencingTokenUnique ==
    \A u, w \in Live :
        Version(u) = Version(w) /\ OwnsBuild(u) /\ OwnsBuild(w) => u = w

\* The execution is between its acquire and the end of its finalize.
Building(w) ==
    \/ worker[w].pc \in {"write_parents", "write_qdrant", "write_chunks", "verify", "commit",
                         "switch", "publish", "promote", "promote_parents", "retire_parents", "retire",
                         "finalize"}
    \/ worker[w].pc \in {"next", "mark"} /\ worker[w].step < 6

\* The row of v was never switched on.
Uncommitted(v) == documents[v].status \in {"processing", "failed"}

\* The writes of the parents, points and chunk rows are not fenced: the lease
\* alone keeps two executions, of whatever process, from writing the same ids at
\* once.  Before its commit a version is built by one execution, and the job
\* row of that execution says so: no duplicate delivery, recovery or failing
\* neighbour ends the job of a live build, so nobody can take over its lease.
OneBuildBeforeCommit ==
    \A u, w \in Live :
        /\ Version(u) = Version(w) /\ Uncommitted(Version(w)) /\ Building(u) /\ Building(w)
              => u = w
        /\ Uncommitted(Version(w)) /\ Building(w) /\ OwnsBuild(w)
              => jobs[Job(w)].status = "running"

\* An active version whose owner has succeeded is visible in the data plane:
\* the short circuit of a later delivery never leaves a version committed but
\* unpublished for good.
SucceededIsPublished ==
    \A v \in ActiveVersions :
        get_job_status(builds[v].owner) = "succeeded" => points[v] = "active"

\* When a commit makes v active, the parents, points and chunk rows of v are
\* all there, although the verification was an earlier step, possibly of an
\* earlier execution.
CommitOnlyComplete ==
    [][\A v \in Versions :
         documents[v].status # "active" /\ documents'[v].status = "active"
            => \E p \in Procs : Complete(p, v)]_jobVars

\* The version that a commit replaces is the one that its job row names, which
\* publish then retires: no other commit fits between the claim of the build
\* and its own commit.
CommitReplacesPrevious ==
    [][\A v \in Versions :
         documents[v].status # "active" /\ documents'[v].status = "active"
            => jobs[builds[v].owner].previous = get_active_version]_jobVars

\* A version that is active loses none of its points, parents or chunk rows
\* while every process stays up: compensation never reaches what is visible.
ActiveDataKept ==
    [][\A v \in ActiveVersions, p \in Procs :
         crashes' = crashes =>
            /\ points[v] # "none" => points'[v] # "none"
            /\ chunks[v] => chunks'[v]
            /\ parents[p][v] # "none" => parents'[p][v] # "none"]_jobVars

\* A version that has been committed is eventually visible in the data plane
\* (or replaced), although calls raise and processes crash in between.
CommittedEventuallyPublished ==
    \A v \in Versions :
        [](documents[v].status = "active"
             => <>(documents[v].status # "active" \/ points[v] = "active"))
=============================================================================
