---------------------------- MODULE MetadataStore ----------------------------
(***************************************************************************)
(* The control plane: the SQLite tables documents, document_builds and     *)
(* ingestion_jobs, restricted to ONE document of one corpus and tenant     *)
(* (every statement of the store is keyed by those three columns).  Every  *)
(* public method that changes a table is one action; the methods that run  *)
(* inside BEGIN IMMEDIATE ... COMMIT are atomic here.  A method that       *)
(* raises rolls its transaction back, so its failure is the disabled       *)
(* action; callers that react to the failure test the guards by name.      *)
(***************************************************************************)
EXTENDS Naturals

CONSTANTS Versions,  \* document versions
          Jobs,      \* job ids
          Hashes,    \* content hashes
          Acls,      \* access control lists
          Attempts,  \* attempt ids (one uuid per execution of a job)
          Stamps,    \* revisions that a caller may present to a compare-and-swap
          None       \* SQL NULL

ASSUME NoneAssumption == None \notin Versions \cup Acls \cup Jobs
ASSUME StampsAssumption == Stamps \subseteq Nat

VARIABLES documents, \* version -> row of the documents table
          builds,    \* version -> build lease (document_builds)
          jobs       \* job id  -> row of ingestion_jobs

storeVars == <<documents, builds, jobs>>

DocumentStatus == {"processing", "active", "failed", "deprecated", "deleted"}
JobStatus == {"queued", "running", "succeeded", "failed", "cancelling", "cancelled"}
InFlight == {"queued", "running", "cancelling"}
BuildStatus == {"running", "done", "failed"}

\* The columns the protocol reads; status "absent" stands for "no such row".
DocumentRow == [status : DocumentStatus \cup {"absent"}, revision : Nat,
                hash : Hashes \cup {None}, acl : Acls \cup {None}]

LeaseRow == [status : BuildStatus \cup {"absent"}, owner : Jobs \cup {None},
             generation : Nat, previous : Versions \cup {None},
             attempt : Attempts \cup {None}]

JobRow == [status : JobStatus \cup {"absent"}, version : Versions \cup {None},
           hash : Hashes \cup {None}, base : Nat, previous : Versions \cup {None}]

NoDocument == [status |-> "absent", revision |-> 0, hash |-> None, acl |-> None]
NoBuild == [status |-> "absent", owner |-> None, generation |-> 0,
            previous |-> None, attempt |-> None]
NoJob == [status |-> "absent", version |-> None, hash |-> None, base |-> 0,
          previous |-> None]

-----------------------------------------------------------------------------
(* Reads.                                                                  *)

\* The version rows that exist (list_document_versions).
Rows == {v \in Versions : documents[v].status # "absent"}

ActiveVersions == {v \in Versions : documents[v].status = "active"}

get_active_version ==
    IF ActiveVersions = {} THEN None ELSE CHOOSE v \in ActiveVersions : TRUE

Revisions == {0} \cup {documents[v].revision : v \in Rows}

Maximum(S) == CHOOSE r \in S : \A s \in S : s <= r

\* SELECT MAX(lifecycle_revision) over all rows of the document, 0 without rows.
get_current_revision == Maximum(Revisions)

get_lease_generation(v) == builds[v].generation
get_build_owner(v) == builds[v].owner

get_job_status(j) == IF j = None THEN "absent" ELSE jobs[j].status

-----------------------------------------------------------------------------
(* acquire_job                                                             *)

\* Mutant: the attempt id is not compared, the job id suffices.
Bug_LeaseGranted_same_job(j, v, attempt, recover) ==
    \/ builds[v].status = "absent"
    \/ builds[v].owner = j
    \/ get_job_status(builds[v].owner) \notin InFlight

\* The lease is free, belongs to a job that is not in flight, or belongs to
\* this job with no other live attempt on it (or an explicit recovery).
LeaseGranted(j, v, attempt, recover) ==
    \/ builds[v].status = "absent"
    \/ /\ builds[v].status # "absent"
       /\ builds[v].owner # j
       /\ get_job_status(builds[v].owner) \notin InFlight
    \/ /\ builds[v].owner = j
       /\ builds[v].status = "running" => (builds[v].attempt = attempt \/ recover)

\* A job id is bound for ever to the first request it came with.
IdentityMatches(j, v, h) ==
    jobs[j].status # "absent" => (jobs[j].version = v /\ jobs[j].hash = h)

\* The version that the build replaces: captured by the first claim of the
\* lease and carried along by every later one.
LeasePrevious(v) ==
    IF builds[v].status = "absent" THEN get_active_version ELSE builds[v].previous

\* Insert the processing row, or refresh one that was never committed; the
\* revision of an existing row stays.
_upsert_document_build(v, h, acl) ==
    documents' =
        IF documents[v].status \in {"absent", "processing", "failed"}
        THEN [documents EXCEPT ![v] = [status |-> "processing",
                                       revision |-> documents[v].revision,
                                       hash |-> h, acl |-> acl]]
        ELSE documents

\* The base revision is stored when the job row is inserted and never again.
JobRowAfterAcquire(j, v, h, base, previous) ==
    CASE jobs[j].status = "absent" ->
            [status |-> "running", version |-> v, hash |-> h, base |-> base,
             previous |-> previous]
      [] jobs[j].status = "running" -> jobs[j]
      [] OTHER -> [status |-> "running", version |-> jobs[j].version,
                   hash |-> jobs[j].hash, base |-> jobs[j].base,
                   previous |-> previous]

acquire_job(j, v, h, acl, base, attempt, recover) ==
    /\ LeaseGranted(j, v, attempt, recover)
    /\ IdentityMatches(j, v, h)
    /\ builds' = [builds EXCEPT ![v] = [status |-> "running", owner |-> j,
                                        generation |-> builds[v].generation + 1,
                                        previous |-> LeasePrevious(v),
                                        attempt |-> attempt]]
    /\ _upsert_document_build(v, h, acl)
    /\ jobs' = [jobs EXCEPT ![j] = JobRowAfterAcquire(j, v, h, base, LeasePrevious(v))]

\* Mutant: the lease keeps its status when its job ends.
Bug_mark_job_terminal_keeps_lease(j, status) ==
    /\ jobs' = IF jobs[j].status = "absent" THEN jobs
               ELSE [jobs EXCEPT ![j].status = status]
    /\ UNCHANGED <<documents, builds>>

\* Mutant: the lease is given the job's status, which is not in its vocabulary.
Bug_mark_job_terminal_same_word(j, status) ==
    /\ jobs' = IF jobs[j].status = "absent" THEN jobs
               ELSE [jobs EXCEPT ![j].status = status]
    /\ builds' = [v \in Versions |->
                    IF builds[v].owner = j THEN [builds[v] EXCEPT !.status = status]
                    ELSE builds[v]]
    /\ UNCHANGED documents

\* The job row (if any) and every lease the job owns change together.
mark_job_terminal(j, status) ==
    /\ jobs' = IF jobs[j].status = "absent" THEN jobs
               ELSE [jobs EXCEPT ![j].status = status]
    /\ builds' = [v \in Versions |->
                    IF builds[v].status # "absent" /\ builds[v].owner = j
                    THEN [builds[v] EXCEPT !.status =
                             IF status = "succeeded" THEN "done" ELSE "failed"]
                    ELSE builds[v]]
    /\ UNCHANGED documents

-----------------------------------------------------------------------------
(* The lifecycle of the version rows.                                      *)

\* Mutant: the version that was active is left active.
Bug_SwitchActive_keeps_previous(v, r) ==
    documents' = [documents EXCEPT ![v].status = "active", ![v].revision = r]

\* Mutant: the new row counts its own revisions instead of the document's.
Bug_SwitchActive_row_revision(v, r) ==
    documents' = [w \in Versions |->
        CASE w = v -> [documents[w] EXCEPT !.status = "active", !.revision = documents[w].revision + 1]
          [] w # v /\ documents[w].status = "active" ->
                [documents[w] EXCEPT !.status = "deprecated", !.revision = r]
          [] OTHER -> documents[w]]

\* The row v becomes active in place of the active one; both get revision r.
SwitchActive(v, r) ==
    documents' = [w \in Versions |->
        CASE w = v -> [documents[w] EXCEPT !.status = "active", !.revision = r]
          [] w # v /\ documents[w].status = "active" ->
                [documents[w] EXCEPT !.status = "deprecated", !.revision = r]
          [] OTHER -> documents[w]]

\* Mutant: the compare-and-swap swaps without comparing.
Bug_CommitAccepted_no_compare(v, expected) == v \in Rows

\* The switch is made only if no revision appeared since `expected` was read.
CommitAccepted(v, expected) ==
    /\ get_current_revision = expected
    /\ v \in Rows

commit_active_version(v, expected) ==
    /\ IF documents[v].status = "active"
       THEN UNCHANGED documents       \* already switched: idempotent resume
       ELSE /\ CommitAccepted(v, expected)
            /\ SwitchActive(v, get_current_revision + 1)
    /\ UNCHANGED <<builds, jobs>>

\* The version named by the caller, or the one the store picks: any row that
\* is not deleted, even one that was never committed.
rollback_active_version(v, expected) ==
    /\ ActiveVersions # {}
    /\ v \in Rows
    /\ documents[v].status # "deleted"
    /\ IF documents[v].status = "active"
       THEN UNCHANGED documents
       ELSE /\ expected # None => get_current_revision = expected
            /\ SwitchActive(v, get_current_revision + 1)
    /\ UNCHANGED <<builds, jobs>>

\* Which row a logical delete of v removes: v itself while it is active, and
\* otherwise whatever version is active by now (None: nothing to do).
DeleteTarget(v) ==
    IF documents[v].status \in {"absent", "deleted"} THEN None
    ELSE IF documents[v].status = "active" THEN v ELSE get_active_version

\* Mutant: the delete hides the version without advancing the revision.
Bug_logical_delete_no_revision(v) ==
    /\ documents' = IF DeleteTarget(v) = None THEN documents
                    ELSE [documents EXCEPT ![DeleteTarget(v)].status = "deleted"]
    /\ UNCHANGED <<builds, jobs>>

\* The new revision is that of the deleted ROW plus one, not the maximum.
logical_delete(v) ==
    /\ LET t == DeleteTarget(v) IN
       documents' = IF t = None THEN documents
                    ELSE [documents EXCEPT ![t].status = "deleted",
                                           ![t].revision = documents[t].revision + 1]
    /\ UNCHANGED <<builds, jobs>>

\* Likewise: the revision of the row plus one, and only while it is active.
update_document_acl(v, acl) ==
    /\ documents' = IF documents[v].status # "active" THEN documents
                    ELSE [documents EXCEPT ![v].acl = acl,
                                           ![v].revision = documents[v].revision + 1]
    /\ UNCHANGED <<builds, jobs>>

mark_document_failed(v) ==
    /\ documents' = IF documents[v].status \in {"processing", "failed"}
                    THEN [documents EXCEPT ![v].status = "failed"] ELSE documents
    /\ UNCHANGED <<builds, jobs>>

-----------------------------------------------------------------------------
(* delete_document: four statements, each committed on its own.  The       *)
(* markers of the second one are the business of the ingestion job; here   *)
(* they go with the jobs.  The foreign keys of ingestion_jobs and chunks   *)
(* refuse the last one while such rows exist.  Chunk rows are no table of  *)
(* this module, so that it admits more; DocumentLifecycle adds the guard.  *)

delete_document_builds ==
    /\ builds' = [v \in Versions |-> NoBuild]
    /\ UNCHANGED <<documents, jobs>>

delete_document_jobs ==
    /\ jobs' = [j \in Jobs |-> NoJob]
    /\ UNCHANGED <<documents, builds>>

delete_document_rows ==
    /\ \A j \in Jobs : jobs[j].status = "absent"
    /\ documents' = [v \in Versions |-> NoDocument]
    /\ UNCHANGED <<builds, jobs>>

-----------------------------------------------------------------------------
Init ==
    /\ documents = [v \in Versions |-> NoDocument]
    /\ builds = [v \in Versions |-> NoBuild]
    /\ jobs = [j \in Jobs |-> NoJob]

\* The store on its own: any caller, any arguments, any order.
Next ==
    \/ \E j \in Jobs, v \in Versions, h \in Hashes, acl \in Acls,
          base \in Stamps, a \in Attempts, recover \in BOOLEAN :
            acquire_job(j, v, h, acl, base, a, recover)
    \/ \E j \in Jobs, s \in {"succeeded", "failed"} : mark_job_terminal(j, s)
    \/ \E v \in Versions, e \in Stamps : commit_active_version(v, e)
    \/ \E v \in Versions, e \in Stamps \cup {None} : rollback_active_version(v, e)
    \/ \E v \in Versions : logical_delete(v)
    \/ \E v \in Versions, acl \in Acls : update_document_acl(v, acl)
    \/ \E v \in Versions : mark_document_failed(v)
    \/ delete_document_builds
    \/ delete_document_jobs
    \/ delete_document_rows

Spec == Init /\ [][Next]_storeVars

-----------------------------------------------------------------------------
(* Properties.                                                             *)

\* Every table holds rows of its schema, and the columns that a row never
\* had stay NULL.
TypeOK ==
    /\ documents \in [Versions -> DocumentRow]
    /\ builds \in [Versions -> LeaseRow]
    /\ jobs \in [Jobs -> JobRow]

\* No interleaving of commits, rollbacks, deletes and builds leaves two
\* versions active, so the partial unique index on the active rows never has
\* to refuse an update that the code makes.
UniqueActive ==
    \A v, w \in ActiveVersions : v = w

\* The active row carries the highest revision of the document.  logical_delete
\* and update_document_acl rely on it without saying so: they advance the
\* revision of the active ROW, while commit_active_version compares against the
\* MAXIMUM over all rows; were another row ahead, a delete could leave the
\* maximum unchanged and a stale build would pass its compare-and-swap.
ActiveHasMaxRevision ==
    \A v \in ActiveVersions : \A w \in Rows : documents[w].revision <= documents[v].revision

\* The build lease never lags the job that owns it: whenever the owner's row
\* is the build of that version, the two statuses agree, so that a redelivery
\* can tell a build in flight from a dead one by looking at either.
LeaseAgreesWithJob ==
    \A v \in Versions :
        LET j == builds[v].owner IN
        builds[v].status # "absent" /\ jobs[j].version = v =>
            \/ builds[v].status = "running" /\ jobs[j].status = "running"
            \/ builds[v].status = "done" /\ jobs[j].status = "succeeded"
            \/ builds[v].status = "failed" /\ jobs[j].status = "failed"

\* What a reader may see of the document: the active version under its ACL.
Shown ==
    IF ActiveVersions = {} THEN None
    ELSE <<get_active_version, documents[get_active_version].acl>>

Abstract == INSTANCE ActiveVersion WITH
    Visible <- Versions \X (Acls \cup {None}), Nothing <- None,
    visible <- Shown, revision <- get_current_revision

\* The tables implement the register of ActiveVersion: every step that changes
\* the active version or its ACL advances the maximal revision by exactly one,
\* and nothing but a purge takes it back.
ImplementsActiveVersion == Abstract!Spec
=============================================================================
