------------------------- MODULE DocumentLifecycle -------------------------
(***************************************************************************)
(* What happens to a document once it can be ingested: the operations of   *)
(* DocumentManager (delete, purge, tighten_acl, rollback), the Reconciler, *)
(* an ingestion under way and a restart, over the control plane of         *)
(* MetadataStore and the planes derived from it: the Qdrant points, the    *)
(* Parent Store in the memory of the process, and the chunk rows from      *)
(* which both can be rebuilt.  A step is one call that writes, with the    *)
(* reads that directly precede it; a store takes all of a version at once. *)
(* The ingestion here is the only one at a time: IngestionJob has leases,  *)
(* markers and retries.                                                    *)
(***************************************************************************)
EXTENDS MetadataStore, AccessPolicy, Sequences

CONSTANTS
    Corpus,       \* the corpus of the document
    Principals,   \* those who may call an operation
    Scenarios,    \* what may be asked in one behaviour, see below
    Hash          \* the content hash (of no interest here)

Operations == {"delete", "purge", "tighten_acl", "rollback"}

\* In one behaviour at most `most` times a document is delivered, under one of
\* `acls`, or one of the operations `calls` is called, and at most `troubles`
\* calls raise or processes end; the version delivered first is one of `first`,
\* `quiet` says that the reconciler is run only while nothing else is under way,
\* and `committed` that a rollback goes to a version that was active before.
ASSUME ScenariosAssumption ==
    Scenarios \subseteq [most : Nat, calls : SUBSET Operations, acls : SUBSET Acls, troubles : Nat,
                         first : SUBSET Versions, quiet : BOOLEAN, committed : BOOLEAN]
ASSUME HashAssumption == Hash \in Hashes

VARIABLES
    inserted,  \* the version rows in the order of their rowids
    points,    \* version -> status and ACL of its Qdrant points
    parents,   \* version -> status and ACL of its parents in the Parent Store
    chunks,    \* version -> ACL of its chunk rows, None without rows
    ingest,    \* the ingestion under way
    task,      \* the operator's call and the reconciler's run
    view,      \* what the reconciler's run has read of the stores
    lease,     \* the reconciler lease of the corpus
    scenario,  \* what is asked in this behaviour; never changes
    calls,     \* deliveries and calls so far
    troubles   \* faults and restarts so far

planeVars == <<inserted, points, parents, chunks>>
runVars == <<ingest, task, view, lease>>
boundVars == <<scenario, calls, troubles>>
lifecycleVars == <<storeVars, planeVars, runVars, boundVars>>

PointStatus == {"none", "processing", "active", "inactive", "deprecated", "deleted"}
ParentStatus == {"none", "active", "inactive"}
Nowhere == [status |-> "none", acl |-> None]

\* The flag beside the status: a point retired by an ingestion keeps it unset.
Deprecated(status) == IF status \in {"deprecated", "deleted"} THEN "yes" ELSE "no"

StagePlaces == {"stage_parents", "stage_points", "stage_chunks"}
PublishPlaces == {"promote", "promote_points", "promote_parents", "retire", "retire_parents",
                  "retire_points"}
UndoPlaces == {"undo", "undo_points", "undo_parents", "undo_chunks", "undo_row"}
IngestPlace == {"idle", "base", "acquire", "verify", "commit", "finalize", "fail"}
                  \cup StagePlaces \cup PublishPlaces \cup UndoPlaces

\* `previous` is the version to retire.  `stale` is a history: the document was
\* deleted or its ACL tightened since the base revision was read.
Ingestion == [pc : IngestPlace, version : Versions \cup {None}, acl : Acls \cup {None},
              job : Jobs \cup {None}, attempt : Attempts \cup {None}, base : Nat,
              previous : Versions \cup {None}, stale : BOOLEAN]
NoIngestion == [pc |-> "idle", version |-> None, acl |-> None, job |-> None,
                attempt |-> None, base |-> 0, previous |-> None, stale |-> FALSE]

DataPlaces == {"delete_points", "delete_parents", "acl_points", "acl_parents",
               "activate_points", "activate_parents", "deprecate_points", "deprecate_parents",
               "purge_points", "purge_parents"}
OperatorPlaces == {"idle", "target", "delete_row", "acl_row", "purge_list", "purge_chunks",
                   "purge_builds", "purge_jobs", "purge_rows"} \cup DataPlaces
ReconcilerPlaces == {"idle", "scroll", "points", "missing", "rebuild_points", "rebuild_parents", "deleted",
                     "parents", "purge_list", "purge_points", "purge_parents", "purge_chunks",
                     "purge_builds", "purge_jobs", "purge_rows"}
Threads == {"operator", "reconciler"}
LeaseState == {"free", "held", "left", "expired"}

\* `other` is the version that a rollback leaves, `todo` what the reconciler's
\* loop still has to look at, `listed` the versions that a purge has listed.
Task == [pc : OperatorPlaces \cup ReconcilerPlaces, version : Versions \cup {None},
         other : Versions \cup {None}, acl : Acls \cup {None}, todo : SUBSET Versions,
         listed : SUBSET Versions]
NoTask == [pc |-> "idle", version |-> None, other |-> None, acl |-> None, todo |-> {},
           listed |-> {}]
View == [active : SUBSET Versions, known : SUBSET Versions, deleted : SUBSET Versions,
         present : SUBSET Versions]
NoView == [active |-> {}, known |-> {}, deleted |-> {}, present |-> {}]

Op == task["operator"]
Rec == task["reconciler"]
OpAt(place) == Op.pc = place
RecAt(place) == Rec.pc = place
IngestAt(place) == ingest.pc = place

Quiet == IngestAt("idle") /\ OpAt("idle") /\ RecAt("idle")

\* While the reconciler of a quiet scenario runs, nothing else starts.
MayStart ==
    /\ calls < scenario.most
    /\ scenario.quiet => RecAt("idle")
Counted == calls' = calls + 1 /\ UNCHANGED <<scenario, troubles>>

Now(t, place) == task' = [task EXCEPT ![t].pc = place]

\* The calls of another thread go on without this one's variables.
OnlyData == UNCHANGED <<storeVars, inserted, ingest, view, lease, boundVars>>

-----------------------------------------------------------------------------
(* An ingestion, by the only worker there is here.                         *)

FreshJobs == {j \in Jobs : jobs[j].status = "absent" /\ \A v \in Versions : builds[v].owner # j}
FreshAttempts == {a \in Attempts : \A v \in Versions : builds[v].attempt # a}

\* A version is delivered while it has no row, under a job id of its own.
Deliver(v, acl) ==
    /\ IngestAt("idle")
    /\ MayStart
    /\ documents[v].status = "absent"
    /\ acl \in scenario.acls
    /\ calls = 0 => v \in scenario.first
    /\ FreshJobs # {} /\ FreshAttempts # {}
    /\ ingest' = [NoIngestion EXCEPT !.pc = "base", !.version = v, !.acl = acl,
                     !.job = CHOOSE j \in FreshJobs : TRUE,
                     !.attempt = CHOOSE a \in FreshAttempts : TRUE]
    /\ Counted
    /\ UNCHANGED <<storeVars, planeVars, task, view, lease>>

\* update(): a caller that may change the active document delivers new content,
\* under the document's ACL unless the caller gives one.
update(ctx, v, acl) ==
    /\ ActiveVersions # {}
    /\ can_manage_document(ctx, Corpus, documents[get_active_version].acl)
    /\ Deliver(v, IF acl = None THEN documents[get_active_version].acl ELSE acl)

IngestGoto(place) == ingest' = [ingest EXCEPT !.pc = place]

ReadBase ==
    /\ IngestAt("base")
    /\ ingest' = [ingest EXCEPT !.pc = "acquire", !.base = get_current_revision]
    /\ UNCHANGED <<storeVars, planeVars, task, view, lease, boundVars>>

_step_acquire ==
    LET v == ingest.version
        granted == LeaseGranted(ingest.job, v, ingest.attempt, FALSE)
    IN  /\ IngestAt("acquire")
        /\ \/ /\ acquire_job(ingest.job, v, Hash, ingest.acl, ingest.base, ingest.attempt, FALSE)
              /\ inserted' = IF documents[v].status = "absent" THEN Append(inserted, v) ELSE inserted
              /\ IngestGoto("stage_parents")
           \/ /\ ~granted
              /\ ingest' = NoIngestion
              /\ UNCHANGED <<storeVars, inserted>>
        /\ UNCHANGED <<points, parents, chunks, task, view, lease, boundVars>>

\* mark_step, after a step and before the next one, refers to the job: it raises
\* when a purge has removed the job's row.
Marked == jobs[ingest.job].status # "absent"

\* The parents, the points and the chunk rows, which nobody asks for before the
\* commit.  A chunk row refers to the row of its version.
WriteStaged ==
    LET v == ingest.version
        step(place) == IngestGoto(IF Marked THEN place ELSE "undo")
    IN
    /\ \/ /\ IngestAt("stage_parents")
          /\ parents' = IF Marked THEN [parents EXCEPT ![v] = [status |-> "active", acl |-> ingest.acl]]
                        ELSE parents
          /\ step("stage_points")
          /\ UNCHANGED <<points, chunks>>
       \/ /\ IngestAt("stage_points")
          /\ points' = IF Marked THEN [points EXCEPT ![v] = [status |-> "processing", acl |-> ingest.acl]]
                       ELSE points
          /\ step("stage_chunks")
          /\ UNCHANGED <<parents, chunks>>
       \/ /\ IngestAt("stage_chunks")
          /\ IF documents[v].status = "absent"
             THEN IngestGoto("undo") /\ UNCHANGED chunks
             ELSE IngestGoto("verify") /\ chunks' = [chunks EXCEPT ![v] = ingest.acl]
          /\ UNCHANGED <<points, parents>>
    /\ UNCHANGED <<storeVars, inserted, task, view, lease, boundVars>>

_step_verify ==
    LET v == ingest.version IN
    /\ IngestAt("verify")
    /\ IngestGoto(IF /\ Marked
                     /\ parents[v].status # "none"
                     /\ points[v].status = "processing"
                     /\ chunks[v] # None
                     /\ documents[v].status \in {"processing", "failed", "active"}
                  THEN "commit" ELSE "undo")
    /\ UNCHANGED <<storeVars, planeVars, task, view, lease, boundVars>>

\* Every execution has a job of its own, so owning the build is enough.
OwnsBuild == get_build_owner(ingest.version) = ingest.job

_step_commit ==
    LET v == ingest.version
        expected == jobs[ingest.job].base
    IN  /\ IngestAt("commit")
        /\ \/ /\ ~OwnsBuild                                  \* BuildConflict
              /\ ingest' = NoIngestion
              /\ UNCHANGED storeVars
           \/ /\ OwnsBuild
              /\ commit_active_version(v, expected)
              /\ IngestGoto("promote")
           \/ /\ OwnsBuild                                   \* ActiveVersionConflict
              /\ documents[v].status # "active" /\ ~CommitAccepted(v, expected)
              /\ IngestGoto("undo")
              /\ UNCHANGED storeVars
        /\ UNCHANGED <<planeVars, task, view, lease, boundVars>>

\* Publish: the mark of the commit and the fence.
EnterPublish ==
    /\ IngestAt("promote")
    /\ \/ ~Marked /\ IngestGoto("fail")
       \/ Marked /\ ~OwnsBuild /\ ingest' = NoIngestion       \* BuildConflict
       \/ Marked /\ OwnsBuild /\ IngestGoto("promote_points")
    /\ UNCHANGED <<storeVars, planeVars, task, view, lease, boundVars>>

\* The points are written anew, with the ACL of the request.
PromotePoints ==
    /\ IngestAt("promote_points")
    /\ points' = [points EXCEPT ![ingest.version] = [status |-> "active", acl |-> ingest.acl]]
    /\ IngestGoto("promote_parents")
    /\ UNCHANGED <<storeVars, inserted, parents, chunks, task, view, lease, boundVars>>

SetStatus(plane, v, status) ==
    IF plane[v].status = "none" THEN plane ELSE [plane EXCEPT ![v].status = status]

PromoteParents ==
    /\ IngestAt("promote_parents")
    /\ parents' = SetStatus(parents, ingest.version, "active")
    /\ IngestGoto("retire")
    /\ UNCHANGED <<storeVars, inserted, points, chunks, task, view, lease, boundVars>>

\* The version that the commit replaced is retired if it has chunk rows: its
\* points are written anew from them, with the ACL of the REQUEST.
ReadPrevious ==
    LET previous == jobs[ingest.job].previous IN
    /\ IngestAt("retire")
    /\ IF previous \in {None, ingest.version} \/ (previous # None /\ chunks[previous] = None)
       THEN IngestGoto("finalize")
       ELSE ingest' = [ingest EXCEPT !.pc = "retire_parents", !.previous = previous]
    /\ UNCHANGED <<storeVars, planeVars, task, view, lease, boundVars>>

RetirePrevious ==
    /\ \/ /\ IngestAt("retire_parents")
          /\ parents' = SetStatus(parents, ingest.previous, "inactive")
          /\ IngestGoto("retire_points")
          /\ UNCHANGED points
       \/ /\ IngestAt("retire_points")
          /\ points' = [points EXCEPT ![ingest.previous] =
                            [status |-> "inactive", acl |-> ingest.acl]]
          /\ IngestGoto("finalize")
          /\ UNCHANGED parents
    /\ UNCHANGED <<storeVars, inserted, chunks, task, view, lease, boundVars>>

_step_finalize ==
    /\ IngestAt("finalize")
    /\ mark_job_terminal(ingest.job, "succeeded")
    /\ ingest' = NoIngestion
    /\ UNCHANGED <<planeVars, task, view, lease, boundVars>>

\* The failure handler undoes what the owner of the build has written ...
_compensate ==
    LET v == ingest.version IN
    /\ \/ /\ IngestAt("undo")
          /\ IngestGoto(IF OwnsBuild THEN "undo_points" ELSE "fail")
          /\ UNCHANGED <<storeVars, points, parents, chunks>>
       \/ /\ IngestAt("undo_points")
          /\ points' = [points EXCEPT ![v] = Nowhere]
          /\ IngestGoto("undo_parents")
          /\ UNCHANGED <<storeVars, parents, chunks>>
       \/ /\ IngestAt("undo_parents")
          /\ parents' = [parents EXCEPT ![v] = Nowhere]
          /\ IngestGoto("undo_chunks")
          /\ UNCHANGED <<storeVars, points, chunks>>
       \/ /\ IngestAt("undo_chunks")
          /\ chunks' = [chunks EXCEPT ![v] = None]
          /\ IngestGoto("undo_row")
          /\ UNCHANGED <<storeVars, points, parents>>
       \/ /\ IngestAt("undo_row")
          /\ mark_document_failed(v)
          /\ IngestGoto("fail")
          /\ UNCHANGED <<points, parents, chunks>>
    /\ UNCHANGED <<inserted, task, view, lease, boundVars>>

\* ... then the job fails.
EndFailed ==
    /\ IngestAt("fail")
    /\ mark_job_terminal(ingest.job, "failed")
    /\ ingest' = NoIngestion
    /\ UNCHANGED <<planeVars, task, view, lease, boundVars>>

Advance ==
    \/ ReadBase \/ _step_acquire \/ WriteStaged \/ _step_verify \/ _step_commit
    \/ EnterPublish \/ PromotePoints \/ PromoteParents \/ ReadPrevious \/ RetirePrevious
    \/ _step_finalize \/ _compensate \/ EndFailed

-----------------------------------------------------------------------------
(* The operations of DocumentManager, called by one operator.              *)

\* The row with the highest revision, the last inserted one of several.
get_document_latest ==
    LET latest == {v \in Rows : documents[v].revision = get_current_revision}
        place(v) == CHOOSE k \in 1 .. Len(inserted) : inserted[k] = v
    IN  CHOOSE v \in latest : \A w \in latest : place(w) <= place(v)

Call(kind) ==
    /\ OpAt("idle")
    /\ kind \in scenario.calls
    /\ MayStart
    /\ Counted

\* The caller may read the document and owns it.
Managed(ctx, v) == can_manage_document(ctx, Corpus, documents[v].acl)

OpBegin(place, v, acl) ==
    task' = [task EXCEPT !["operator"] =
                [NoTask EXCEPT !.pc = place, !.version = v, !.acl = acl]]

delete(ctx) ==
    /\ Call("delete")
    /\ Rows # {}
    /\ Managed(ctx, get_document_latest)
    /\ documents[get_document_latest].status # "deleted"
    /\ OpBegin("delete_row", get_document_latest, None)
    /\ UNCHANGED <<storeVars, planeVars, ingest, view, lease>>

purge(ctx) ==
    /\ Call("purge")
    /\ Rows # {}
    /\ Managed(ctx, get_document_latest)
    /\ documents[get_document_latest].status = "deleted"
    /\ OpBegin("purge_list", None, None)
    /\ UNCHANGED <<storeVars, planeVars, ingest, view, lease>>

tighten_acl(ctx, acl) ==
    /\ Call("tighten_acl")
    /\ ActiveVersions # {}
    /\ Managed(ctx, get_active_version)
    /\ is_acl_tightening(documents[get_active_version].acl, acl)
    /\ OpBegin("acl_row", get_active_version, acl)
    /\ UNCHANGED <<storeVars, planeVars, ingest, view, lease>>

\* Without a target the newest row that is neither active nor deleted is taken.
RollbackTargets(to) ==
    IF to # None THEN {to}
    ELSE LET eligible == {v \in Rows : documents[v].status \notin {"active", "deleted"}}
         IN  {v \in eligible : \A w \in eligible : documents[w].revision <= documents[v].revision}

\* No caller is checked here: rollback is an operator's tool.  The store switches
\* first; what it leaves is retired afterwards.
rollback(to, v) ==
    /\ Call("rollback")
    /\ v \in RollbackTargets(to)
    /\ scenario.committed => documents[v].status \in {"active", "deprecated"}
    /\ rollback_active_version(v, None)
    /\ task' = [task EXCEPT !["operator"] =
                   [NoTask EXCEPT !.pc = IF to = None THEN "target" ELSE "activate_points",
                                  !.version = to, !.other = get_active_version]]
    /\ UNCHANGED <<planeVars, ingest, view, lease>>

\* The version to show, read again when the caller named none.
ResolveTarget ==
    /\ OpAt("target")
    /\ task' = [task EXCEPT !["operator"].version = get_active_version,
                            !["operator"].pc = IF get_active_version = None
                                               THEN "deprecate_points" ELSE "activate_points"]
    /\ UNCHANGED <<storeVars, planeVars, ingest, view, lease, boundVars>>

\* An ingestion that read its base before this change is stale.
MarkStale == ingest' = [ingest EXCEPT !.stale = ingest.pc \notin {"idle", "base"}]

\* The control plane changes first.
ChangeRow ==
    /\ \/ /\ OpAt("delete_row")
          /\ logical_delete(Op.version)
          /\ Now("operator", "delete_points")
       \/ /\ OpAt("acl_row")
          /\ update_document_acl(Op.version, Op.acl)
          /\ Now("operator", "acl_points")
    /\ IF documents' # documents THEN MarkStale ELSE UNCHANGED ingest
    /\ UNCHANGED <<planeVars, view, lease, boundVars>>

SetAcl(plane, v, acl) ==
    IF plane[v].status = "none" THEN plane ELSE [plane EXCEPT ![v].acl = acl]

\* list_point_ids_by_document and update_payload.
PatchPoints ==
    /\ \/ /\ OpAt("delete_points")
          /\ points' = SetStatus(points, Op.version, "deleted")
          /\ Now("operator", "delete_parents")
       \/ /\ OpAt("acl_points")
          /\ points' = SetAcl(points, Op.version, Op.acl)
          /\ Now("operator", "acl_parents")
       \/ /\ OpAt("activate_points")
          /\ points' = SetStatus(points, Op.version, "active")
          /\ Now("operator", "activate_parents")
       \/ /\ OpAt("deprecate_points")
          /\ points' = SetStatus(points, Op.other, "deprecated")
          /\ Now("operator", "deprecate_parents")
    /\ UNCHANGED <<parents, chunks>> /\ OnlyData

OpDone == task' = [task EXCEPT !["operator"] = NoTask]

PatchParents ==
    /\ \/ /\ OpAt("delete_parents")
          /\ parents' = SetStatus(parents, Op.version, "inactive")
          /\ OpDone
       \/ /\ OpAt("acl_parents")
          /\ parents' = SetAcl(parents, Op.version, Op.acl)
          /\ OpDone
       \/ /\ OpAt("activate_parents")
          /\ parents' = SetStatus(parents, Op.version, "active")
          /\ IF Op.other = Op.version THEN OpDone ELSE Now("operator", "deprecate_points")
       \/ /\ OpAt("deprecate_parents")
          /\ parents' = SetStatus(parents, Op.other, "inactive")
          /\ OpDone
    /\ UNCHANGED <<points, chunks>> /\ OnlyData

-----------------------------------------------------------------------------
(* The removal of a document: by purge(), which has checked that it was    *)
(* deleted, or by reconcile_purge(), which checks nothing.                 *)

\* All versions of the document, whatever their status.
ListVersions(t) ==
    /\ task[t].pc = "purge_list"
    /\ task' = [task EXCEPT ![t].pc = IF Rows = {} THEN "purge_builds" ELSE "purge_points",
                            ![t].listed = Rows]
    /\ UNCHANGED <<points, parents, chunks>> /\ OnlyData

\* One version after the other: its points, its parents and its chunk rows.
PurgeData(t, v) ==
    /\ v \in task[t].listed
    /\ \/ /\ task[t].pc = "purge_points"
          /\ points' = [points EXCEPT ![v] = Nowhere]
          /\ task' = [task EXCEPT ![t].pc = "purge_parents", ![t].version = v]
          /\ UNCHANGED <<parents, chunks>>
       \/ /\ task[t].pc = "purge_parents" /\ task[t].version = v
          /\ parents' = [parents EXCEPT ![v] = Nowhere]
          /\ Now(t, "purge_chunks")
          /\ UNCHANGED <<points, chunks>>
       \/ /\ task[t].pc = "purge_chunks" /\ task[t].version = v
          /\ chunks' = [chunks EXCEPT ![v] = None]
          /\ task' = [task EXCEPT ![t] =
                         [NoTask EXCEPT !.listed = task[t].listed \ {v},
                                        !.todo = task[t].todo,
                                        !.pc = IF task[t].listed = {v} THEN "purge_builds"
                                               ELSE "purge_points"]]
          /\ UNCHANGED <<points, parents>>
    /\ OnlyData

\* The reconciler goes on with its loop over the deleted rows.
PurgeEnds(t) ==
    task' = [task EXCEPT ![t] = IF t = "operator" THEN NoTask ELSE [@ EXCEPT !.pc = "deleted"]]

\* A chunk row refers to its document.
Referenced == \E v \in Rows : chunks[v] # None

\* Three statements (a job goes with its marks); the last one fails on the foreign
\* keys if an ingestion came in.
delete_document(t) ==
    /\ \/ /\ task[t].pc = "purge_builds"
          /\ delete_document_builds
          /\ Now(t, "purge_jobs")
          /\ UNCHANGED <<inserted, view, lease>>
       \/ /\ task[t].pc = "purge_jobs"
          /\ delete_document_jobs
          /\ Now(t, "purge_rows")
          /\ UNCHANGED <<inserted, view, lease>>
       \/ /\ task[t].pc = "purge_rows"
          /\ ~Referenced /\ delete_document_rows
          /\ inserted' = <<>>
          /\ PurgeEnds(t)
          /\ UNCHANGED <<view, lease>>
    /\ UNCHANGED <<points, parents, chunks, ingest, boundVars>>

\* The run of the reconciler ends and gives the lease back.
RecDone ==
    /\ task' = [task EXCEPT !["reconciler"] = NoTask]
    /\ view' = NoView
    /\ lease' = "free"

\* The IntegrityError reaches the caller; the reconciler gives up its lease.
ForeignKeyFails(t) ==
    /\ task[t].pc = "purge_rows"
    /\ Referenced \/ \E j \in Jobs : jobs[j].status # "absent"
    /\ IF t = "operator" THEN OpDone /\ UNCHANGED <<view, lease>> ELSE RecDone
    /\ UNCHANGED <<storeVars, planeVars, ingest, boundVars>>

PurgeStep(t) ==
    \/ ListVersions(t)
    \/ \E v \in Versions : PurgeData(t, v)
    \/ delete_document(t) \/ ForeignKeyFails(t)

-----------------------------------------------------------------------------
(* The reconciler.                                                         *)

\* It is run again and again; nothing is counted.  With the lease it reads what
\* is true from the store.
StartRun ==
    /\ RecAt("idle")
    /\ scenario.quiet => Quiet
    /\ lease \in {"free", "expired"}
    /\ lease' = "held"
    /\ view' = [NoView EXCEPT !.active = ActiveVersions, !.known = Rows,
                              !.deleted = {v \in Rows : documents[v].status = "deleted"}]
    /\ Now("reconciler", "scroll")
    /\ UNCHANGED <<storeVars, planeVars, ingest, boundVars>>

\* The lease of a run that ended with its process lasts until it expires.
LeaseExpires ==
    /\ lease = "left"
    /\ lease' = "expired"
    /\ UNCHANGED <<storeVars, planeVars, ingest, task, view, boundVars>>

Present(plane) == {v \in Versions : plane[v].status # "none"}

\* Mutant: what has no row is reported and kept.
Bug_Orphan_kept(v) == FALSE

\* What the snapshot says is wrong with a plane's entry.
Orphan(v) == v \notin view.known
Hidden(plane, v) == v \in view.active /\ plane[v].status # "active"
Lingering(plane, v) == v \in view.known \ view.active /\ plane[v].status = "active"

\* A loop that has nothing left to look at is followed at once by the next one that
\* the snapshot gives its list to; the others begin, or end, with a call.
LoopAt(place, todo) == [NoTask EXCEPT !.pc = place, !.todo = todo]
Loop(place, todo) ==
    task' = [task EXCEPT !["reconciler"] =
                IF todo # {} THEN LoopAt(place, todo)
                ELSE IF place = "points" /\ view.active # {} THEN LoopAt("missing", view.active)
                ELSE IF place \in {"points", "missing"} THEN LoopAt("deleted", view.deleted)
                ELSE LoopAt(place, {})]

\* All payloads are read at once, before the first repair.
scroll_all ==
    /\ RecAt("scroll")
    /\ view' = [view EXCEPT !.present = Present(points)]
    /\ Loop("points",
            {v \in Present(points) : Orphan(v) \/ Hidden(points, v) \/ Lingering(points, v)})
    /\ UNCHANGED <<storeVars, planeVars, ingest, lease, boundVars>>

\* An orphan goes, the status of the others follows the snapshot.
Repaired(plane, v, hidden) ==
    IF Orphan(v) THEN [plane EXCEPT ![v] = Nowhere]
    ELSE SetStatus(plane, v, IF v \in view.active THEN "active" ELSE hidden)

\* The next entry of the loop `place` is v: the order is that of point ids, of
\* names or of insertion, so any.
Look(place, v) ==
    /\ RecAt(place)
    /\ v \in Rec.todo

LookedAt(v) == Loop(Rec.pc, Rec.todo \ {v})

RepairPoints(v) ==
    /\ Look("points", v)
    /\ points' = Repaired(points, v, "deprecated")
    /\ LookedAt(v)
    /\ UNCHANGED <<parents, chunks>> /\ OnlyData

\* An active version without points, or without parents, is to be rebuilt from
\* its chunk rows, ACL included.
RepairMissing(v) ==
    /\ Look("missing", v)
    /\ IF (v \notin view.present \/ parents[v].status = "none") /\ chunks[v] # None
       THEN task' = [task EXCEPT !["reconciler"] =
                        [LoopAt("rebuild_points", Rec.todo \ {v}) EXCEPT !.version = v,
                                                                        !.acl = chunks[v]]]
       ELSE LookedAt(v)
    /\ UNCHANGED <<points, parents, chunks>> /\ OnlyData

rebuild_document ==
    LET found == [status |-> "active", acl |-> Rec.acl] IN
    /\ \/ /\ RecAt("rebuild_points")
          /\ points' = [points EXCEPT ![Rec.version] = found]
          /\ Now("reconciler", "rebuild_parents")
          /\ UNCHANGED parents
       \/ /\ RecAt("rebuild_parents")
          /\ parents' = [parents EXCEPT ![Rec.version] = found]
          /\ Loop("missing", Rec.todo)
          /\ UNCHANGED points
    /\ UNCHANGED chunks /\ OnlyData

\* A deleted row with points or parents left has the whole document purged.
RetryCleanup(v) ==
    /\ Look("deleted", v)
    /\ task' = [task EXCEPT !["reconciler"] =
                    LoopAt(IF v \in Present(points) \cup Present(parents)
                           THEN "purge_list" ELSE "deleted", Rec.todo \ {v})]
    /\ UNCHANGED <<points, parents, chunks>> /\ OnlyData

\* Mutant: a parent is hidden with the word used for points.
Bug_RepairParents_point_status(v) ==
    /\ Look("parents", v)
    /\ parents' = IF Orphan(v) \/ Hidden(parents, v) \/ Lingering(parents, v)
                  THEN Repaired(parents, v, "deprecated") ELSE parents
    /\ LookedAt(v)
    /\ UNCHANGED <<points, chunks>> /\ OnlyData

\* The status of a parent is read when the loop comes to it.
RepairParents(v) ==
    /\ Look("parents", v)
    /\ parents' = IF Orphan(v) \/ Hidden(parents, v) \/ Lingering(parents, v)
                  THEN Repaired(parents, v, "inactive") ELSE parents
    /\ LookedAt(v)
    /\ UNCHANGED <<points, chunks>> /\ OnlyData

\* The parents are listed after the last of the purges.
ListParents ==
    /\ RecAt("deleted") /\ Rec.todo = {}
    /\ view' = [view EXCEPT !.present = {}, !.deleted = {}]
    /\ Loop("parents", Present(parents))
    /\ UNCHANGED <<storeVars, planeVars, ingest, lease, boundVars>>

EndRun ==
    /\ RecAt("parents") /\ Rec.todo = {}
    /\ RecDone
    /\ UNCHANGED <<storeVars, planeVars, ingest, boundVars>>

Reconcile ==
    \/ StartRun \/ scroll_all \/ ListParents \/ EndRun
    \/ \E v \in Versions : RepairPoints(v) \/ RepairMissing(v) \/ RetryCleanup(v) \/ RepairParents(v)
    \/ rebuild_document \/ PurgeStep("reconciler")

-----------------------------------------------------------------------------
(* Faults and restarts.                                                    *)

Trouble ==
    /\ troubles < scenario.troubles
    /\ troubles' = troubles + 1
    /\ UNCHANGED <<scenario, calls>>

\* A call to the vector store or the Parent Store raises.  The operator is told;
\* the reconciler gives up its lease; the ingestion compensates, but not once
\* its version is active.
IngestFails ==
    /\ Trouble
    /\ \/ /\ ingest.pc \in {"stage_parents", "stage_points", "verify"}
          /\ IngestGoto("undo")
       \/ /\ ingest.pc \in {"promote_points", "promote_parents", "retire_parents", "retire_points"}
          /\ IngestGoto("fail")
    /\ UNCHANGED <<storeVars, planeVars, task, view, lease>>

CallFails ==
    /\ Trouble
    /\ \/ Op.pc \in DataPlaces /\ OpDone /\ UNCHANGED <<view, lease>>
       \/ /\ Rec.pc \in {"scroll", "points", "missing", "rebuild_points", "rebuild_parents",
                          "deleted", "parents", "purge_points", "purge_parents"}
          /\ RecDone
    /\ UNCHANGED <<storeVars, planeVars, ingest>>

\* The process ends: what it was doing is lost, and so is its Parent Store.
Restart ==
    /\ Trouble
    /\ ingest' = NoIngestion
    /\ task' = [t \in Threads |-> NoTask]
    /\ view' = NoView
    /\ lease' = IF lease = "held" THEN "left" ELSE lease
    /\ parents' = [v \in Versions |-> Nowhere]
    /\ UNCHANGED <<storeVars, inserted, points, chunks>>

-----------------------------------------------------------------------------
LifecycleInit ==
    /\ Init
    /\ inserted = <<>>
    /\ points = [v \in Versions |-> Nowhere]
    /\ parents = [v \in Versions |-> Nowhere]
    /\ chunks = [v \in Versions |-> None]
    /\ ingest = NoIngestion
    /\ task = [t \in Threads |-> NoTask]
    /\ view = NoView
    /\ lease = "free"
    /\ scenario \in Scenarios
    /\ calls = 0
    /\ troubles = 0

Ask ==
    \/ \E v \in Versions, acl \in Acls : Deliver(v, acl)
    \/ \E ctx \in Principals, v \in Versions, acl \in Acls \cup {None} : update(ctx, v, acl)
    \/ \E ctx \in Principals : delete(ctx) \/ purge(ctx)
    \/ \E ctx \in Principals, acl \in Acls : tighten_acl(ctx, acl)
    \/ \E to \in Versions \cup {None}, v \in Versions : rollback(to, v)

Operate == ResolveTarget \/ ChangeRow \/ PatchPoints \/ PatchParents \/ PurgeStep("operator")

LifecycleNext ==
    \/ Ask \/ Advance \/ Operate \/ Reconcile \/ LeaseExpires
    \/ IngestFails \/ CallFails \/ Restart

LifecycleSpec == LifecycleInit /\ [][LifecycleNext]_lifecycleVars

\* What has been started goes on, a lease expires, and the reconciler is run
\* again and again.
FairLifecycleSpec ==
    /\ LifecycleSpec
    /\ WF_lifecycleVars(Advance)
    /\ WF_lifecycleVars(Operate)
    /\ WF_lifecycleVars(Reconcile)
    /\ WF_lifecycleVars(LeaseExpires)

-----------------------------------------------------------------------------
(* The retrieval of a version by a principal, in one glance.               *)

Hit(v) == Payload(Corpus, points[v].status, Deprecated(points[v].status), points[v].acl)

\* SecureRetriever.retrieve: the corpus gate, the filtered search, the active
\* version of the control plane.
Retrieved(ctx, v) ==
    /\ can_discover_corpus(ctx, Corpus)
    /\ points[v].status # "none"
    /\ Found(ctx, Corpus, Hit(v))
    /\ get_active_version = v

\* Mutant: the parent of an authorized child is not authorized again.
Bug_load_parent_for_hit_trusts_child(ctx, v) == parents[v].status = "active"

\* ParentReader.load_parent_for_hit, the second authorization.
load_parent_for_hit(ctx, v) ==
    /\ parents[v].status = "active"
    /\ parents[v].acl = points[v].acl
    /\ resource_passes_filter(ctx, parents[v].acl, parents[v].status, "no")

Serves(ctx, v) == Retrieved(ctx, v) /\ load_parent_for_hit(ctx, v)

-----------------------------------------------------------------------------
(* Properties.                                                             *)

\* Every plane holds what its writers put there, and a thread without a task
\* keeps nothing of an earlier one.
LifecycleTypeOK ==
    /\ TypeOK
    /\ \A k \in 1 .. Len(inserted) : inserted[k] \in Versions
    /\ points \in [Versions -> [status : PointStatus, acl : Acls \cup {None}]]
    /\ parents \in [Versions -> [status : ParentStatus, acl : Acls \cup {None}]]
    /\ chunks \in [Versions -> Acls \cup {None}]
    /\ ingest \in Ingestion
    /\ task \in [Threads -> Task]
    /\ view \in View
    /\ lease \in LeaseState
    /\ scenario \in Scenarios
    /\ calls \in 0 .. scenario.most
    /\ troubles \in 0 .. scenario.troubles

\* A delete or a tightening fences every ingestion that read its base revision
\* before: such an ingestion never makes its version active.  The revision it
\* compares with is the maximum over the rows, the one the operations advance
\* is that of a row, and a purge takes both back (job.py: delete, tighten_acl).
\* The exception is an ingestion that a purge overtook between its lease and its
\* job row, which is read as base 0 once it is gone.
StaleIsFenced ==
    [][IngestAt("commit") /\ ingest'.pc = "promote" /\ ingest.stale
          => jobs[ingest.job].status = "absent"]_lifecycleVars

TighteningActive(v) == Op.version = v /\ Op.pc \in {"acl_points", "acl_parents"}

\* Nobody is served a version that its row denies him, except while a tightening
\* of the version still has planes to patch: three copies of an ACL, written by
\* ingestions, retirements, rollbacks and tightenings in any order, never agree
\* on an ACL wider than that of the row (parent_reader.py).
ServedIsAllowed ==
    \A ctx \in Principals, v \in Versions :
        Serves(ctx, v) /\ ~TighteningActive(v) => evaluate_access(ctx, documents[v].acl)

\* A plane agrees with the rows on what is active.
Agrees(plane) ==
    \A v \in Versions :
        /\ documents[v].status = "active" <=> plane[v].status = "active"
        /\ documents[v].status = "absent" => plane[v].status = "none"

\* However ingestions, operations, faults and a restart are interleaved with the
\* reconciler, the planes end up in agreement with the rows (reconciler.py).
Converges == <>[](Agrees(points) /\ Agrees(parents))

\* docs/issue-e022-contract.md:225: the reconciler respects the ACL.  No step of
\* its run starts to serve a version to somebody whom the version's row denies it.
ReconcilerRespectsAcl ==
    [][\A ctx \in Principals, v \in Versions :
          task'["reconciler"] # task["reconciler"] /\ ~Serves(ctx, v) /\ Serves(ctx, v)'
          => evaluate_access(ctx, documents[v].acl)]_lifecycleVars
=============================================================================
