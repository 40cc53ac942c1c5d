------------------------- MODULE MetadataStoreProofs -------------------------
(***************************************************************************)
(* Proofs about the control plane, for any sets of versions, jobs, ACLs    *)
(* and attempts.  The inductive invariant of the documents table is        *)
(* RowsInv: the maximum that get_current_revision asks SQLite for exists   *)
(* (so no finiteness of Versions is needed), at most one row is active,    *)
(* the active row holds that maximum, and an absent row has revision 0.    *)
(***************************************************************************)
EXTENDS MetadataStore, TLAPS

HasMaximum == \E r \in Revisions : \A s \in Revisions : s <= r

BlankRows == \A v \in Versions : documents[v].status = "absent" => documents[v].revision = 0

RowsInv ==
    /\ HasMaximum
    /\ BlankRows
    /\ UniqueActive
    /\ ActiveHasMaxRevision

IInv == TypeOK /\ RowsInv

-----------------------------------------------------------------------------
\* A set of numbers that has a greatest element has it as its Maximum.
LEMMA MaximumIsGreatest ==
    ASSUME NEW S, \E r \in S : \A s \in S : s <= r
    PROVE  Maximum(S) \in S /\ \A s \in S : s <= Maximum(S)
BY DEF Maximum

\* ... and an element above all others is the Maximum.
LEMMA GreatestIsMaximum ==
    ASSUME NEW S \in SUBSET Nat, NEW r \in S, \A s \in S : s <= r
    PROVE  Maximum(S) = r
<1>1. Maximum(S) \in S /\ r <= Maximum(S)
  BY MaximumIsGreatest
<1>2. Maximum(S) <= r
  BY <1>1
<1>3. Maximum(S) \in Nat /\ r \in Nat
  BY <1>1
<1> QED
  BY <1>1, <1>2, <1>3

\* Under the invariant the current revision bounds every row and is a number.
LEMMA CurrentRevision ==
    ASSUME TypeOK, HasMaximum
    PROVE  /\ get_current_revision \in Nat
           /\ \A v \in Rows : documents[v].revision <= get_current_revision
           /\ Revisions \in SUBSET Nat
<1>1. Revisions \in SUBSET Nat
  BY DEF TypeOK, DocumentRow, Revisions, Rows
<1>2. get_current_revision \in Revisions /\ \A s \in Revisions : s <= get_current_revision
  BY MaximumIsGreatest DEF HasMaximum, get_current_revision
<1>3. \A v \in Rows : documents[v].revision \in Revisions
  BY DEF Revisions
<1> QED
  BY <1>1, <1>2, <1>3

\* The active version, when there is one, is a version row that is active.
LEMMA ActiveVersionType ==
    ASSUME TypeOK
    PROVE  get_active_version \in ActiveVersions \cup {None} /\ ActiveVersions \subseteq Versions
<1>1. CASE ActiveVersions = {}
  BY <1>1 DEF get_active_version, ActiveVersions
<1>2. CASE ActiveVersions # {}
  BY <1>2 DEF get_active_version, ActiveVersions
<1> QED
  BY <1>1, <1>2

-----------------------------------------------------------------------------
(* What a step of the store can do to the documents table.                 *)

Stored == \E v \in Versions, h \in Hashes, acl \in Acls : _upsert_document_build(v, h, acl)

Switched ==
    \E v \in Rows : /\ documents[v].status # "active"
                    /\ SwitchActive(v, get_current_revision + 1)

\* The active row is deleted, or gets another ACL, and its revision grows by 1.
Stamped ==
    \E v \in ActiveVersions, s \in {"active", "deleted"}, acl \in Acls \cup {None} :
        documents' = [documents EXCEPT ![v].status = s, ![v].acl = acl,
                                  ![v].revision = documents[v].revision + 1]

Failed ==
    \E v \in Versions : /\ documents[v].status \in {"processing", "failed"}
                        /\ documents' = [documents EXCEPT ![v].status = "failed"]

Emptied == documents' = [v \in Versions |-> NoDocument]

\* A delete touches the active row, or none ...
LEMMA DeleteStamps ==
    ASSUME TypeOK, NEW v \in Versions, logical_delete(v)
    PROVE  Stamped \/ UNCHANGED documents
<1>1. DeleteTarget(v) = None \/ DeleteTarget(v) \in ActiveVersions
  BY ActiveVersionType DEF DeleteTarget, ActiveVersions
<1>2. ASSUME DeleteTarget(v) # None PROVE Stamped
  <2> DEFINE t == DeleteTarget(v)
  <2>1. t \in ActiveVersions /\ t \in Versions
    BY <1>1, <1>2, ActiveVersionType
  <2>2. documents[t].acl \in Acls \cup {None}
    BY <2>1 DEF TypeOK, DocumentRow
  <2>3. documents' = [documents EXCEPT ![t].status = "deleted",
                                         ![t].revision = documents[t].revision + 1]
    BY <1>2 DEF logical_delete
  <2>4. documents' = [documents EXCEPT ![t].status = "deleted", ![t].acl = documents[t].acl,
                                         ![t].revision = documents[t].revision + 1]
    BY <2>1, <2>3 DEF TypeOK, DocumentRow
  <2> QED
    BY <2>1, <2>2, <2>4 DEF Stamped
<1> QED
  BY <1>2 DEF logical_delete

\* ... and so does an ACL change.
LEMMA AclStamps ==
    ASSUME TypeOK, NEW v \in Versions, NEW acl \in Acls, update_document_acl(v, acl)
    PROVE  Stamped \/ UNCHANGED documents
<1>1. ASSUME documents[v].status = "active" PROVE Stamped
  <2>1. documents' = [documents EXCEPT ![v].status = "active", ![v].acl = acl,
                                         ![v].revision = documents[v].revision + 1]
    BY <1>1 DEF update_document_acl, TypeOK, DocumentRow
  <2> QED
    BY <1>1, <2>1 DEF Stamped, ActiveVersions
<1> QED
  BY <1>1 DEF update_document_acl

\* Every step of the store is one of these; the case analysis over its methods
\* is made here once.
LEMMA DocumentSteps ==
    ASSUME TypeOK, [Next]_storeVars
    PROVE  Stored \/ Switched \/ Stamped \/ Failed \/ Emptied \/ UNCHANGED documents
<1>1. ASSUME NEW j \in Jobs, NEW v \in Versions, NEW h \in Hashes, NEW acl \in Acls,
             NEW base \in Stamps, NEW a \in Attempts, NEW recover \in BOOLEAN,
             acquire_job(j, v, h, acl, base, a, recover)
      PROVE  Stored
  BY <1>1 DEF acquire_job, Stored
<1>2. ASSUME NEW v \in Versions, NEW e \in Stamps, commit_active_version(v, e)
      PROVE  Switched \/ UNCHANGED documents
  BY <1>2 DEF commit_active_version, CommitAccepted, Switched
<1>3. ASSUME NEW v \in Versions, NEW e \in Stamps \cup {None}, rollback_active_version(v, e)
      PROVE  Switched \/ UNCHANGED documents
  BY <1>3 DEF rollback_active_version, Switched
<1>4. ASSUME NEW v \in Versions, logical_delete(v)
      PROVE  Stamped \/ UNCHANGED documents
  BY <1>4, DeleteStamps
<1>5. ASSUME NEW v \in Versions, NEW acl \in Acls, update_document_acl(v, acl)
      PROVE  Stamped \/ UNCHANGED documents
  BY <1>5, AclStamps
<1>6. ASSUME NEW v \in Versions, mark_document_failed(v)
      PROVE  Failed \/ UNCHANGED documents
  BY <1>6 DEF mark_document_failed, Failed
<1>7. ASSUME NEW j \in Jobs, NEW s \in {"succeeded", "failed"}, mark_job_terminal(j, s)
      PROVE  UNCHANGED documents
  BY <1>7 DEF mark_job_terminal
<1>8. delete_document_rows => Emptied
  BY DEF delete_document_rows, Emptied
<1>9. delete_document_builds \/ delete_document_jobs \/ UNCHANGED storeVars
        => UNCHANGED documents
  BY DEF delete_document_builds, delete_document_jobs, storeVars
<1> QED
  BY <1>1, <1>2, <1>3, <1>4, <1>5, <1>6, <1>7, <1>8, <1>9 DEF Next

\* A switch touches the row that becomes active and the one that was.
LEMMA SwitchedRows ==
    ASSUME TypeOK, NEW v \in Versions, NEW r, SwitchActive(v, r)
    PROVE  /\ documents'[v].status = "active" /\ documents'[v].revision = r
           /\ \A w \in Versions : w # v =>
                /\ documents'[w].status =
                     IF documents[w].status = "active" THEN "deprecated" ELSE documents[w].status
                /\ documents'[w].revision =
                     IF documents[w].status = "active" THEN r ELSE documents[w].revision
                /\ documents'[w].acl = documents[w].acl
           /\ documents'[v].acl = documents[v].acl
<1>0. \A w \in Versions : documents[w] \in DocumentRow
  BY DEF TypeOK
<1>1. documents'[v] = [documents[v] EXCEPT !.status = "active", !.revision = r]
  BY DEF SwitchActive
<1>2. ASSUME NEW w \in Versions, w # v, documents[w].status = "active"
      PROVE  documents'[w] = [documents[w] EXCEPT !.status = "deprecated", !.revision = r]
  BY <1>2 DEF SwitchActive
<1>3. ASSUME NEW w \in Versions, w # v, documents[w].status # "active"
      PROVE  documents'[w] = documents[w]
  BY <1>3 DEF SwitchActive
<1>4. /\ documents'[v].status = "active"
      /\ documents'[v].revision = r
      /\ documents'[v].acl = documents[v].acl
  BY <1>0, <1>1 DEF DocumentRow
<1>5. ASSUME NEW w \in Versions, w # v, documents[w].status = "active"
      PROVE  /\ documents'[w].status = "deprecated"
             /\ documents'[w].revision = r
             /\ documents'[w].acl = documents[w].acl
  BY <1>0, <1>2, <1>5 DEF DocumentRow
<1> QED
  BY <1>3, <1>4, <1>5

\* None of these steps leaves the schema of the documents table.
LEMMA DocumentsTyped ==
    ASSUME TypeOK, HasMaximum,
           Stored \/ Switched \/ Stamped \/ Failed \/ Emptied \/ UNCHANGED documents
    PROVE  documents' \in [Versions -> DocumentRow]
<1>1. CASE Stored
  BY <1>1 DEF Stored, _upsert_document_build, TypeOK, DocumentRow, DocumentStatus
<1>2. CASE Switched
  <2>1. PICK v \in Rows : SwitchActive(v, get_current_revision + 1)
    BY <1>2 DEF Switched
  <2>2. get_current_revision + 1 \in Nat
    BY CurrentRevision
  <2>3. documents' \in [Versions -> DocumentRow]
    <3>1. ASSUME NEW w \in Versions, NEW s \in {"active", "deprecated"}, NEW r \in Nat
          PROVE  /\ [documents[w] EXCEPT !.status = s, !.revision = r] \in DocumentRow
                 /\ documents[w] \in DocumentRow
      BY DEF TypeOK, DocumentRow, DocumentStatus
    <3> QED
      BY <2>1, <2>2, <3>1 DEF SwitchActive
  <2> QED
    BY <2>3
<1>3. CASE Stamped
  <2>1. PICK v \in ActiveVersions, s \in {"active", "deleted"}, acl \in Acls \cup {None} :
            documents' = [documents EXCEPT ![v].status = s, ![v].acl = acl,
                                           ![v].revision = documents[v].revision + 1]
    BY <1>3 DEF Stamped
  <2>2. v \in Versions /\ documents[v] \in DocumentRow
    BY DEF ActiveVersions, TypeOK
  <2>3. [documents[v] EXCEPT !.status = s, !.acl = acl,
                             !.revision = documents[v].revision + 1] \in DocumentRow
    <3>1. s \in DocumentStatus \cup {"absent"} /\ documents[v].revision + 1 \in Nat
      BY <2>2 DEF DocumentRow, DocumentStatus
    <3> QED
      BY <2>2, <3>1 DEF DocumentRow
  <2> QED
    BY <2>1, <2>2, <2>3 DEF TypeOK
<1>4. CASE Failed
  BY <1>4 DEF Failed, TypeOK, DocumentRow, DocumentStatus
<1>5. CASE Emptied
  BY <1>5 DEF Emptied, NoDocument, TypeOK, DocumentRow
<1>6. CASE UNCHANGED documents
  BY <1>6 DEF TypeOK, DocumentRow
<1> QED
  BY <1>1, <1>2, <1>3, <1>4, <1>5, <1>6

LeasesOK == builds \in [Versions -> LeaseRow] /\ jobs \in [Jobs -> JobRow]

\* The leases and the job rows keep their schema under every method.
LEMMA LeasesTyped ==
    ASSUME TypeOK, [Next]_storeVars
    PROVE  LeasesOK'
<1>1. ASSUME NEW j \in Jobs, NEW v \in Versions, NEW h \in Hashes, NEW acl \in Acls,
             NEW base \in Stamps, NEW a \in Attempts, NEW recover \in BOOLEAN,
             acquire_job(j, v, h, acl, base, a, recover)
      PROVE  LeasesOK'
  <2>1. LeasePrevious(v) \in Versions \cup {None}
    BY ActiveVersionType DEF LeasePrevious, TypeOK, LeaseRow
  <2>2. builds' \in [Versions -> LeaseRow]
    BY <1>1, <2>1 DEF acquire_job, TypeOK, LeaseRow, BuildStatus
  <2>3. JobRowAfterAcquire(j, v, h, base, LeasePrevious(v)) \in JobRow
    BY <2>1, StampsAssumption DEF JobRowAfterAcquire, TypeOK, JobRow, JobStatus
  <2>4. jobs' \in [Jobs -> JobRow]
    BY <1>1, <2>3 DEF acquire_job, TypeOK
  <2> QED
    BY <2>2, <2>4 DEF LeasesOK
<1>2. ASSUME NEW j \in Jobs, NEW s \in {"succeeded", "failed"}, mark_job_terminal(j, s)
      PROVE  LeasesOK'
  <2>1. jobs' \in [Jobs -> JobRow]
    <3>1. [jobs[j] EXCEPT !.status = s] \in JobRow /\ jobs \in [Jobs -> JobRow]
      BY DEF TypeOK, JobRow, JobStatus
    <3> QED
      BY <1>2, <3>1 DEF mark_job_terminal
  <2>2. ASSUME NEW v \in Versions
        PROVE  [builds[v] EXCEPT !.status = IF s = "succeeded" THEN "done" ELSE "failed"]
                  \in LeaseRow /\ builds[v] \in LeaseRow
    BY DEF TypeOK, LeaseRow, BuildStatus
  <2>3. builds' \in [Versions -> LeaseRow]
    BY <1>2, <2>2 DEF mark_job_terminal
  <2> QED
    BY <2>1, <2>3 DEF LeasesOK
<1>3. CASE delete_document_builds
  BY <1>3 DEF delete_document_builds, TypeOK, LeaseRow, LeasesOK, NoBuild
<1>4. CASE delete_document_jobs
  BY <1>4 DEF delete_document_jobs, TypeOK, JobRow, LeasesOK, NoJob
<1>5. ASSUME UNCHANGED <<builds, jobs>> PROVE LeasesOK'
  BY <1>5 DEF TypeOK, LeasesOK
<1>6. (\E v \in Versions, e \in Stamps : commit_active_version(v, e)) => LeasesOK'
  BY <1>5 DEF commit_active_version
<1>7. (\E v \in Versions, e \in Stamps \cup {None} : rollback_active_version(v, e)) => LeasesOK'
  BY <1>5 DEF rollback_active_version
<1>8. (\E v \in Versions : logical_delete(v)) => LeasesOK'
  BY <1>5 DEF logical_delete
<1>9. (\E v \in Versions, acl \in Acls : update_document_acl(v, acl)) => LeasesOK'
  BY <1>5 DEF update_document_acl
<1>10. (\E v \in Versions : mark_document_failed(v)) => LeasesOK'
  BY <1>5 DEF mark_document_failed
<1>11. delete_document_rows \/ UNCHANGED storeVars => LeasesOK'
  BY <1>5 DEF delete_document_rows, storeVars
<1> QED
  BY <1>1, <1>2, <1>3, <1>4, <1>6, <1>7, <1>8, <1>9, <1>10, <1>11 DEF Next

-----------------------------------------------------------------------------
\* In the new state the rows are bounded by r, and some row (or 0) reaches it.
LEMMA NewMaximum ==
    ASSUME NEW r \in Revisions', \A v \in Rows' : (documents[v].revision)' <= r, r \in Nat
    PROVE  HasMaximum'
BY DEF HasMaximum, Revisions

\* The rows stay ordered by their revisions, with the active one on top.
LEMMA RowsStep ==
    ASSUME IInv, TypeOK',
           Stored \/ Switched \/ Stamped \/ Failed \/ Emptied \/ UNCHANGED documents
    PROVE  RowsInv'
<1> DEFINE cur == get_current_revision
<1>a. /\ cur \in Nat
      /\ \A v \in Rows : documents[v].revision <= cur
      /\ cur \in Revisions
  BY CurrentRevision, MaximumIsGreatest DEF IInv, RowsInv, HasMaximum, get_current_revision
<1>1. CASE Stored
  <2>1. PICK v \in Versions, h \in Hashes, acl \in Acls : _upsert_document_build(v, h, acl)
    BY <1>1 DEF Stored
  <2>2. \A w \in Versions : /\ (documents[w].revision)' = documents[w].revision
                            /\ documents'[w].status = "active" <=> documents[w].status = "active"
                            /\ w \in Rows => w \in Rows'
                            /\ w \in Rows' => w \in Rows \/ w = v
    BY <2>1 DEF _upsert_document_build, IInv, TypeOK, DocumentRow, Rows
  <2>3. \A w \in Rows' : documents'[w].revision <= cur
    BY <1>a, <2>2 DEF IInv, RowsInv, BlankRows, Rows
  <2>4. cur \in Revisions'
    BY <1>a, <2>2 DEF Revisions, Rows
  <2>5. HasMaximum'
    BY <1>a, <2>3, <2>4, NewMaximum
  <2>6. BlankRows'
    BY <2>2, <2>1 DEF IInv, RowsInv, BlankRows, _upsert_document_build, TypeOK, DocumentRow
  <2>7. UniqueActive'
    BY <2>2 DEF IInv, RowsInv, UniqueActive, ActiveVersions
  <2>8. ActiveHasMaxRevision'
    BY <2>2 DEF IInv, RowsInv, ActiveHasMaxRevision, BlankRows, ActiveVersions, Rows, TypeOK, DocumentRow
  <2> QED
    BY <2>5, <2>6, <2>7, <2>8 DEF RowsInv
<1>2. CASE Switched
  <2>1. PICK v \in Rows : SwitchActive(v, cur + 1)
    BY <1>2 DEF Switched
  <2>2. \A w \in Versions : /\ w # v => /\ documents'[w].status # "active"
                                        /\ \/ documents'[w].revision = cur + 1
                                           \/ documents'[w].revision = documents[w].revision
                            /\ w \in Rows' <=> w \in Rows
    BY <1>a, <2>1, SwitchedRows DEF IInv, Rows
  <2>3. documents'[v].status = "active" /\ documents'[v].revision = cur + 1 /\ v \in Versions
    BY <1>a, <2>1, SwitchedRows DEF IInv, Rows
  <2>4. \A w \in Rows' : documents'[w].revision <= cur + 1
    BY <1>a, <2>2, <2>3 DEF Rows, IInv, TypeOK, DocumentRow
  <2>5. HasMaximum'
    <3>1. cur + 1 \in Revisions'
      BY <2>1, <2>2, <2>3 DEF Revisions
    <3> QED
      BY <1>a, <2>4, <3>1, NewMaximum
  <2>6. BlankRows'
    BY <2>1, <2>2, <2>3, SwitchedRows DEF Rows, IInv, RowsInv, BlankRows
  <2>7. UniqueActive'
    BY <2>2 DEF UniqueActive, ActiveVersions
  <2>8. ActiveHasMaxRevision'
    BY <2>2, <2>3, <2>4 DEF ActiveHasMaxRevision, ActiveVersions
  <2> QED
    BY <2>5, <2>6, <2>7, <2>8 DEF RowsInv
<1>3. CASE Stamped
  <2>1. PICK v \in ActiveVersions, s \in {"active", "deleted"}, acl \in Acls \cup {None} :
            documents' = [documents EXCEPT ![v].status = s, ![v].acl = acl,
                                      ![v].revision = documents[v].revision + 1]
    BY <1>3 DEF Stamped
  <2>2. v \in Versions /\ v \in Rows /\ documents[v].status = "active"
    BY DEF ActiveVersions, Rows
  <2>3. /\ documents'[v].revision = documents[v].revision + 1
        /\ documents'[v].status = s
        /\ \A w \in Versions : w # v => documents'[w] = documents[w]
    BY <2>1, <2>2 DEF IInv, TypeOK, DocumentRow
  <2>4. v \in Rows' /\ \A w \in Versions : w \in Rows' <=> w \in Rows
    BY <2>2, <2>3 DEF Rows
  <2>5. \A w \in Rows' : documents'[w].revision <= documents[v].revision + 1
    BY <2>2, <2>3, <2>4 DEF IInv, RowsInv, ActiveHasMaxRevision, Rows, TypeOK, DocumentRow
  <2>6. HasMaximum'
    <3>1. documents[v].revision + 1 \in Revisions' /\ documents[v].revision + 1 \in Nat
      BY <2>2, <2>3, <2>4 DEF Revisions, IInv, TypeOK, DocumentRow
    <3> QED
      BY <2>5, <3>1, NewMaximum
  <2>7. BlankRows'
    BY <2>3, <2>2 DEF IInv, RowsInv, BlankRows
  <2>8. \A w \in ActiveVersions' : w = v
    BY <2>2, <2>3 DEF IInv, RowsInv, UniqueActive, ActiveVersions
  <2>9. UniqueActive'
    BY <2>8 DEF UniqueActive
  <2>10. ActiveHasMaxRevision'
    BY <2>3, <2>5, <2>8 DEF ActiveHasMaxRevision
  <2> QED
    BY <2>6, <2>7, <2>9, <2>10 DEF RowsInv
<1>4. CASE Failed
  <2>1. \A w \in Versions : /\ documents'[w].revision = documents[w].revision
                            /\ documents'[w].status = "active" <=> documents[w].status = "active"
                            /\ documents'[w].status = "absent" <=> documents[w].status = "absent"
    BY <1>4 DEF Failed, IInv, TypeOK, DocumentRow
  <2>2. Revisions' = Revisions /\ Rows' = Rows /\ ActiveVersions' = ActiveVersions
    BY <2>1 DEF Revisions, Rows, ActiveVersions
  <2>3. HasMaximum'
    BY <2>2 DEF IInv, RowsInv, HasMaximum
  <2> QED
    BY <2>1, <2>2, <2>3 DEF IInv, RowsInv, BlankRows, UniqueActive, ActiveHasMaxRevision,
                            Rows, ActiveVersions
<1>5. CASE Emptied
  <2>1. \A w \in Versions : documents'[w].status = "absent" /\ documents'[w].revision = 0
    BY <1>5 DEF Emptied, NoDocument
  <2>2. Revisions' = {0} /\ Rows' = {} /\ ActiveVersions' = {}
    BY <2>1 DEF Revisions, Rows, ActiveVersions
  <2> QED
    BY <2>1, <2>2 DEF RowsInv, HasMaximum, BlankRows, UniqueActive, ActiveHasMaxRevision
<1>6. CASE UNCHANGED documents
  BY <1>6 DEF IInv, RowsInv, HasMaximum, BlankRows, UniqueActive, ActiveHasMaxRevision,
              Revisions, Rows, ActiveVersions
<1> QED
  BY <1>1, <1>2, <1>3, <1>4, <1>5, <1>6

-----------------------------------------------------------------------------
\* The empty tables satisfy the inductive invariant.
LEMMA InvariantInit == Init => IInv
<1> SUFFICES ASSUME Init PROVE IInv
  OBVIOUS
<1>1. TypeOK
  BY DEF Init, TypeOK, DocumentRow, LeaseRow, JobRow, NoDocument, NoBuild, NoJob
<1>2. \A w \in Versions : documents[w].status = "absent" /\ documents[w].revision = 0
  BY DEF Init, NoDocument
<1>3. Revisions = {0} /\ Rows = {} /\ ActiveVersions = {}
  BY <1>2 DEF Revisions, Rows, ActiveVersions
<1> QED
  BY <1>1, <1>2, <1>3 DEF IInv, RowsInv, HasMaximum, BlankRows, UniqueActive,
                          ActiveHasMaxRevision

\* Every method of the store preserves it.
LEMMA InvariantStep == IInv /\ [Next]_storeVars => IInv'
<1> SUFFICES ASSUME IInv, [Next]_storeVars PROVE IInv'
  OBVIOUS
<1>1. Stored \/ Switched \/ Stamped \/ Failed \/ Emptied \/ UNCHANGED documents
  BY DocumentSteps DEF IInv
<1>2. TypeOK'
  BY <1>1, DocumentsTyped, LeasesTyped DEF IInv, RowsInv, TypeOK, LeasesOK
<1> QED
  BY <1>1, <1>2, RowsStep DEF IInv

\* The inductive invariant holds in every reachable state of the store.
THEOREM InvariantHolds == Spec => []IInv
BY InvariantInit, InvariantStep, PTL DEF Spec

\* Every method of the store keeps the tables within their schema.
THEOREM TypeCorrect == Spec => []TypeOK
BY InvariantHolds, PTL DEF IInv

\* No sequence of commits, rollbacks, deletes, builds and purges leaves two
\* versions active: the partial unique index never refuses an update.
THEOREM UniqueActiveHolds == Spec => []UniqueActive
<1>1. IInv => UniqueActive
  BY DEF IInv, RowsInv
<1> QED
  BY <1>1, InvariantHolds, PTL

\* The active row always carries the document's highest revision, which is what
\* makes the row-local bump of a delete or of an ACL change visible to the
\* compare-and-swap of a commit.
THEOREM ActiveHasMaxRevisionHolds == Spec => []ActiveHasMaxRevision
<1>1. IInv => ActiveHasMaxRevision
  BY DEF IInv, RowsInv
<1> QED
  BY <1>1, InvariantHolds, PTL

-----------------------------------------------------------------------------
(* The tables implement the register of ActiveVersion.                     *)

ShownOK == Shown \in (Versions \X (Acls \cup {None})) \cup {None}

\* What is shown is a version with its ACL, or nothing.
LEMMA ShownType ==
    ASSUME TypeOK
    PROVE  ShownOK
<1>1. CASE ActiveVersions = {}
  BY <1>1 DEF Shown, ShownOK
<1>2. CASE ActiveVersions # {}
  <2>1. get_active_version \in ActiveVersions /\ ActiveVersions \subseteq Versions
    BY <1>2 DEF get_active_version, ActiveVersions
  <2> QED
    BY <1>2, <2>1 DEF Shown, ShownOK, TypeOK, DocumentRow
<1> QED
  BY <1>1, <1>2

\* A step that leaves the active rows and all revisions alone shows the same.
LEMMA ShownUnchanged ==
    ASSUME ActiveVersions' = ActiveVersions, Revisions' = Revisions,
           \A v \in ActiveVersions : documents'[v] = documents[v]
    PROVE  Shown' = Shown /\ get_current_revision' = get_current_revision
<1>1. get_active_version' = get_active_version
  BY DEF get_active_version
<1>2. CASE ActiveVersions = {}
  BY <1>2 DEF Shown, get_current_revision
<1>3. CASE ActiveVersions # {}
  <2>1. get_active_version \in ActiveVersions
    BY <1>3 DEF get_active_version
  <2> QED
    BY <1>1, <1>3, <2>1 DEF Shown, get_current_revision
<1> QED
  BY <1>2, <1>3

\* A build, a failure and what leaves the rows alone change neither the revision
\* nor what is shown.
LEMMA RevisionKept ==
    ASSUME IInv, IInv', Stored \/ Failed \/ UNCHANGED documents
    PROVE  /\ Shown' = Shown /\ get_current_revision' = get_current_revision
           /\ ActiveVersions' = ActiveVersions
<1>1. CASE Stored
  <2>1. PICK v \in Versions, h \in Hashes, acl \in Acls : _upsert_document_build(v, h, acl)
    BY <1>1 DEF Stored
  <2>2. \A w \in Versions :
           /\ documents'[w].revision = documents[w].revision
           /\ documents'[w].status = "active" <=> documents[w].status = "active"
           /\ documents[w].status = "active" => documents'[w] = documents[w]
           /\ w \in Rows => w \in Rows'
           /\ w \in Rows' => w \in Rows \/ documents[w].status = "absent"
    BY <2>1 DEF _upsert_document_build, IInv, TypeOK, DocumentRow, Rows
  <2>3. ActiveVersions' = ActiveVersions /\ \A w \in ActiveVersions : documents'[w] = documents[w]
    BY <2>2 DEF ActiveVersions
  <2>4. Revisions' = Revisions
    BY <2>2 DEF Revisions, Rows, IInv, RowsInv, BlankRows
  <2> QED
    BY <2>3, <2>4, ShownUnchanged
<1>2. CASE Failed
  <2>1. \A w \in Versions :
           /\ documents'[w].revision = documents[w].revision
           /\ documents'[w].status = "active" <=> documents[w].status = "active"
           /\ documents'[w].status = "absent" <=> documents[w].status = "absent"
           /\ documents[w].status = "active" => documents'[w] = documents[w]
    BY <1>2 DEF Failed, IInv, TypeOK, DocumentRow
  <2>2. /\ ActiveVersions' = ActiveVersions /\ Revisions' = Revisions
        /\ \A w \in ActiveVersions : documents'[w] = documents[w]
    BY <2>1 DEF Revisions, Rows, ActiveVersions
  <2> QED
    BY <2>2, ShownUnchanged
<1>3. CASE UNCHANGED documents
  <2>1. ActiveVersions' = ActiveVersions /\ Revisions' = Revisions
    BY <1>3 DEF ActiveVersions, Revisions, Rows
  <2> QED
    BY <1>3, <2>1, ShownUnchanged
<1> QED
  BY <1>1, <1>2, <1>3

\* A switch of the active version, a delete and an ACL change advance the
\* current revision by exactly one.
LEMMA RevisionGrows ==
    ASSUME IInv, IInv', Switched \/ Stamped
    PROVE  get_current_revision' = get_current_revision + 1
<1> DEFINE cur == get_current_revision
<1>a. /\ cur \in Nat
      /\ \A v \in Rows : documents[v].revision <= cur
      /\ cur \in Revisions
      /\ \A s \in Revisions : s <= cur
  BY CurrentRevision, MaximumIsGreatest DEF IInv, RowsInv, HasMaximum, get_current_revision
<1>b. ASSUME NEW r \in Revisions', \A s \in Revisions' : s <= r
      PROVE  get_current_revision' = r
  <2>1. Revisions' \in SUBSET Nat
    BY DEF IInv, TypeOK, DocumentRow, Revisions, Rows
  <2> QED
    BY <1>b, <2>1, GreatestIsMaximum DEF get_current_revision
<1>1. CASE Switched
  <2>1. PICK v \in Rows : SwitchActive(v, cur + 1)
    BY <1>1 DEF Switched
  <2>2. v \in Versions /\ documents'[v].status = "active" /\ documents'[v].revision = cur + 1
    BY <2>1, SwitchedRows DEF IInv, Rows
  <2>3. \A w \in Rows' : w = v \/ documents'[w].revision = cur + 1
                         \/ (w \in Rows /\ documents'[w].revision = documents[w].revision)
    BY <2>1, SwitchedRows DEF IInv, Rows
  <2>4. cur + 1 \in Revisions' /\ \A s \in Revisions' : s <= cur + 1
    BY <1>a, <2>2, <2>3 DEF Revisions, Rows
  <2> QED
    BY <1>b, <2>4
<1>2. CASE Stamped
  <2>1. PICK v \in ActiveVersions, s \in {"active", "deleted"}, acl \in Acls \cup {None} :
            documents' = [documents EXCEPT ![v].status = s, ![v].acl = acl,
                                      ![v].revision = documents[v].revision + 1]
    BY <1>2 DEF Stamped
  <2>2. v \in Versions /\ v \in Rows /\ documents[v].status = "active"
    BY DEF ActiveVersions, Rows
  <2>3. /\ documents'[v].revision = documents[v].revision + 1
        /\ documents'[v].status = s
        /\ \A w \in Versions : w # v => documents'[w] = documents[w]
    BY <2>1, <2>2 DEF IInv, TypeOK, DocumentRow
  <2>4. documents[v].revision \in Nat /\ \A w \in Rows : documents[w].revision <= documents[v].revision
    BY <2>2 DEF IInv, TypeOK, DocumentRow, RowsInv, ActiveHasMaxRevision
  <2>5. cur = documents[v].revision
    BY <1>a, <2>2, <2>4 DEF Revisions
  <2>6. v \in Rows' /\ \A w \in Versions : w \in Rows' <=> w \in Rows
    BY <2>2, <2>3 DEF Rows
  <2>7. cur + 1 \in Revisions' /\ \A x \in Revisions' : x <= cur + 1
    BY <1>a, <2>2, <2>3, <2>5, <2>6 DEF Revisions, Rows
  <2> QED
    BY <1>b, <2>7
<1> QED
  BY <1>1, <1>2

\* A purge starts it again.
LEMMA RevisionGone ==
    ASSUME IInv', Emptied
    PROVE  Shown' = None /\ get_current_revision' = 0 /\ ActiveVersions' = {}
<1>1. \A w \in Versions : documents'[w].status = "absent"
  BY DEF Emptied, NoDocument
<1>2. Revisions' = {0} /\ ActiveVersions' = {}
  BY <1>1 DEF Revisions, Rows, ActiveVersions
<1>3. Shown' = None
  BY <1>2 DEF Shown
<1>4. get_current_revision' = 0
  BY <1>2, GreatestIsMaximum DEF get_current_revision
<1> QED
  BY <1>2, <1>3, <1>4

\* Nothing else happens to them.
LEMMA RevisionStep ==
    ASSUME IInv, IInv',
           Stored \/ Switched \/ Stamped \/ Failed \/ Emptied \/ UNCHANGED documents
    PROVE  \/ get_current_revision' = get_current_revision + 1
           \/ Shown' = None /\ get_current_revision' = 0
           \/ Shown' = Shown /\ get_current_revision' = get_current_revision
BY RevisionKept, RevisionGrows, RevisionGone

\* For the retrieval side the store is the register of ActiveVersion: whatever
\* the callers do, every change of what is shown comes with a revision one
\* higher, so an equal revision proves that nothing shown has changed.
THEOREM StoreImplementsRegister == Spec => ImplementsActiveVersion
<1>1. Init => Abstract!Init
  <2> SUFFICES ASSUME Init PROVE Abstract!Init
    OBVIOUS
  <2>1. \A w \in Versions : documents[w].status = "absent"
    BY DEF Init, NoDocument
  <2>2. Revisions = {0} /\ ActiveVersions = {}
    BY <2>1 DEF Revisions, Rows, ActiveVersions
  <2>3. get_current_revision = 0
    BY <2>2, GreatestIsMaximum DEF get_current_revision
  <2> QED
    BY <2>2, <2>3 DEF Abstract!Init, Shown
<1>2. IInv => ShownOK
  BY ShownType DEF IInv
<1>3. IInv /\ IInv' /\ ShownOK' /\ [Next]_storeVars
        => [Abstract!Next]_<<Shown, get_current_revision>>
  <2> SUFFICES ASSUME IInv, IInv', ShownOK', [Next]_storeVars
               PROVE  [Abstract!Next]_<<Shown, get_current_revision>>
    OBVIOUS
  <2>1. Stored \/ Switched \/ Stamped \/ Failed \/ Emptied \/ UNCHANGED documents
    BY DocumentSteps DEF IInv
  <2>2. \/ get_current_revision' = get_current_revision + 1
        \/ Shown' = None /\ get_current_revision' = 0
        \/ Shown' = Shown /\ get_current_revision' = get_current_revision
    BY <2>1, RevisionStep
  <2> QED
    BY <2>2 DEF ShownOK, Abstract!Next, Abstract!Change, Abstract!Forget
<1> QED
  BY <1>1, <1>2, <1>3, InvariantHolds, PTL DEF Spec, ImplementsActiveVersion, Abstract!Spec

-----------------------------------------------------------------------------
(* The lease and the job that owns it.                                     *)

\* Agreement is inductive together with: a lease has an owner, and a job row
\* that does not exist is bound to no version.
LeaseInv ==
    /\ \A v \in Versions : builds[v].status # "absent" => builds[v].owner \in Jobs
    /\ \A j \in Jobs : jobs[j].status = "absent" => jobs[j].version = None
    /\ LeaseAgreesWithJob

\* Whatever order claims, takeovers, endings and purges come in, a lease says
\* of its build what the job row says of it.
THEOREM LeaseAgreesWithJobHolds == Spec => []LeaseAgreesWithJob
<1>1. Init => LeaseInv
  BY DEF Init, LeaseInv, LeaseAgreesWithJob, NoBuild, NoJob
<1>2. TypeOK /\ LeaseInv /\ [Next]_storeVars => LeaseInv'
  <2> SUFFICES ASSUME TypeOK, LeaseInv, [Next]_storeVars PROVE LeaseInv'
    OBVIOUS
  <2>0. /\ \A v \in Versions : builds[v] \in LeaseRow
        /\ \A j \in Jobs : jobs[j] \in JobRow
    BY DEF TypeOK
  <2>1. ASSUME NEW j \in Jobs, NEW v \in Versions, NEW h \in Hashes, NEW acl \in Acls,
               NEW base \in Stamps, NEW a \in Attempts, NEW recover \in BOOLEAN,
               acquire_job(j, v, h, acl, base, a, recover)
        PROVE  LeaseInv'
    <3>1. /\ builds'[v].status = "running" /\ builds'[v].owner = j
          /\ \A w \in Versions : w # v => builds'[w] = builds[w]
      BY <2>1, <2>0 DEF acquire_job, TypeOK
    <3>2. /\ jobs'[j].status = "running" /\ jobs'[j].version = v
          /\ \A k \in Jobs : k # j => jobs'[k] = jobs[k]
      <4>1. jobs' = [jobs EXCEPT ![j] = JobRowAfterAcquire(j, v, h, base, LeasePrevious(v))]
            /\ (jobs[j].status # "absent" => jobs[j].version = v)
        BY <2>1 DEF acquire_job, IdentityMatches
      <4>2. /\ JobRowAfterAcquire(j, v, h, base, LeasePrevious(v)).status = "running"
            /\ JobRowAfterAcquire(j, v, h, base, LeasePrevious(v)).version = v
        BY <4>1 DEF JobRowAfterAcquire
      <4> QED
        BY <4>1, <4>2 DEF TypeOK
    <3>3. ASSUME NEW w \in Versions, w # v, builds[w].status # "absent"
          PROVE  LET o == builds[w].owner IN
                 o = j \/ (o \in Jobs /\ jobs'[o] = jobs[o])
      BY <3>2, <3>3 DEF LeaseInv
    <3> QED
      BY <3>1, <3>2, <3>3 DEF LeaseInv, LeaseAgreesWithJob
  <2>2. ASSUME NEW j \in Jobs, NEW s \in {"succeeded", "failed"}, mark_job_terminal(j, s)
        PROVE  LeaseInv'
    <3>1. \A v \in Versions :
             /\ builds'[v].owner = builds[v].owner
             /\ (builds[v].status = "absent" \/ builds[v].owner # j) => builds'[v] = builds[v]
             /\ (builds[v].status # "absent" /\ builds[v].owner = j) =>
                    builds'[v].status = IF s = "succeeded" THEN "done" ELSE "failed"
      BY <2>2, <2>0 DEF mark_job_terminal, LeaseRow
    <3>2. /\ \A k \in Jobs : k # j => jobs'[k] = jobs[k]
          /\ jobs'[j].version = jobs[j].version
          /\ jobs[j].status = "absent" => jobs'[j] = jobs[j]
          /\ jobs[j].status # "absent" => jobs'[j].status = s
      BY <2>2, <2>0 DEF mark_job_terminal, JobRow, TypeOK
    <3>3. \A v \in Versions : builds'[v].status # "absent" => builds'[v].owner \in Jobs
      BY <3>1 DEF LeaseInv
    <3>4. \A k \in Jobs : jobs'[k].status = "absent" => jobs'[k].version = None
      BY <3>2 DEF LeaseInv
    <3>5. LeaseAgreesWithJob'
      BY <3>1, <3>2, NoneAssumption DEF LeaseInv, LeaseAgreesWithJob
    <3> QED
      BY <3>3, <3>4, <3>5 DEF LeaseInv
  <2>3. CASE delete_document_builds
    BY <2>3 DEF delete_document_builds, NoBuild, LeaseInv, LeaseAgreesWithJob
  <2>4. CASE delete_document_jobs
    BY <2>4, NoneAssumption DEF delete_document_jobs, NoJob, LeaseInv, LeaseAgreesWithJob
  <2>5. ASSUME UNCHANGED <<builds, jobs>> PROVE LeaseInv'
    BY <2>5 DEF LeaseInv, LeaseAgreesWithJob
  <2>6. (\E v \in Versions, e \in Stamps : commit_active_version(v, e)) => LeaseInv'
    BY <2>5 DEF commit_active_version
  <2>7. (\E v \in Versions, e \in Stamps \cup {None} : rollback_active_version(v, e)) => LeaseInv'
    BY <2>5 DEF rollback_active_version
  <2>8. (\E v \in Versions : logical_delete(v)) => LeaseInv'
    BY <2>5 DEF logical_delete
  <2>9. (\E v \in Versions, acl \in Acls : update_document_acl(v, acl)) => LeaseInv'
    BY <2>5 DEF update_document_acl
  <2>10. (\E v \in Versions : mark_document_failed(v)) => LeaseInv'
    BY <2>5 DEF mark_document_failed
  <2>11. delete_document_rows \/ UNCHANGED storeVars => LeaseInv'
    BY <2>5 DEF delete_document_rows, storeVars
  <2> QED
    BY <2>1, <2>2, <2>3, <2>4, <2>6, <2>7, <2>8, <2>9, <2>10, <2>11 DEF Next
<1>3. LeaseInv => LeaseAgreesWithJob
  BY DEF LeaseInv
<1> QED
  BY <1>1, <1>2, <1>3, TypeCorrect, PTL DEF Spec
=============================================================================
