------------------------ MODULE DocumentLifecycleProofs ------------------------
(***************************************************************************)
(* Proofs about the document lifecycle, for any sets of versions, jobs,    *)
(* ACLs, principals and scenarios: its steps are steps of the store, so    *)
(* that what is proved of the store holds while operations, ingestions and *)
(* the reconciler run; the planes keep their types; the revision fences a  *)
(* build that was under way when the document changed; and, where a        *)
(* document is tightened undisturbed, nobody is served more than the ACL   *)
(* of its row allows.                                                      *)
(***************************************************************************)
EXTENDS DocumentLifecycle, MetadataStoreProofs, AccessPolicyProofs, SequenceTheorems,
        WellFoundedInduction

-----------------------------------------------------------------------------
(* The invariant.                                                          *)

PlanesOK ==
    /\ inserted \in Seq(Versions)
    /\ points \in [Versions -> [status : PointStatus, acl : Acls \cup {None}]]
    /\ parents \in [Versions -> [status : ParentStatus, acl : Acls \cup {None}]]
    /\ chunks \in [Versions -> Acls \cup {None}]

\* Every row has a rowid, so that the newest of several is one of them.
Listed == \A v \in Rows : \E k \in 1 .. Len(inserted) : inserted[k] = v

RetirePlaces == {"retire_parents", "retire_points"}

\* An ingestion under way knows what it ingests, and what it replaces.
Known(i) ==
    /\ i \in Ingestion
    /\ i.pc # "idle" => /\ i.version \in Versions /\ i.acl \in Acls
                        /\ i.job \in Jobs /\ i.attempt \in Attempts
    /\ i.pc \in RetirePlaces => i.previous \in Versions

OneVersion == {"delete_row", "delete_points", "delete_parents", "acl_row", "acl_points",
               "acl_parents", "activate_points", "activate_parents"}
TwoVersions == {"target", "activate_points", "activate_parents", "deprecate_points",
                "deprecate_parents"}
Rebuilding == {"rebuild_points", "rebuild_parents"}

\* A task knows what its place needs.
Sound(t) ==
    /\ t \in Task
    /\ t.pc \in OneVersion => t.version \in Versions
    /\ t.pc \in TwoVersions => t.other \in Versions
    /\ t.pc \in {"acl_row", "acl_points", "acl_parents"} => t.acl \in Acls
    /\ t.pc \in Rebuilding => t.version \in Versions /\ t.acl \in Acls

TasksOK == task \in [Threads -> Task] /\ \A t \in Threads : Sound(task[t])

RestOK ==
    /\ view \in View
    /\ lease \in LeaseState
    /\ scenario \in Scenarios
    /\ calls \in 0 .. scenario.most
    /\ troubles \in 0 .. scenario.troubles

OthersOK == PlanesOK /\ Listed /\ Known(ingest) /\ TasksOK /\ RestOK

LifeInv == IInv /\ OthersOK

-----------------------------------------------------------------------------
(* What most steps share.                                                  *)

LEMMA ThreadsApart == "operator" \in Threads /\ "reconciler" \in Threads /\ "operator" # "reconciler"
BY DEF Threads

LEMMA ScenarioParts ==
    ASSUME RestOK
    PROVE  /\ scenario.most \in Nat /\ scenario.troubles \in Nat
           /\ scenario.calls \subseteq Operations /\ scenario.acls \subseteq Acls
           /\ calls \in Nat /\ troubles \in Nat
<1>1. scenario \in [most : Nat, calls : SUBSET Operations, acls : SUBSET Acls, troubles : Nat,
                    first : SUBSET Versions, quiet : BOOLEAN, committed : BOOLEAN]
  BY ScenariosAssumption DEF RestOK
<1> QED BY <1>1 DEF RestOK

LEMMA Places ==
    {"idle", "base", "acquire", "stage_parents", "stage_points", "stage_chunks", "verify", "commit",
     "promote", "promote_points", "promote_parents", "retire", "retire_parents", "retire_points",
     "finalize", "undo", "undo_points", "undo_parents", "undo_chunks", "undo_row", "fail"}
        = IngestPlace
BY DEF IngestPlace, StagePlaces, PublishPlaces, UndoPlaces

LEMMA NothingUnderWay ==
    /\ Known(NoIngestion) /\ NoIngestion.pc = "idle" /\ ~NoIngestion.stale
    /\ Sound(NoTask) /\ NoTask.pc = "idle"
    /\ NoView \in View
<1>1. NoIngestion \in Ingestion /\ NoIngestion.pc = "idle" /\ ~NoIngestion.stale
  BY Places DEF NoIngestion, Ingestion
<1>2. NoTask \in Task /\ NoTask.pc = "idle"
  BY DEF NoTask, Task, OperatorPlaces
<1>3. NoView \in View
  BY DEF NoView, View
<1> QED BY <1>1, <1>2, <1>3 DEF Known, Sound, OneVersion, TwoVersions, Rebuilding, RetirePlaces

LEMMA PlanesKept == ASSUME PlanesOK, UNCHANGED planeVars PROVE PlanesOK'
BY DEF PlanesOK, planeVars

LEMMA RestKept == ASSUME RestOK, UNCHANGED <<view, lease, boundVars>> PROVE RestOK'
BY DEF RestOK, boundVars

LEMMA TasksKept == ASSUME TasksOK, UNCHANGED task PROVE TasksOK'
BY DEF TasksOK

\* A thread's task becomes t.
LEMMA TaskBecomes ==
    ASSUME TasksOK, NEW th \in Threads, NEW t, Sound(t), task' = [task EXCEPT ![th] = t]
    PROVE  TasksOK'
<1>1. t \in Task
  BY DEF Sound
<1>2. /\ task' \in [Threads -> Task] /\ task'[th] = t
      /\ \A u \in Threads \ {th} : task'[u] = task[u]
  BY <1>1 DEF TasksOK
<1> QED BY <1>2 DEF TasksOK

\* A step of the store that adds no row.
LEMMA RowsFewer ==
    ASSUME Listed, Rows' \subseteq Rows, UNCHANGED inserted
    PROVE  Listed'
BY DEF Listed

LEMMA RowsSame == ASSUME UNCHANGED documents PROVE Rows' \subseteq Rows
BY DEF Rows

\* Everything is as it was but the task of one thread.
LEMMA OnlyTask ==
    ASSUME OthersOK, NEW th \in Threads, NEW t, Sound(t), task' = [task EXCEPT ![th] = t],
           UNCHANGED <<planeVars, ingest, view, lease, boundVars>>, Rows' \subseteq Rows
    PROVE  OthersOK'
<1>1. TasksOK'
  BY TaskBecomes DEF OthersOK
<1>2. PlanesOK' /\ RestOK'
  BY PlanesKept, RestKept DEF OthersOK
<1>3. Listed'
  BY RowsFewer DEF OthersOK, planeVars
<1> QED BY <1>1, <1>2, <1>3 DEF OthersOK

\* Everything is as it was but the ingestion.
LEMMA OnlyIngestion ==
    ASSUME OthersOK, Known(ingest'), UNCHANGED <<planeVars, task, view, lease, boundVars>>,
           Rows' \subseteq Rows
    PROVE  OthersOK'
<1>1. PlanesOK' /\ RestOK' /\ TasksOK'
  BY PlanesKept, RestKept, TasksKept DEF OthersOK
<1>2. Listed'
  BY RowsFewer DEF OthersOK, planeVars
<1> QED BY <1>1, <1>2 DEF OthersOK

\* A plane's entry of a version is replaced, or its status or ACL is.
LEMMA PlaneEntries ==
    ASSUME PlanesOK, NEW v \in Versions
    PROVE  /\ \A s \in PointStatus, a \in Acls \cup {None} :
                 [points EXCEPT ![v] = [status |-> s, acl |-> a]]
                     \in [Versions -> [status : PointStatus, acl : Acls \cup {None}]]
           /\ \A s \in ParentStatus, a \in Acls \cup {None} :
                 [parents EXCEPT ![v] = [status |-> s, acl |-> a]]
                     \in [Versions -> [status : ParentStatus, acl : Acls \cup {None}]]
           /\ \A a \in Acls \cup {None} : [chunks EXCEPT ![v] = a] \in [Versions -> Acls \cup {None}]
           /\ \A s \in PointStatus :
                 SetStatus(points, v, s)
                     \in [Versions -> [status : PointStatus, acl : Acls \cup {None}]]
           /\ \A s \in ParentStatus :
                 SetStatus(parents, v, s)
                     \in [Versions -> [status : ParentStatus, acl : Acls \cup {None}]]
           /\ \A a \in Acls :
                 /\ SetAcl(points, v, a)
                     \in [Versions -> [status : PointStatus, acl : Acls \cup {None}]]
                 /\ SetAcl(parents, v, a)
                     \in [Versions -> [status : ParentStatus, acl : Acls \cup {None}]]
<1>1. /\ points \in [Versions -> [status : PointStatus, acl : Acls \cup {None}]]
      /\ parents \in [Versions -> [status : ParentStatus, acl : Acls \cup {None}]]
      /\ chunks \in [Versions -> Acls \cup {None}]
  BY DEF PlanesOK
<1>2. ASSUME NEW s \in PointStatus
      PROVE  SetStatus(points, v, s)
                \in [Versions -> [status : PointStatus, acl : Acls \cup {None}]]
  BY <1>1 DEF SetStatus
<1>3. ASSUME NEW s \in ParentStatus
      PROVE  SetStatus(parents, v, s)
                \in [Versions -> [status : ParentStatus, acl : Acls \cup {None}]]
  BY <1>1 DEF SetStatus
<1>4. ASSUME NEW a \in Acls
      PROVE  /\ SetAcl(points, v, a)
                   \in [Versions -> [status : PointStatus, acl : Acls \cup {None}]]
             /\ SetAcl(parents, v, a)
                   \in [Versions -> [status : ParentStatus, acl : Acls \cup {None}]]
  BY <1>1 DEF SetAcl
<1> QED BY <1>1, <1>2, <1>3, <1>4

\* The vocabularies of the planes.
LEMMA Words ==
    /\ {"none", "processing", "active", "inactive", "deprecated", "deleted"} = PointStatus
    /\ {"none", "active", "inactive"} = ParentStatus
    /\ Nowhere = [status |-> "none", acl |-> None]
BY DEF PointStatus, ParentStatus, Nowhere

\* Some planes get an entry with a status that both have a word for, or none.
LEMMA EntriesKept ==
    ASSUME PlanesOK, NEW v \in Versions, NEW a \in Acls \cup {None}, NEW s \in {"none", "active"},
           points' = points \/ points' = [points EXCEPT ![v] = [status |-> s, acl |-> a]],
           parents' = parents \/ parents' = [parents EXCEPT ![v] = [status |-> s, acl |-> a]],
           chunks' = chunks \/ chunks' = [chunks EXCEPT ![v] = None]
    PROVE  /\ points' \in [Versions -> [status : PointStatus, acl : Acls \cup {None}]]
           /\ parents' \in [Versions -> [status : ParentStatus, acl : Acls \cup {None}]]
           /\ chunks' \in [Versions -> Acls \cup {None}]
<1>1. s \in PointStatus /\ s \in ParentStatus
  BY Words
<1>2. points' \in [Versions -> [status : PointStatus, acl : Acls \cup {None}]]
  <2>1. [points EXCEPT ![v] = [status |-> s, acl |-> a]]
            \in [Versions -> [status : PointStatus, acl : Acls \cup {None}]]
    BY <1>1, PlaneEntries
  <2> QED BY <2>1 DEF PlanesOK
<1>3. parents' \in [Versions -> [status : ParentStatus, acl : Acls \cup {None}]]
  <2>1. [parents EXCEPT ![v] = [status |-> s, acl |-> a]]
            \in [Versions -> [status : ParentStatus, acl : Acls \cup {None}]]
    BY <1>1, PlaneEntries
  <2> QED BY <2>1 DEF PlanesOK
<1>4. chunks' \in [Versions -> Acls \cup {None}]
  BY PlaneEntries DEF PlanesOK
<1> QED BY <1>2, <1>3, <1>4

-----------------------------------------------------------------------------
LEMMA LifeInit == LifecycleInit => LifeInv
<1> SUFFICES ASSUME LifecycleInit PROVE LifeInv
  OBVIOUS
<1>1. IInv
  BY InvariantInit DEF LifecycleInit
<1>2. \A v \in Versions : documents[v].status = "absent"
  BY DEF LifecycleInit, Init, NoDocument
<1>3. Listed
  BY <1>2 DEF Listed, Rows
<1>4. PlanesOK
  <2>1. inserted \in Seq(Versions)
    BY DEF LifecycleInit
  <2> QED BY <2>1, Words DEF LifecycleInit, PlanesOK
<1>5. Known(ingest) /\ view \in View
  BY NothingUnderWay DEF LifecycleInit
<1>6. TasksOK
  <2>1. \A t \in Threads : task[t] = NoTask
    BY DEF LifecycleInit
  <2>2. NoTask \in Task
    BY NothingUnderWay DEF Sound
  <2> QED BY <2>1, <2>2, NothingUnderWay DEF LifecycleInit, TasksOK
<1>7. RestOK
  <2>1. scenario.most \in Nat /\ scenario.troubles \in Nat
    BY ScenariosAssumption DEF LifecycleInit
  <2> QED BY <1>5, <2>1 DEF LifecycleInit, RestOK, LeaseState
<1> QED BY <1>1, <1>3, <1>4, <1>5, <1>6, <1>7 DEF LifeInv, OthersOK

-----------------------------------------------------------------------------
(* What each step does to the tables, and what it leaves in order.         *)

\* A step of the lifecycle is a step of the store and keeps the rest in order.
InOrder == [Next]_storeVars /\ OthersOK'

LEMMA StoreStutters == UNCHANGED storeVars => [Next]_storeVars /\ Rows' \subseteq Rows
BY DEF storeVars, Rows

LEMMA KnownParts ==
    ASSUME Known(ingest), ingest.pc # "idle"
    PROVE  /\ ingest.version \in Versions /\ ingest.acl \in Acls
           /\ ingest.job \in Jobs /\ ingest.attempt \in Attempts /\ ingest.base \in Nat
           /\ ingest.stale \in BOOLEAN /\ ingest.previous \in Versions \cup {None}
BY DEF Known, Ingestion

LEMMA KnownGoes ==
    ASSUME Known(ingest), ingest.pc # "idle", NEW place \in IngestPlace, IngestGoto(place),
           place \in RetirePlaces => ingest.previous \in Versions
    PROVE  Known(ingest')
<1>1. ingest \in Ingestion /\ ingest' = [ingest EXCEPT !.pc = place]
  BY DEF Known, IngestGoto
<1>2. ingest' \in Ingestion
  BY <1>1 DEF Ingestion
<1> QED BY <1>1, <1>2, KnownParts DEF Known, Ingestion

\* A delivery is counted, and its version, job and attempt are picked.
LEMMA DeliverStep ==
    ASSUME LifeInv, NEW v \in Versions, NEW acl, Deliver(v, acl)
    PROVE  InOrder
<1>1. scenario.acls \subseteq Acls /\ scenario.most \in Nat /\ calls \in Nat
  BY ScenarioParts DEF LifeInv, OthersOK
<1>2. (CHOOSE j \in FreshJobs : TRUE) \in Jobs /\ (CHOOSE a \in FreshAttempts : TRUE) \in Attempts
  BY DEF Deliver, FreshJobs, FreshAttempts
<1>3. acl \in Acls
  BY <1>1 DEF Deliver
<1>4. Known(ingest')
  <2> DEFINE j == CHOOSE j \in FreshJobs : TRUE
             a == CHOOSE a \in FreshAttempts : TRUE
  <2>1. ingest' = [NoIngestion EXCEPT !.pc = "base", !.version = v, !.acl = acl,
                                      !.job = j, !.attempt = a]
    BY DEF Deliver
  <2>2. j \in Jobs /\ a \in Attempts
    BY <1>2
  <2> HIDE DEF j, a
  <2>3. ingest' = [pc |-> "base", version |-> v, acl |-> acl, job |-> j, attempt |-> a,
                   base |-> 0, previous |-> None, stale |-> FALSE]
    BY <2>1 DEF NoIngestion
  <2>4. ingest' \in Ingestion
    BY <1>3, <2>2, <2>3, Places DEF Ingestion
  <2> QED BY <1>3, <2>2, <2>3, <2>4 DEF Known, RetirePlaces
<1>5. RestOK'
  <2>1. calls < scenario.most /\ calls' = calls + 1 /\ UNCHANGED <<scenario, troubles, view, lease>>
    BY DEF Deliver, MayStart, Counted
  <2> QED BY <1>1, <2>1 DEF LifeInv, OthersOK, RestOK
<1>6. PlanesOK' /\ TasksOK' /\ Listed'
  <2>1. UNCHANGED storeVars /\ UNCHANGED planeVars /\ UNCHANGED task
    BY DEF Deliver
  <2>2. PlanesOK' /\ TasksOK'
    BY <2>1, PlanesKept, TasksKept DEF LifeInv, OthersOK
  <2> QED BY <2>1, <2>2, StoreStutters, RowsFewer DEF LifeInv, OthersOK, planeVars
<1>7. [Next]_storeVars
  BY StoreStutters DEF Deliver
<1> QED BY <1>4, <1>5, <1>6, <1>7 DEF InOrder, OthersOK

\* The steps that only move the ingestion on.
LEMMA ReadSteps ==
    ASSUME LifeInv, ReadBase \/ _step_verify \/ EnterPublish \/ ReadPrevious
    PROVE  InOrder
<1>a. Known(ingest)
  BY DEF LifeInv, OthersOK
<1>b. ingest.pc # "idle"
  BY DEF ReadBase, _step_verify, EnterPublish, ReadPrevious, IngestAt
<1>1. CASE ReadBase
  <2>1. get_current_revision \in Nat
    BY CurrentRevision DEF LifeInv, IInv, RowsInv
  <2>2. ingest \in Ingestion /\ ingest' = [ingest EXCEPT !.pc = "acquire", !.base = get_current_revision]
    BY <1>1, <1>a DEF ReadBase, Known
  <2>3. ingest' \in Ingestion /\ ingest'.pc = "acquire"
    BY <2>1, <2>2, Places DEF Ingestion
  <2>4. Known(ingest')
    BY <1>a, <1>b, <2>2, <2>3, KnownParts DEF Known, Ingestion, RetirePlaces
  <2> QED
    BY <1>1, <2>4, OnlyIngestion, StoreStutters DEF ReadBase, InOrder, LifeInv
<1>2. CASE _step_verify
  <2>1. IngestGoto("commit") \/ IngestGoto("undo")
    BY <1>2 DEF _step_verify
  <2>2. Known(ingest')
    BY <1>a, <1>b, <2>1, KnownGoes, Places DEF RetirePlaces
  <2> QED
    BY <1>2, <2>2, OnlyIngestion, StoreStutters DEF _step_verify, InOrder, LifeInv
<1>3. CASE EnterPublish
  <2>1. ingest' = NoIngestion \/ IngestGoto("fail") \/ IngestGoto("promote_points")
    BY <1>3 DEF EnterPublish
  <2>2. Known(ingest')
    BY <1>a, <1>b, <2>1, KnownGoes, NothingUnderWay, Places DEF RetirePlaces
  <2> QED
    BY <1>3, <2>2, OnlyIngestion, StoreStutters DEF EnterPublish, InOrder, LifeInv
<1>4. CASE ReadPrevious
  <2> DEFINE previous == jobs[ingest.job].previous
  <2>1. previous \in Versions \cup {None}
    <3>1. ingest.job \in Jobs
      BY <1>a, <1>b, KnownParts
    <3> QED BY <3>1 DEF LifeInv, IInv, TypeOK, JobRow
  <2>2. ASSUME IngestGoto("finalize") PROVE Known(ingest')
    BY <1>a, <1>b, <2>2, KnownGoes, Places DEF RetirePlaces
  <2>3. ASSUME previous \in Versions,
               ingest' = [ingest EXCEPT !.pc = "retire_parents", !.previous = previous]
        PROVE  Known(ingest')
    <3> HIDE DEF previous
    <3>1. /\ ingest' \in Ingestion /\ ingest'.pc = "retire_parents" /\ ingest'.previous = previous
          /\ ingest'.version = ingest.version /\ ingest'.acl = ingest.acl
          /\ ingest'.job = ingest.job /\ ingest'.attempt = ingest.attempt
      BY <1>a, <2>3, Places DEF Known, Ingestion
    <3>2. /\ ingest.version \in Versions /\ ingest.acl \in Acls
          /\ ingest.job \in Jobs /\ ingest.attempt \in Attempts
      BY <1>a, <1>b, KnownParts
    <3> QED BY <2>3, <3>1, <3>2 DEF Known
  <2>4. Known(ingest')
    BY <1>4, <2>1, <2>2, <2>3 DEF ReadPrevious
  <2> QED
    BY <1>4, <2>4, OnlyIngestion, StoreStutters DEF ReadPrevious, InOrder, LifeInv
<1> QED BY <1>1, <1>2, <1>3, <1>4

\* The lease, and a row for the version if it has none.
LEMMA AcquireStep ==
    ASSUME Stamps = Nat, LifeInv, _step_acquire
    PROVE  InOrder
<1> DEFINE v == ingest.version
<1>1. /\ v \in Versions /\ ingest.acl \in Acls /\ ingest.job \in Jobs
      /\ ingest.attempt \in Attempts /\ ingest.base \in Nat
  BY KnownParts DEF _step_acquire, IngestAt, LifeInv, OthersOK
<1>2. CASE UNCHANGED <<storeVars, inserted>> /\ ingest' = NoIngestion
  <2>1. Known(ingest')
    BY <1>2, NothingUnderWay
  <2>2. UNCHANGED <<planeVars, task, view, lease, boundVars>>
    BY <1>2 DEF _step_acquire, planeVars
  <2> QED BY <1>2, <2>1, <2>2, OnlyIngestion, StoreStutters DEF LifeInv, InOrder
<1>3. CASE /\ acquire_job(ingest.job, v, Hash, ingest.acl, ingest.base, ingest.attempt, FALSE)
           /\ inserted' = IF documents[v].status = "absent" THEN Append(inserted, v) ELSE inserted
           /\ IngestGoto("stage_parents")
  <2>1. Next
    BY <1>1, <1>3, HashAssumption DEF Next
  <2>2. Known(ingest')
    BY <1>3, KnownGoes, Places DEF _step_acquire, IngestAt, LifeInv, OthersOK, RetirePlaces
  <2>3. inserted \in Seq(Versions) /\ inserted' \in Seq(Versions)
    BY <1>1, <1>3 DEF LifeInv, OthersOK, PlanesOK
  <2>4. PlanesOK' /\ RestOK' /\ TasksOK'
    <3>1. UNCHANGED <<points, parents, chunks, task, view, lease, boundVars>>
      BY DEF _step_acquire
    <3> QED BY <2>3, <3>1, RestKept, TasksKept DEF LifeInv, OthersOK, PlanesOK
  <2>5. Listed'
    <3> SUFFICES ASSUME NEW w \in Rows' PROVE \E k \in 1 .. Len(inserted') : inserted'[k] = w
      BY DEF Listed
    <3>1. w \in Rows \/ (w = v /\ documents[v].status = "absent")
      BY <1>1, <1>3 DEF acquire_job, _upsert_document_build, Rows, LifeInv, IInv, TypeOK
    <3>2. CASE w \in Rows
      <4>1. PICK k \in 1 .. Len(inserted) : inserted[k] = w
        BY <3>2 DEF LifeInv, OthersOK, Listed
      <4>2. k \in 1 .. Len(inserted') /\ inserted'[k] = w
        BY <1>1, <1>3, <2>3, <4>1
      <4> QED BY <4>2
    <3>3. CASE w = v /\ documents[v].status = "absent"
      <4>1. inserted' = Append(inserted, v)
        BY <1>3, <3>3
      <4>2. Len(inserted') = Len(inserted) + 1 /\ inserted'[Len(inserted) + 1] = v
        BY <1>1, <2>3, <4>1
      <4>3. Len(inserted) + 1 \in 1 .. Len(inserted')
        BY <2>3, <4>2
      <4> QED BY <3>3, <4>2, <4>3
    <3> QED BY <3>1, <3>2, <3>3
  <2> QED BY <2>1, <2>2, <2>4, <2>5 DEF InOrder, OthersOK
<1> QED BY <1>2, <1>3 DEF _step_acquire

-----------------------------------------------------------------------------
(* The steps of the store that the lifecycle makes, its acquire apart.     *)

\* None of them adds a row.
LEMMA NoNewRow ==
    ASSUME TypeOK, NEW v \in Versions, NEW e, NEW acl,
           \/ commit_active_version(v, e) \/ rollback_active_version(v, e)
           \/ logical_delete(v) \/ update_document_acl(v, acl) \/ mark_document_failed(v)
    PROVE  Rows' \subseteq Rows
<1>1. ASSUME v \in Rows, NEW r, SwitchActive(v, r) PROVE Rows' \subseteq Rows
  BY <1>1, SwitchedRows DEF Rows
<1>2. CASE commit_active_version(v, e)
  BY <1>1, <1>2, RowsSame DEF commit_active_version, CommitAccepted
<1>3. CASE rollback_active_version(v, e)
  BY <1>1, <1>3, RowsSame DEF rollback_active_version
<1>4. CASE logical_delete(v)
  <2>1. DeleteTarget(v) = None \/ DeleteTarget(v) \in Rows
    BY ActiveVersionType DEF DeleteTarget, ActiveVersions, Rows
  <2>2. CASE DeleteTarget(v) # None
    BY <1>4, <2>1, <2>2 DEF logical_delete, Rows, TypeOK
  <2>3. CASE DeleteTarget(v) = None
    BY <1>4, <2>3, RowsSame DEF logical_delete
  <2> QED BY <2>2, <2>3
<1>5. CASE update_document_acl(v, acl)
  BY <1>5 DEF update_document_acl, Rows, TypeOK
<1>6. CASE mark_document_failed(v)
  BY <1>6 DEF mark_document_failed, Rows, TypeOK
<1> QED BY <1>2, <1>3, <1>4, <1>5, <1>6

LEMMA JobsTables ==
    ASSUME NEW j, NEW s,
           mark_job_terminal(j, s) \/ delete_document_builds \/ delete_document_jobs
    PROVE  Rows' \subseteq Rows
BY DEF mark_job_terminal, delete_document_builds, delete_document_jobs, Rows

-----------------------------------------------------------------------------
(* The rest of the ingestion.                                              *)

\* Only points, parents and chunk rows change, and the ingestion goes on.
LEMMA OnlyPlanes ==
    ASSUME LifeInv, Known(ingest'), TasksOK', UNCHANGED <<storeVars, inserted, view, lease, boundVars>>,
           points' \in [Versions -> [status : PointStatus, acl : Acls \cup {None}]],
           parents' \in [Versions -> [status : ParentStatus, acl : Acls \cup {None}]],
           chunks' \in [Versions -> Acls \cup {None}]
    PROVE  InOrder
<1>1. PlanesOK' /\ RestOK'
  BY RestKept DEF LifeInv, OthersOK, PlanesOK
<1>2. Listed'
  BY StoreStutters, RowsFewer DEF LifeInv, OthersOK
<1> QED BY <1>1, <1>2, StoreStutters DEF InOrder, OthersOK

\* The staged writes and those of the publishing.
LEMMA WriteSteps ==
    ASSUME LifeInv, WriteStaged \/ PromotePoints \/ PromoteParents \/ RetirePrevious
    PROVE  InOrder
<1> DEFINE v == ingest.version
           previous == ingest.previous
<1>a. v \in Versions /\ ingest.acl \in Acls /\ ingest.job \in Jobs
  BY KnownParts DEF LifeInv, OthersOK, WriteStaged, PromotePoints, PromoteParents, RetirePrevious,
                    IngestAt
<1>b. RetirePrevious => previous \in Versions
  BY DEF RetirePrevious, IngestAt, RetirePlaces, LifeInv, OthersOK, Known
<1>c. PlanesOK /\ TasksOK /\ Known(ingest)
  BY DEF LifeInv, OthersOK
<1>1. /\ Known(ingest') /\ TasksOK'
      /\ UNCHANGED <<storeVars, inserted, view, lease, boundVars>>
  <2>1. ingest.pc # "idle"
    BY DEF WriteStaged, PromotePoints, PromoteParents, RetirePrevious, IngestAt
  <2>2. \E place \in IngestPlace : IngestGoto(place) /\ (place \in RetirePlaces => ingest.pc \in RetirePlaces)
    <3>1. CASE WriteStaged
      BY <3>1, Places DEF WriteStaged, RetirePlaces
    <3>2. CASE PromotePoints \/ PromoteParents
      BY <3>2, Places DEF PromotePoints, PromoteParents, RetirePlaces
    <3>3. CASE RetirePrevious
      BY <3>3, Places DEF RetirePrevious, RetirePlaces, IngestAt
    <3> QED BY <3>1, <3>2, <3>3
  <2>3. Known(ingest')
    BY <1>c, <2>1, <2>2, KnownGoes DEF Known
  <2>4. UNCHANGED task /\ UNCHANGED <<storeVars, inserted, view, lease, boundVars>>
    BY DEF WriteStaged, PromotePoints, PromoteParents, RetirePrevious
  <2> QED BY <1>c, <2>3, <2>4, TasksKept
<1>2. points' \in [Versions -> [status : PointStatus, acl : Acls \cup {None}]]
  <2>1. \/ UNCHANGED points
        \/ \E w \in Versions, s \in PointStatus :
              points' = [points EXCEPT ![w] = [status |-> s, acl |-> ingest.acl]]
    <3>1. CASE WriteStaged
      BY <1>a, <3>1, Words DEF WriteStaged
    <3>2. CASE PromotePoints \/ PromoteParents
      BY <1>a, <3>2, Words DEF PromotePoints, PromoteParents
    <3>3. CASE RetirePrevious
      BY <1>b, <3>3, Words DEF RetirePrevious
    <3> QED BY <3>1, <3>2, <3>3
  <2>2. ASSUME NEW w \in Versions, NEW s \in PointStatus,
               points' = [points EXCEPT ![w] = [status |-> s, acl |-> ingest.acl]]
        PROVE  points' \in [Versions -> [status : PointStatus, acl : Acls \cup {None}]]
    BY <1>a, <1>c, <2>2, PlaneEntries
  <2> QED BY <1>c, <2>1, <2>2 DEF PlanesOK
<1>3. parents' \in [Versions -> [status : ParentStatus, acl : Acls \cup {None}]]
  <2>1. \/ UNCHANGED parents
        \/ \E w \in Versions, s \in ParentStatus :
              \/ parents' = [parents EXCEPT ![w] = [status |-> s, acl |-> ingest.acl]]
              \/ parents' = SetStatus(parents, w, s)
    <3>1. CASE WriteStaged
      BY <1>a, <3>1, Words DEF WriteStaged
    <3>2. CASE PromotePoints \/ PromoteParents
      BY <1>a, <3>2, Words DEF PromotePoints, PromoteParents
    <3>3. CASE RetirePrevious
      BY <1>b, <3>3, Words DEF RetirePrevious
    <3> QED BY <3>1, <3>2, <3>3
  <2>2. ASSUME NEW w \in Versions, NEW s \in ParentStatus,
               \/ parents' = [parents EXCEPT ![w] = [status |-> s, acl |-> ingest.acl]]
               \/ parents' = SetStatus(parents, w, s)
        PROVE  parents' \in [Versions -> [status : ParentStatus, acl : Acls \cup {None}]]
    <3>1. CASE parents' = [parents EXCEPT ![w] = [status |-> s, acl |-> ingest.acl]]
      BY <1>a, <1>c, <3>1, PlaneEntries
    <3>2. CASE parents' = SetStatus(parents, w, s)
      BY <1>c, <3>2, PlaneEntries
    <3> QED BY <2>2, <3>1, <3>2
  <2> QED BY <1>c, <2>1, <2>2 DEF PlanesOK
<1>4. chunks' \in [Versions -> Acls \cup {None}]
  <2>1. UNCHANGED chunks \/ chunks' = [chunks EXCEPT ![v] = ingest.acl]
    BY DEF WriteStaged, PromotePoints, PromoteParents, RetirePrevious
  <2> QED BY <1>a, <1>c, <2>1, PlaneEntries DEF PlanesOK
<1> QED BY <1>1, <1>2, <1>3, <1>4, OnlyPlanes

\* The switch, if the revision is the one the job was given.
LEMMA CommitStep ==
    ASSUME Stamps = Nat, LifeInv, _step_commit
    PROVE  InOrder
<1> DEFINE v == ingest.version
           expected == jobs[ingest.job].base
<1>1. v \in Versions /\ ingest.job \in Jobs
  BY KnownParts DEF _step_commit, IngestAt, LifeInv, OthersOK
<1>2. expected \in Stamps
  BY <1>1 DEF LifeInv, IInv, TypeOK, JobRow
<1>3. Known(ingest')
  BY KnownGoes, NothingUnderWay, Places DEF _step_commit, IngestAt, LifeInv, OthersOK, RetirePlaces
<1>4. [Next]_storeVars /\ Rows' \subseteq Rows
  <2>1. CASE commit_active_version(v, expected)
    <3>1. Next
      BY <1>1, <1>2, <2>1 DEF Next
    <3>2. Rows' \subseteq Rows
      BY <1>1, <2>1, NoNewRow DEF LifeInv, IInv
    <3> QED BY <3>1, <3>2
  <2>2. CASE UNCHANGED storeVars
    BY <2>2, StoreStutters
  <2> QED BY <2>1, <2>2 DEF _step_commit
<1> QED BY <1>3, <1>4, OnlyIngestion DEF _step_commit, InOrder, LifeInv

\* The job ends, one way or the other.
LEMMA EndSteps ==
    ASSUME LifeInv, _step_finalize \/ EndFailed
    PROVE  InOrder
<1>1. ingest.job \in Jobs
  BY KnownParts DEF _step_finalize, EndFailed, IngestAt, LifeInv, OthersOK
<1>2. [Next]_storeVars /\ Rows' \subseteq Rows
  BY <1>1, JobsTables DEF _step_finalize, EndFailed, Next
<1>3. ingest' = NoIngestion /\ UNCHANGED <<planeVars, task, view, lease, boundVars>>
  BY DEF _step_finalize, EndFailed
<1> QED BY <1>2, <1>3, OnlyIngestion, NothingUnderWay DEF InOrder, LifeInv

\* What the build has written goes.
LEMMA CompensateStep ==
    ASSUME LifeInv, _compensate
    PROVE  InOrder
<1> DEFINE v == ingest.version
<1>1. v \in Versions /\ ingest.job \in Jobs /\ ingest.pc # "idle"
  BY KnownParts DEF _compensate, IngestAt, LifeInv, OthersOK
<1>2. Known(ingest')
  <2>1. \E place \in {"undo_points", "undo_parents", "undo_chunks", "undo_row", "fail"} :
           IngestGoto(place)
    BY DEF _compensate
  <2> QED BY <1>1, <2>1, KnownGoes, Places DEF LifeInv, OthersOK, RetirePlaces
<1>3. [Next]_storeVars /\ Rows' \subseteq Rows
  <2>1. CASE mark_document_failed(v)
    <3>1. Next
      BY <1>1, <2>1 DEF Next
    <3>2. Rows' \subseteq Rows
      BY <1>1, <2>1, NoNewRow DEF LifeInv, IInv
    <3> QED BY <3>1, <3>2
  <2>2. CASE UNCHANGED storeVars
    BY <2>2, StoreStutters
  <2> QED BY <2>1, <2>2 DEF _compensate
<1>4. PlanesOK'
  <2>1. PlanesOK
    BY DEF LifeInv, OthersOK
  <2>2. /\ points' = points \/ points' = [points EXCEPT ![v] = Nowhere]
        /\ parents' = parents \/ parents' = [parents EXCEPT ![v] = Nowhere]
        /\ chunks' = chunks \/ chunks' = [chunks EXCEPT ![v] = None]
        /\ inserted' = inserted
    BY DEF _compensate
  <2>3. /\ points' \in [Versions -> [status : PointStatus, acl : Acls \cup {None}]]
        /\ parents' \in [Versions -> [status : ParentStatus, acl : Acls \cup {None}]]
        /\ chunks' \in [Versions -> Acls \cup {None}]
    BY <1>1, <2>1, <2>2, EntriesKept, Words
  <2> QED BY <2>1, <2>2, <2>3 DEF PlanesOK
<1>5. TasksOK' /\ RestOK' /\ Listed'
  BY <1>3, TasksKept, RestKept, RowsFewer DEF _compensate, LifeInv, OthersOK
<1> QED BY <1>2, <1>3, <1>4, <1>5 DEF InOrder, OthersOK

-----------------------------------------------------------------------------
(* The operations of DocumentManager.                                      *)

\* A document with rows has a newest one.
LEMMA LatestIsRow ==
    ASSUME LifeInv, Rows # {}
    PROVE  get_document_latest \in Rows
<1> DEFINE latest == {v \in Rows : documents[v].revision = get_current_revision}
           place(v) == CHOOSE k \in 1 .. Len(inserted) : inserted[k] = v
           n == Len(inserted)
           back == {n - place(v) : v \in latest}
           R == OpToRel(<, Nat)
<1>1. latest # {}
  <2>1. /\ get_current_revision \in Revisions /\ get_current_revision \in Nat
        /\ \A v \in Rows : documents[v].revision <= get_current_revision
    BY CurrentRevision, MaximumIsGreatest
       DEF LifeInv, IInv, RowsInv, HasMaximum, get_current_revision
  <2>2. \A v \in Rows : documents[v].revision \in Nat
    BY DEF LifeInv, IInv, TypeOK, DocumentRow, Rows
  <2>3. CASE get_current_revision = 0
    BY <2>1, <2>2, <2>3
  <2>4. CASE get_current_revision # 0
    BY <2>1, <2>4 DEF Revisions
  <2> QED BY <2>3, <2>4
<1>2. n \in Nat
  BY DEF LifeInv, OthersOK, PlanesOK
<1>3. \A v \in latest : place(v) \in 1 .. n
  BY DEF LifeInv, OthersOK, Listed
<1> HIDE DEF place, n
<1>4. back \subseteq Nat /\ back # {}
  <2>1. ASSUME NEW v \in latest PROVE n - place(v) \in Nat
    <3>1. place(v) \in 1 .. n
      BY <1>3
    <3> QED BY <1>2, <3>1
  <2>2. PICK v \in latest : TRUE
    BY <1>1
  <2>3. n - place(v) \in back
    OBVIOUS
  <2> QED BY <2>1, <2>3, Zenon
<1>a. IsWellFoundedOn(R, Nat)
  BY NatLessThanWellFounded
<1>5. \A i, j \in Nat : <<i, j>> \in R <=> i < j
  BY DEF OpToRel
<1> HIDE DEF back, R
<1>6. \E t \in back : \A u \in back : ~(<<u, t>> \in R)
  BY <1>4, <1>a, WFMin, Zenon
<1>7. PICK t \in back : \A u \in back : ~(u < t)
  BY <1>4, <1>5, <1>6
<1>8. PICK v \in latest : t = n - place(v)
  BY DEF back
<1>9. \A w \in latest : place(w) <= place(v)
  <2> SUFFICES ASSUME NEW w \in latest PROVE place(w) <= place(v)
    OBVIOUS
  <2>1. n - place(w) \in back
    BY DEF back
  <2> QED BY <1>2, <1>3, <1>7, <1>8, <2>1
<1>10. get_document_latest = CHOOSE x \in latest : \A w \in latest : place(w) <= place(x)
  BY DEF get_document_latest, place
<1>11. get_document_latest \in latest
  BY <1>8, <1>9, <1>10
<1> QED BY <1>11

\* A call is counted.
LEMMA CallCounted ==
    ASSUME RestOK, MayStart, Counted, UNCHANGED <<view, lease>>
    PROVE  RestOK'
BY ScenarioParts DEF RestOK, MayStart, Counted

\* A task goes to a place of which it knows enough.
LEMMA Goes ==
    ASSUME NEW t, Sound(t), NEW place \in OperatorPlaces \cup ReconcilerPlaces,
           place \in OneVersion => t.version \in Versions,
           place \in TwoVersions => t.other \in Versions,
           place \in {"acl_row", "acl_points", "acl_parents"} => t.acl \in Acls,
           place \in Rebuilding => t.version \in Versions /\ t.acl \in Acls
    PROVE  Sound([t EXCEPT !.pc = place])
<1>1. t \in Task
  BY DEF Sound
<1> DEFINE u == [t EXCEPT !.pc = place]
<1>2. /\ u \in Task /\ u.pc = place /\ u.version = t.version /\ u.other = t.other
      /\ u.acl = t.acl /\ u.listed = t.listed
  BY <1>1 DEF Task
<1> HIDE DEF u
<1>3. Sound(u)
  BY <1>2 DEF Sound
<1> QED BY <1>3 DEF u

LEMMA PlaceNames ==
    /\ {"idle", "target", "delete_row", "acl_row", "purge_list", "purge_chunks", "purge_builds",
        "purge_jobs", "purge_rows", "delete_points", "delete_parents", "acl_points", "acl_parents",
        "activate_points", "activate_parents", "deprecate_points", "deprecate_parents",
        "purge_points", "purge_parents"} = OperatorPlaces
    /\ {"idle", "scroll", "points", "missing", "rebuild_points", "rebuild_parents", "deleted",
        "parents", "purge_list", "purge_points", "purge_parents", "purge_chunks",
        "purge_builds", "purge_jobs", "purge_rows"} = ReconcilerPlaces
    /\ OperatorPlaces \cap Rebuilding = {}
BY DEF OperatorPlaces, DataPlaces, ReconcilerPlaces, Rebuilding

\* A call begins with a task that knows what its first place needs.
LEMMA Begins ==
    ASSUME NEW place \in OperatorPlaces, NEW v \in Versions \cup {None},
           NEW w \in Versions \cup {None}, NEW acl \in Acls \cup {None},
           place \in OneVersion => v \in Versions,
           place \in TwoVersions => w \in Versions,
           place \in {"acl_row", "acl_points", "acl_parents"} => acl \in Acls
    PROVE  Sound([pc |-> place, version |-> v, other |-> w, acl |-> acl, todo |-> {}, listed |-> {}])
<1> DEFINE t == [pc |-> place, version |-> v, other |-> w, acl |-> acl, todo |-> {}, listed |-> {}]
<1>1. t \in Task /\ t.pc = place /\ t.version = v /\ t.other = w /\ t.acl = acl
  BY DEF Task
<1> HIDE DEF t
<1>2. Sound(t)
  BY <1>1, PlaceNames DEF Sound
<1> QED BY <1>2 DEF t

LEMMA Begun ==
    ASSUME NEW place, NEW v, NEW l
    PROVE  [NoTask EXCEPT !.pc = place, !.version = v, !.acl = l] =
              [pc |-> place, version |-> v, other |-> None, acl |-> l, todo |-> {}, listed |-> {}]
<1> DEFINE a == [NoTask EXCEPT !.pc = place]
           b == [a EXCEPT !.version = v]
           c == [b EXCEPT !.acl = l]
<1>1. a = [pc |-> place, version |-> None, other |-> None, acl |-> None, todo |-> {}, listed |-> {}]
  BY DEF NoTask
<1> HIDE DEF a
<1>2. b = [pc |-> place, version |-> v, other |-> None, acl |-> None, todo |-> {}, listed |-> {}]
  BY <1>1
<1> HIDE DEF b
<1>3. c = [pc |-> place, version |-> v, other |-> None, acl |-> l, todo |-> {}, listed |-> {}]
  BY <1>2
<1> QED BY <1>3 DEF a, b

LEMMA BegunRollback ==
    ASSUME NEW place, NEW v, NEW w
    PROVE  [NoTask EXCEPT !.pc = place, !.version = v, !.other = w] =
              [pc |-> place, version |-> v, other |-> w, acl |-> None, todo |-> {}, listed |-> {}]
<1> DEFINE a == [NoTask EXCEPT !.pc = place]
           b == [a EXCEPT !.version = v]
           c == [b EXCEPT !.other = w]
<1>1. a = [pc |-> place, version |-> None, other |-> None, acl |-> None, todo |-> {}, listed |-> {}]
  BY DEF NoTask
<1> HIDE DEF a
<1>2. b = [pc |-> place, version |-> v, other |-> None, acl |-> None, todo |-> {}, listed |-> {}]
  BY <1>1
<1> HIDE DEF b
<1>3. c = [pc |-> place, version |-> v, other |-> w, acl |-> None, todo |-> {}, listed |-> {}]
  BY <1>2
<1> QED BY <1>3 DEF a, b

\* delete(), purge() and tighten_acl() check their caller and begin.
LEMMA BeginSteps ==
    ASSUME LifeInv, NEW ctx,
           delete(ctx) \/ purge(ctx) \/ \E acl \in Acls : tighten_acl(ctx, acl)
    PROVE  InOrder
<1>1. \E t : Sound(t) /\ task' = [task EXCEPT !["operator"] = t]
  <2>1. CASE delete(ctx)
    <3> DEFINE t == [pc |-> "delete_row", version |-> get_document_latest, other |-> None,
                     acl |-> None, todo |-> {}, listed |-> {}]
    <3>1. get_document_latest \in Versions
      BY <2>1, LatestIsRow DEF delete, Rows
    <3>2. "delete_row" \in OperatorPlaces /\ "delete_row" \notin TwoVersions
      BY PlaceNames DEF TwoVersions
    <3>3. Sound(t)
      BY <3>1, <3>2, Begins
    <3>a. [NoTask EXCEPT !.pc = "delete_row", !.version = get_document_latest, !.acl = None] = t
      BY Begun, Zenon
    <3>4. task' = [task EXCEPT !["operator"] = t]
      BY <2>1, <3>a, Zenon DEF delete, OpBegin
    <3> QED BY <3>3, <3>4
  <2>2. CASE purge(ctx)
    <3> DEFINE t == [pc |-> "purge_list", version |-> None, other |-> None,
                     acl |-> None, todo |-> {}, listed |-> {}]
    <3>1. /\ "purge_list" \in OperatorPlaces
          /\ "purge_list" \notin TwoVersions \cup OneVersion
      BY PlaceNames DEF OneVersion, TwoVersions
    <3>2. Sound(t)
      BY <3>1, Begins
    <3>a. [NoTask EXCEPT !.pc = "purge_list", !.version = None, !.acl = None] = t
      BY Begun, Zenon
    <3>3. task' = [task EXCEPT !["operator"] = t]
      BY <2>2, <3>a, Zenon DEF purge, OpBegin
    <3> QED BY <3>2, <3>3
  <2>3. ASSUME NEW acl \in Acls, tighten_acl(ctx, acl)
        PROVE  \E t : Sound(t) /\ task' = [task EXCEPT !["operator"] = t]
    <3> DEFINE t == [pc |-> "acl_row", version |-> get_active_version, other |-> None,
                     acl |-> acl, todo |-> {}, listed |-> {}]
    <3>1. get_active_version \in Versions
      BY <2>3 DEF tighten_acl, get_active_version, ActiveVersions
    <3>2. "acl_row" \in OperatorPlaces /\ "acl_row" \notin TwoVersions
      BY PlaceNames DEF TwoVersions
    <3>3. Sound(t)
      BY <3>1, <3>2, Begins
    <3>a. [NoTask EXCEPT !.pc = "acl_row", !.version = get_active_version, !.acl = acl] = t
      BY Begun, Zenon
    <3>4. task' = [task EXCEPT !["operator"] = t]
      BY <2>3, <3>a, Zenon DEF tighten_acl, OpBegin
    <3> QED BY <3>3, <3>4
  <2> QED BY <2>1, <2>2, <2>3
<1>2. /\ MayStart /\ Counted
      /\ UNCHANGED storeVars /\ UNCHANGED planeVars /\ UNCHANGED ingest
      /\ UNCHANGED <<view, lease>>
  BY DEF delete, purge, tighten_acl, Call
<1>3. TasksOK'
  BY <1>1, ThreadsApart, TaskBecomes DEF LifeInv, OthersOK
<1>4. RestOK' /\ PlanesOK' /\ Known(ingest')
  BY <1>2, CallCounted, PlanesKept DEF LifeInv, OthersOK
<1>5. Listed'
  BY <1>2, StoreStutters, RowsFewer DEF LifeInv, OthersOK, planeVars
<1> QED BY <1>2, <1>3, <1>4, <1>5, StoreStutters DEF InOrder, OthersOK

\* The store switches back, then the planes follow.
LEMMA RollbackStep ==
    ASSUME LifeInv, NEW to \in Versions \cup {None}, NEW v \in Versions, rollback(to, v)
    PROVE  InOrder
<1>1. get_active_version \in Versions
  BY DEF rollback, rollback_active_version, get_active_version, ActiveVersions
<1>2. TasksOK'
  <2> DEFINE t == [pc |-> IF to = None THEN "target" ELSE "activate_points", version |-> to,
                   other |-> get_active_version, acl |-> None, todo |-> {}, listed |-> {}]
  <2>1. {"target", "activate_points"} \subseteq OperatorPlaces
    BY PlaceNames
  <2>2. Sound(t)
    <3>1. CASE to = None
      BY <1>1, <2>1, <3>1, Begins DEF OneVersion
    <3>2. CASE to # None
      BY <1>1, <2>1, <3>2, Begins
    <3> QED BY <3>1, <3>2
  <2>a. [NoTask EXCEPT !.pc = IF to = None THEN "target" ELSE "activate_points",
                       !.version = to, !.other = get_active_version] = t
    BY BegunRollback, Zenon
  <2>3. task' = [task EXCEPT !["operator"] = t]
    BY <2>a, Zenon DEF rollback
  <2> QED BY <2>2, <2>3, ThreadsApart, TaskBecomes DEF LifeInv, OthersOK
<1>3. MayStart /\ Counted /\ UNCHANGED planeVars /\ UNCHANGED ingest /\ UNCHANGED <<view, lease>>
  BY DEF rollback, Call
<1>4. RestOK' /\ PlanesOK' /\ Known(ingest')
  BY <1>3, CallCounted, PlanesKept DEF LifeInv, OthersOK
<1>5. [Next]_storeVars /\ Rows' \subseteq Rows
  <2>1. rollback_active_version(v, None)
    BY DEF rollback
  <2>2. Next
    BY <2>1 DEF Next
  <2>3. Rows' \subseteq Rows
    BY <2>1, NoNewRow DEF LifeInv, IInv
  <2> QED BY <2>2, <2>3
<1>6. Listed'
  BY <1>3, <1>5, RowsFewer DEF LifeInv, OthersOK, planeVars
<1> QED BY <1>2, <1>4, <1>5, <1>6 DEF InOrder, OthersOK

\* The thread's task goes to another place, with nothing else changed in it.
LEMMA NowGoes ==
    ASSUME TasksOK, NEW th \in Threads, NEW place \in OperatorPlaces \cup ReconcilerPlaces,
           Now(th, place),
           place \in OneVersion => task[th].version \in Versions,
           place \in TwoVersions => task[th].other \in Versions,
           place \in {"acl_row", "acl_points", "acl_parents"} => task[th].acl \in Acls,
           place \in Rebuilding => task[th].version \in Versions /\ task[th].acl \in Acls
    PROVE  TasksOK'
<1> DEFINE t == [task[th] EXCEPT !.pc = place]
<1>1. Sound(task[th])
  BY DEF TasksOK
<1>2. Sound(t)
  BY <1>1, Goes
<1>3. task' = [task EXCEPT ![th] = t]
  BY DEF Now, TasksOK
<1> HIDE DEF t
<1> QED BY <1>2, <1>3, TaskBecomes

LEMMA ThreadEnds ==
    ASSUME TasksOK, NEW th \in Threads, task' = [task EXCEPT ![th] = NoTask]
    PROVE  TasksOK'
BY NothingUnderWay, TaskBecomes

\* Rollback reads again which version it has to show.
LEMMA ResolveStep ==
    ASSUME LifeInv, ResolveTarget
    PROVE  InOrder
<1> DEFINE g == get_active_version
           p == IF g = None THEN "deprecate_points" ELSE "activate_points"
           t == [[Op EXCEPT !.version = g] EXCEPT !.pc = p]
<1>1. Sound(Op) /\ Op.pc = "target" /\ task \in [Threads -> Task]
  BY ThreadsApart DEF LifeInv, OthersOK, TasksOK, ResolveTarget, OpAt, Op
<1>2. g \in Versions \cup {None}
  BY ActiveVersionType DEF LifeInv, IInv
<1>3. task' = [task EXCEPT !["operator"] = t]
  BY <1>1, ThreadsApart DEF ResolveTarget, Op
<1> HIDE DEF g
<1>4. /\ t \in Task /\ t.pc = p /\ t.version = g /\ t.other = Op.other
      /\ t.acl = Op.acl /\ t.listed = Op.listed
  <2>1. p \in OperatorPlaces \cup ReconcilerPlaces
    BY PlaceNames
  <2>2. Op \in Task
    BY <1>1 DEF Sound
  <2> HIDE DEF p
  <2> QED BY <1>2, <2>1, <2>2 DEF Task
<1>5. Op.other \in Versions
  BY <1>1 DEF Sound, TwoVersions
<1> HIDE DEF t
<1>6. Sound(t)
  <2>1. CASE g = None
    BY <1>4, <1>5, <2>1 DEF Sound, OneVersion, Rebuilding
  <2>2. CASE g # None
    BY <1>2, <1>4, <1>5, <2>2 DEF Sound, Rebuilding
  <2> QED BY <2>1, <2>2
<1> QED
  BY <1>3, <1>6, ThreadsApart, OnlyTask, StoreStutters DEF ResolveTarget, LifeInv, InOrder

\* The row changes first.
LEMMA ChangeRowStep ==
    ASSUME LifeInv, ChangeRow
    PROVE  InOrder
<1>1. Sound(Op) /\ TasksOK
  BY ThreadsApart DEF LifeInv, OthersOK, TasksOK, Op
<1>2. Known(ingest')
  <2>1. Known(ingest)
    BY DEF LifeInv, OthersOK
  <2>2. CASE UNCHANGED ingest
    BY <2>1, <2>2
  <2>3. CASE MarkStale
    <3>1. ingest' = [ingest EXCEPT !.stale = ingest.pc \notin {"idle", "base"}]
      BY <2>3 DEF MarkStale
    <3>2. ingest' \in Ingestion /\ ingest'.pc = ingest.pc /\ ingest'.version = ingest.version
          /\ ingest'.acl = ingest.acl /\ ingest'.job = ingest.job
          /\ ingest'.attempt = ingest.attempt /\ ingest'.previous = ingest.previous
      BY <2>1, <3>1 DEF Known, Ingestion
    <3> QED BY <2>1, <3>2 DEF Known
  <2> QED BY <2>2, <2>3 DEF ChangeRow
<1>3. TasksOK' /\ [Next]_storeVars /\ Rows' \subseteq Rows
  <2>1. CASE OpAt("delete_row") /\ logical_delete(Op.version) /\ Now("operator", "delete_points")
    <3>1. Op.version \in Versions
      BY <1>1, <2>1 DEF Sound, OneVersion, OpAt
    <3>2. [Next]_storeVars
      BY <2>1, <3>1 DEF Next
    <3>3. Rows' \subseteq Rows
      BY <2>1, <3>1, NoNewRow DEF LifeInv, IInv
    <3>4. TasksOK'
      BY <1>1, <2>1, <3>1, NowGoes, ThreadsApart, PlaceNames DEF Op, TwoVersions
    <3> QED BY <3>2, <3>3, <3>4
  <2>2. CASE OpAt("acl_row") /\ update_document_acl(Op.version, Op.acl) /\ Now("operator", "acl_points")
    <3>1. Op.version \in Versions /\ Op.acl \in Acls
      BY <1>1, <2>2 DEF Sound, OneVersion, OpAt
    <3>2. [Next]_storeVars
      BY <2>2, <3>1 DEF Next
    <3>3. Rows' \subseteq Rows
      BY <2>2, <3>1, NoNewRow DEF LifeInv, IInv
    <3>4. TasksOK'
      BY <1>1, <2>2, <3>1, NowGoes, ThreadsApart, PlaceNames DEF Op, TwoVersions
    <3> QED BY <3>2, <3>3, <3>4
  <2> QED BY <2>1, <2>2 DEF ChangeRow
<1>4. PlanesOK' /\ RestOK'
  BY PlanesKept, RestKept DEF ChangeRow, LifeInv, OthersOK
<1>5. Listed'
  BY <1>3, RowsFewer DEF ChangeRow, LifeInv, OthersOK, planeVars
<1> QED BY <1>2, <1>3, <1>4, <1>5 DEF InOrder, OthersOK

\* The points and the parents follow.
LEMMA PatchSteps ==
    ASSUME LifeInv, PatchPoints \/ PatchParents
    PROVE  InOrder
<1>1. Sound(Op) /\ TasksOK /\ PlanesOK
  BY ThreadsApart DEF LifeInv, OthersOK, TasksOK, Op
<1>2. /\ OpAt("delete_points") \/ OpAt("delete_parents") => Op.version \in Versions
      /\ OpAt("acl_points") \/ OpAt("acl_parents") => Op.version \in Versions /\ Op.acl \in Acls
      /\ OpAt("activate_points") \/ OpAt("activate_parents")
            => Op.version \in Versions /\ Op.other \in Versions
      /\ OpAt("deprecate_points") \/ OpAt("deprecate_parents") => Op.other \in Versions
  BY <1>1 DEF Sound, OneVersion, TwoVersions, OpAt
<1>3. TasksOK'
  <2>1. CASE OpDone
    BY <1>1, <2>1, ThreadEnds, ThreadsApart DEF OpDone
  <2>2. CASE OpAt("delete_points") /\ Now("operator", "delete_parents")
    BY <1>1, <1>2, <2>2, NowGoes, ThreadsApart, PlaceNames DEF Op, TwoVersions
  <2>3. CASE OpAt("acl_points") /\ Now("operator", "acl_parents")
    BY <1>1, <1>2, <2>3, NowGoes, ThreadsApart, PlaceNames DEF Op, TwoVersions
  <2>4. CASE OpAt("activate_points") /\ Now("operator", "activate_parents")
    BY <1>1, <1>2, <2>4, NowGoes, ThreadsApart, PlaceNames DEF Op
  <2>5. CASE OpAt("deprecate_points") /\ Now("operator", "deprecate_parents")
    BY <1>1, <1>2, <2>5, NowGoes, ThreadsApart, PlaceNames DEF Op, OneVersion
  <2>6. CASE OpAt("activate_parents") /\ Now("operator", "deprecate_points")
    BY <1>1, <1>2, <2>6, NowGoes, ThreadsApart, PlaceNames DEF Op, OneVersion
  <2> QED BY <2>1, <2>2, <2>3, <2>4, <2>5, <2>6 DEF PatchPoints, PatchParents
<1>4. points' \in [Versions -> [status : PointStatus, acl : Acls \cup {None}]]
  <2>1. \/ UNCHANGED points
        \/ \E w \in Versions, s \in PointStatus : points' = SetStatus(points, w, s)
        \/ \E w \in Versions, a \in Acls : points' = SetAcl(points, w, a)
    BY <1>2, Words DEF PatchPoints, PatchParents
  <2>2. CASE UNCHANGED points
    BY <1>1, <2>2 DEF PlanesOK
  <2>3. ASSUME NEW w \in Versions, NEW s \in PointStatus, points' = SetStatus(points, w, s)
        PROVE  points' \in [Versions -> [status : PointStatus, acl : Acls \cup {None}]]
    BY <1>1, <2>3, PlaneEntries
  <2>4. ASSUME NEW w \in Versions, NEW a \in Acls, points' = SetAcl(points, w, a)
        PROVE  points' \in [Versions -> [status : PointStatus, acl : Acls \cup {None}]]
    BY <1>1, <2>4, PlaneEntries
  <2> QED BY <2>1, <2>2, <2>3, <2>4
<1>5. parents' \in [Versions -> [status : ParentStatus, acl : Acls \cup {None}]]
  <2>1. \/ UNCHANGED parents
        \/ \E w \in Versions, s \in ParentStatus : parents' = SetStatus(parents, w, s)
        \/ \E w \in Versions, a \in Acls : parents' = SetAcl(parents, w, a)
    BY <1>2, Words DEF PatchPoints, PatchParents
  <2>2. CASE UNCHANGED parents
    BY <1>1, <2>2 DEF PlanesOK
  <2>3. ASSUME NEW w \in Versions, NEW s \in ParentStatus, parents' = SetStatus(parents, w, s)
        PROVE  parents' \in [Versions -> [status : ParentStatus, acl : Acls \cup {None}]]
    BY <1>1, <2>3, PlaneEntries
  <2>4. ASSUME NEW w \in Versions, NEW a \in Acls, parents' = SetAcl(parents, w, a)
        PROVE  parents' \in [Versions -> [status : ParentStatus, acl : Acls \cup {None}]]
    BY <1>1, <2>4, PlaneEntries
  <2> QED BY <2>1, <2>2, <2>3, <2>4
<1>6. chunks' \in [Versions -> Acls \cup {None}]
  BY <1>1 DEF PatchPoints, PatchParents, PlanesOK
<1>7. OnlyData
  BY DEF PatchPoints, PatchParents
<1>8. Known(ingest')
  BY <1>7 DEF OnlyData, LifeInv, OthersOK
<1> QED BY <1>3, <1>4, <1>5, <1>6, <1>7, <1>8, OnlyPlanes DEF OnlyData

-----------------------------------------------------------------------------
(* The removal of a document, and the reconciler.                          *)

\* The run of the reconciler ends.
LEMMA RunEnds ==
    ASSUME TasksOK, RestOK, RecDone, UNCHANGED boundVars
    PROVE  TasksOK' /\ RestOK'
<1>1. TasksOK'
  BY ThreadEnds, ThreadsApart DEF RecDone
<1>2. RestOK'
  BY NothingUnderWay DEF RecDone, RestOK, LeaseState, boundVars
<1> QED BY <1>1, <1>2

\* The versions are listed, whatever their status.
LEMMA ListStep ==
    ASSUME LifeInv, NEW th \in Threads, ListVersions(th)
    PROVE  InOrder
<1> DEFINE p == IF Rows = {} THEN "purge_builds" ELSE "purge_points"
           t == [[task[th] EXCEPT !.pc = p] EXCEPT !.listed = Rows]
<1>1. Sound(task[th]) /\ task \in [Threads -> Task]
  BY DEF LifeInv, OthersOK, TasksOK
<1>2. task' = [task EXCEPT ![th] = t]
  BY <1>1 DEF ListVersions
<1>a. Rows \in SUBSET Versions
  BY DEF Rows
<1>b. p \in {"purge_builds", "purge_points"}
  OBVIOUS
<1> HIDE DEF p
<1>3. /\ t \in Task /\ t.pc = p /\ t.listed = Rows
  BY <1>1, <1>a, <1>b, PlaceNames DEF Sound, Task
<1> HIDE DEF t
<1>4. Sound(t)
  BY <1>b, <1>3 DEF Sound, OneVersion, TwoVersions, Rebuilding
<1>5. UNCHANGED <<storeVars, inserted, points, parents, chunks, ingest, view, lease, boundVars>>
  BY DEF ListVersions, OnlyData
<1> QED BY <1>2, <1>4, <1>5, OnlyTask, StoreStutters DEF planeVars, LifeInv, InOrder

\* One of them loses its points, its parents, its chunk rows.
LEMMA PurgeDataStep ==
    ASSUME LifeInv, NEW th \in Threads, NEW v \in Versions, PurgeData(th, v)
    PROVE  InOrder
<1>1. Sound(task[th]) /\ task[th] \in Task /\ task \in [Threads -> Task] /\ TasksOK /\ PlanesOK
  BY DEF LifeInv, OthersOK, TasksOK, Sound
<1>2. TasksOK'
  <2>1. CASE task' = [task EXCEPT ![th].pc = "purge_parents", ![th].version = v]
    <3> DEFINE t == [[task[th] EXCEPT !.pc = "purge_parents"] EXCEPT !.version = v]
    <3>1. t \in Task /\ t.pc = "purge_parents"
      BY <1>1, PlaceNames DEF Task
    <3>2. task' = [task EXCEPT ![th] = t]
      BY <1>1, <2>1
    <3> HIDE DEF t
    <3>3. Sound(t)
      BY <3>1 DEF Sound, OneVersion, TwoVersions, Rebuilding
    <3> QED BY <1>1, <3>2, <3>3, TaskBecomes
  <2>2. CASE Now(th, "purge_chunks")
    BY <1>1, <2>2, NowGoes, PlaceNames DEF OneVersion, TwoVersions, Rebuilding
  <2>3. CASE /\ PurgeData(th, v) /\ task[th].pc = "purge_chunks"
    <3> DEFINE p == IF task[th].listed = {v} THEN "purge_builds" ELSE "purge_points"
               t == [NoTask EXCEPT !.listed = task[th].listed \ {v}, !.todo = task[th].todo, !.pc = p]
    <3>1. p \in {"purge_builds", "purge_points"}
      OBVIOUS
    <3>2. task' = [task EXCEPT ![th] = t]
      BY <2>3 DEF PurgeData
    <3> HIDE DEF p
    <3>3. NoTask \in Task /\ task[th].listed \in SUBSET Versions /\ task[th].todo \in SUBSET Versions
      BY <1>1, NothingUnderWay DEF Task, Sound
    <3>4. t \in Task /\ t.pc = p
      BY <3>1, <3>3, PlaceNames DEF Task
    <3> HIDE DEF t
    <3>5. Sound(t)
      BY <3>1, <3>4 DEF Sound, OneVersion, TwoVersions, Rebuilding
    <3> QED BY <1>1, <3>2, <3>5, TaskBecomes
  <2> QED BY <2>1, <2>2, <2>3 DEF PurgeData
<1>3. /\ points' \in [Versions -> [status : PointStatus, acl : Acls \cup {None}]]
      /\ parents' \in [Versions -> [status : ParentStatus, acl : Acls \cup {None}]]
      /\ chunks' \in [Versions -> Acls \cup {None}]
  <2>1. /\ points' = points \/ points' = [points EXCEPT ![v] = Nowhere]
        /\ parents' = parents \/ parents' = [parents EXCEPT ![v] = Nowhere]
        /\ chunks' = chunks \/ chunks' = [chunks EXCEPT ![v] = None]
    BY DEF PurgeData
  <2> QED BY <1>1, <2>1, EntriesKept, Words
<1>4. OnlyData /\ Known(ingest')
  BY DEF PurgeData, OnlyData, LifeInv, OthersOK
<1> QED BY <1>2, <1>3, <1>4, OnlyPlanes DEF OnlyData

\* The three statements of delete_document, and the failure of the last.
LEMMA DeleteDocumentSteps ==
    ASSUME LifeInv, NEW th \in Threads, delete_document(th) \/ ForeignKeyFails(th)
    PROVE  InOrder
<1>1. TasksOK /\ RestOK /\ PlanesOK /\ Known(ingest) /\ Sound(task[th])
  BY DEF LifeInv, OthersOK, TasksOK
<1>2. CASE delete_document(th)
  <2>1. TasksOK'
    <3>1. CASE Now(th, "purge_jobs") \/ Now(th, "purge_rows")
      BY <1>1, <3>1, NowGoes, PlaceNames DEF OneVersion, TwoVersions, Rebuilding
    <3>2. CASE PurgeEnds(th)
      <4>1. CASE th = "operator"
        BY <1>1, <3>2, <4>1, ThreadEnds DEF PurgeEnds
      <4>2. CASE th # "operator"
        <5>1. task' = [task EXCEPT ![th] = [task[th] EXCEPT !.pc = "deleted"]]
          BY <1>1, <3>2, <4>2 DEF PurgeEnds, TasksOK
        <5>2. Sound([task[th] EXCEPT !.pc = "deleted"])
          BY <1>1, Goes, PlaceNames DEF OneVersion, TwoVersions, Rebuilding
        <5> QED BY <1>1, <5>1, <5>2, TaskBecomes
      <4> QED BY <4>1, <4>2
    <3> QED BY <1>2, <3>1, <3>2 DEF delete_document
  <2>2. [Next]_storeVars /\ Rows' \subseteq Rows
    <3>1. CASE delete_document_builds \/ delete_document_jobs
      BY <3>1, JobsTables DEF Next
    <3>2. CASE delete_document_rows
      BY <3>2 DEF Next, delete_document_rows, Rows, NoDocument
    <3> QED BY <1>2, <3>1, <3>2 DEF delete_document
  <2>3. inserted' \in Seq(Versions) /\ Listed'
    <3>1. CASE UNCHANGED inserted
      BY <1>1, <2>2, <3>1, RowsFewer DEF PlanesOK, LifeInv, OthersOK
    <3>2. CASE delete_document_rows /\ inserted' = <<>>
      BY <3>2 DEF delete_document_rows, Listed, Rows, NoDocument
    <3> QED BY <1>2, <3>1, <3>2 DEF delete_document
  <2>4. UNCHANGED <<points, parents, chunks, ingest, boundVars, view, lease>>
    BY <1>2 DEF delete_document
  <2>5. PlanesOK' /\ RestOK' /\ Known(ingest')
    BY <1>1, <2>3, <2>4, RestKept DEF PlanesOK
  <2> QED BY <2>1, <2>2, <2>3, <2>5 DEF InOrder, OthersOK
<1>3. CASE ForeignKeyFails(th)
  <2>1. UNCHANGED storeVars /\ UNCHANGED planeVars /\ UNCHANGED ingest /\ UNCHANGED boundVars
    BY <1>3 DEF ForeignKeyFails
  <2>2. TasksOK' /\ RestOK'
    <3>1. CASE RecDone
      BY <1>1, <2>1, <3>1, RunEnds
    <3>2. CASE OpDone /\ UNCHANGED <<view, lease>>
      BY <1>1, <2>1, <3>2, ThreadEnds, ThreadsApart, RestKept DEF OpDone
    <3> QED BY <1>3, <3>1, <3>2 DEF ForeignKeyFails
  <2>3. PlanesOK' /\ Listed' /\ Known(ingest')
    BY <1>1, <2>1, PlanesKept, StoreStutters, RowsFewer DEF planeVars, LifeInv, OthersOK
  <2> QED BY <2>1, <2>2, <2>3, StoreStutters DEF InOrder, OthersOK
<1> QED BY <1>2, <1>3

\* The reconciler's task is at a place of its loops, with what is left to look at.
LEMMA LoopSound ==
    ASSUME NEW place \in {"points", "missing", "deleted", "parents", "purge_list"},
           NEW todo \in SUBSET Versions
    PROVE  Sound(LoopAt(place, todo))
<1> DEFINE t == LoopAt(place, todo)
<1>1. t \in Task /\ t.pc = place
  BY PlaceNames DEF LoopAt, NoTask, Task
<1> HIDE DEF t
<1>2. Sound(t)
  BY <1>1 DEF Sound, OneVersion, TwoVersions, Rebuilding
<1> QED BY <1>2 DEF t

\* Where a loop goes on: it is one of a few places, and so are those after it.
LEMMA LoopsGo ==
    ASSUME TasksOK, view \in View, NEW todo \in SUBSET Versions,
           NEW place \in {"points", "missing", "deleted", "parents"}, Loop(place, todo)
    PROVE  TasksOK'
<1>1. view.active \in SUBSET Versions /\ view.deleted \in SUBSET Versions
  BY DEF View
<1>2. \E p \in {"points", "missing", "deleted", "parents"}, rest \in SUBSET Versions :
         task' = [task EXCEPT !["reconciler"] = LoopAt(p, rest)]
  BY <1>1 DEF Loop
<1> QED BY <1>2, LoopSound, TaskBecomes, ThreadsApart

LEMMA LookedGoes ==
    ASSUME TasksOK, view \in View, NEW v, LookedAt(v),
           Rec.pc \in {"points", "missing", "deleted", "parents"}
    PROVE  TasksOK'
<1>1. Rec.todo \ {v} \in SUBSET Versions
  BY ThreadsApart DEF TasksOK, Rec, Task
<1> QED BY <1>1, LoopsGo DEF LookedAt

\* What is to be rebuilt is known.
LEMMA RebuildSteps ==
    ASSUME LifeInv, rebuild_document
    PROVE  InOrder
<1>1. TasksOK /\ PlanesOK /\ Known(ingest) /\ view \in View /\ Sound(Rec)
  BY ThreadsApart DEF LifeInv, OthersOK, RestOK, TasksOK, Rec
<1>2. Rec.version \in Versions /\ Rec.acl \in Acls /\ Rec.todo \in SUBSET Versions
  BY <1>1 DEF Sound, Rebuilding, rebuild_document, RecAt, Task
<1>3. TasksOK'
  <2>1. CASE Now("reconciler", "rebuild_parents")
    BY <1>1, <1>2, <2>1, NowGoes, ThreadsApart, PlaceNames DEF OneVersion, TwoVersions, Rec
  <2>2. CASE Loop("missing", Rec.todo)
    BY <1>1, <1>2, <2>2, LoopsGo
  <2> QED BY <2>1, <2>2 DEF rebuild_document
<1>4. /\ points' \in [Versions -> [status : PointStatus, acl : Acls \cup {None}]]
      /\ parents' \in [Versions -> [status : ParentStatus, acl : Acls \cup {None}]]
      /\ chunks' \in [Versions -> Acls \cup {None}]
  <2>1. /\ \/ points' = points
           \/ points' = [points EXCEPT ![Rec.version] = [status |-> "active", acl |-> Rec.acl]]
        /\ \/ parents' = parents
           \/ parents' = [parents EXCEPT ![Rec.version] = [status |-> "active", acl |-> Rec.acl]]
        /\ chunks' = chunks
    BY DEF rebuild_document
  <2> QED BY <1>1, <1>2, <2>1, EntriesKept
<1>5. OnlyData
  BY DEF rebuild_document
<1> QED BY <1>1, <1>3, <1>4, <1>5, OnlyPlanes DEF OnlyData

\* The repairs of one version.
LEMMA RepairSteps ==
    ASSUME LifeInv, NEW v \in Versions,
           RepairPoints(v) \/ RepairMissing(v) \/ RetryCleanup(v) \/ RepairParents(v)
    PROVE  InOrder
<1>1. TasksOK /\ PlanesOK /\ Known(ingest) /\ view \in View
  BY DEF LifeInv, OthersOK, RestOK
<1>a. Rec.todo \ {v} \in SUBSET Versions
  BY <1>1, ThreadsApart DEF TasksOK, Rec, Task
<1>2. TasksOK'
  <2>1. CASE LookedAt(v) /\ Rec.pc \in {"points", "missing", "parents"}
    BY <1>1, <2>1, LookedGoes
  <2>2. CASE RetryCleanup(v)
    <3> DEFINE place == IF v \in Present(points) \cup Present(parents) THEN "purge_list" ELSE "deleted"
    <3>1. task' = [task EXCEPT !["reconciler"] = LoopAt(place, Rec.todo \ {v})]
      BY <2>2 DEF RetryCleanup
    <3>2. place \in {"deleted", "purge_list"}
      OBVIOUS
    <3> HIDE DEF place
    <3> QED BY <1>1, <1>a, <3>1, <3>2, LoopSound, TaskBecomes, ThreadsApart
  <2>3. CASE /\ chunks[v] # None
             /\ task' = [task EXCEPT !["reconciler"] =
                            [LoopAt("rebuild_points", Rec.todo \ {v}) EXCEPT !.version = v,
                                                                            !.acl = chunks[v]]]
    <3> DEFINE t == [LoopAt("rebuild_points", Rec.todo \ {v}) EXCEPT !.version = v, !.acl = chunks[v]]
    <3>1. chunks[v] \in Acls
      BY <1>1, <2>3 DEF PlanesOK
    <3>2. /\ t \in Task /\ t.pc = "rebuild_points" /\ t.version = v /\ t.acl = chunks[v]
      <4> DEFINE u == LoopAt("rebuild_points", Rec.todo \ {v})
      <4>1. u \in Task /\ u.pc = "rebuild_points"
        BY <1>a, PlaceNames DEF LoopAt, NoTask, Task
      <4> HIDE DEF u
      <4>2. t = [u EXCEPT !.version = v, !.acl = chunks[v]]
        BY DEF u
      <4> HIDE DEF t
      <4> QED BY <3>1, <4>1, <4>2 DEF Task
    <3>3. task' = [task EXCEPT !["reconciler"] = t]
      BY <2>3
    <3> HIDE DEF t
    <3>4. Sound(t)
      BY <3>1, <3>2 DEF Sound, OneVersion, TwoVersions
    <3> QED BY <1>1, <3>3, <3>4, TaskBecomes, ThreadsApart
  <2> QED BY <2>1, <2>2, <2>3 DEF RepairPoints, RepairMissing, RepairParents, Look, RecAt
<1>3. points' \in [Versions -> [status : PointStatus, acl : Acls \cup {None}]]
  <2>1. \/ UNCHANGED points
        \/ \E s \in PointStatus, a \in Acls \cup {None} :
              points' = [points EXCEPT ![v] = [status |-> s, acl |-> a]]
        \/ \E s \in PointStatus : points' = SetStatus(points, v, s)
    BY Words DEF RepairPoints, RepairMissing, RetryCleanup, RepairParents, Repaired
  <2>2. ASSUME NEW s \in PointStatus, NEW a \in Acls \cup {None},
               \/ points' = [points EXCEPT ![v] = [status |-> s, acl |-> a]]
               \/ points' = SetStatus(points, v, s)
        PROVE  points' \in [Versions -> [status : PointStatus, acl : Acls \cup {None}]]
    <3>1. CASE points' = [points EXCEPT ![v] = [status |-> s, acl |-> a]]
      BY <1>1, <3>1, PlaneEntries
    <3>2. CASE points' = SetStatus(points, v, s)
      BY <1>1, <3>2, PlaneEntries
    <3> QED BY <2>2, <3>1, <3>2
  <2> QED BY <1>1, <2>1, <2>2 DEF PlanesOK
<1>4. parents' \in [Versions -> [status : ParentStatus, acl : Acls \cup {None}]]
  <2>1. \/ UNCHANGED parents
        \/ \E s \in ParentStatus, a \in Acls \cup {None} :
              parents' = [parents EXCEPT ![v] = [status |-> s, acl |-> a]]
        \/ \E s \in ParentStatus : parents' = SetStatus(parents, v, s)
    BY Words DEF RepairPoints, RepairMissing, RetryCleanup, RepairParents, Repaired
  <2>2. ASSUME NEW s \in ParentStatus, NEW a \in Acls \cup {None},
               \/ parents' = [parents EXCEPT ![v] = [status |-> s, acl |-> a]]
               \/ parents' = SetStatus(parents, v, s)
        PROVE  parents' \in [Versions -> [status : ParentStatus, acl : Acls \cup {None}]]
    <3>1. CASE parents' = [parents EXCEPT ![v] = [status |-> s, acl |-> a]]
      BY <1>1, <3>1, PlaneEntries
    <3>2. CASE parents' = SetStatus(parents, v, s)
      BY <1>1, <3>2, PlaneEntries
    <3> QED BY <2>2, <3>1, <3>2
  <2> QED BY <1>1, <2>1, <2>2 DEF PlanesOK
<1>5. OnlyData /\ UNCHANGED chunks
  BY DEF RepairPoints, RepairMissing, RetryCleanup, RepairParents
<1> QED BY <1>1, <1>2, <1>3, <1>4, <1>5, OnlyPlanes DEF OnlyData, PlanesOK

\* A run begins, reads, and goes from loop to loop.
LEMMA RunSteps ==
    ASSUME LifeInv, StartRun \/ scroll_all \/ ListParents \/ EndRun \/ LeaseExpires
    PROVE  InOrder
<1>1. TasksOK /\ RestOK /\ PlanesOK /\ Known(ingest) /\ view \in View /\ lease \in LeaseState
  BY DEF LifeInv, OthersOK, RestOK
<1>2. /\ UNCHANGED storeVars /\ UNCHANGED planeVars /\ UNCHANGED ingest /\ UNCHANGED boundVars
  BY DEF StartRun, scroll_all, ListParents, EndRun, LeaseExpires
<1>3. Rows \subseteq Versions /\ ActiveVersions \subseteq Versions
  BY DEF Rows, ActiveVersions
<1>4. TasksOK' /\ RestOK'
  <2>1. CASE StartRun
    <3>1. TasksOK'
      BY <1>1, <2>1, NowGoes, ThreadsApart, PlaceNames DEF StartRun, OneVersion, TwoVersions, Rebuilding
    <3>2. view' = [active |-> ActiveVersions, known |-> Rows,
                   deleted |-> {v \in Rows : documents[v].status = "deleted"}, present |-> {}]
      BY <2>1 DEF StartRun, NoView
    <3>a. {v \in Rows : documents[v].status = "deleted"} \in SUBSET Versions
      BY <1>3
    <3>b. lease' \in LeaseState
      BY <2>1 DEF StartRun, LeaseState
    <3>3. view' \in View
      BY <1>3, <3>2, <3>a DEF View
    <3> QED BY <1>1, <1>2, <3>1, <3>b, <3>3 DEF RestOK, boundVars
  <2>2. CASE scroll_all
    <3> DEFINE wrong == {v \in Present(points) : Orphan(v) \/ Hidden(points, v) \/ Lingering(points, v)}
    <3>1. Present(points) \subseteq Versions /\ wrong \in SUBSET Versions
      BY DEF Present
    <3>2. TasksOK'
      BY <1>1, <2>2, <3>1, LoopsGo DEF scroll_all
    <3>3. view' \in View
      BY <1>1, <2>2, <3>1 DEF scroll_all, View
    <3> QED BY <1>1, <1>2, <2>2, <3>2, <3>3 DEF scroll_all, RestOK, boundVars
  <2>3. CASE ListParents
    <3>1. Present(parents) \in SUBSET Versions
      BY DEF Present
    <3>2. TasksOK'
      BY <1>1, <2>3, <3>1, LoopsGo DEF ListParents
    <3>3. view' \in View
      BY <1>1, <2>3 DEF ListParents, View
    <3> QED BY <1>1, <1>2, <2>3, <3>2, <3>3 DEF ListParents, RestOK, boundVars
  <2>5. CASE EndRun
    BY <1>1, <1>2, <2>5, RunEnds DEF EndRun
  <2>4. CASE LeaseExpires
    <3>1. TasksOK'
      BY <1>1, <2>4, TasksKept DEF LeaseExpires
    <3>2. lease' \in LeaseState /\ UNCHANGED view
      BY <2>4 DEF LeaseExpires, LeaseState
    <3> QED BY <1>1, <1>2, <3>1, <3>2 DEF RestOK, boundVars
  <2> QED BY <2>1, <2>2, <2>3, <2>4, <2>5
<1>5. PlanesOK' /\ Listed' /\ Known(ingest')
  BY <1>1, <1>2, PlanesKept, StoreStutters, RowsFewer DEF planeVars, LifeInv, OthersOK
<1> QED BY <1>2, <1>4, <1>5, StoreStutters DEF InOrder, OthersOK

-----------------------------------------------------------------------------
(* Faults, a restart, and all steps together.                              *)

LEMMA TroubleCounted ==
    ASSUME RestOK, Trouble, view' \in View, lease' \in LeaseState
    PROVE  RestOK'
BY ScenarioParts DEF RestOK, Trouble

\* A call raises, or the process ends.
LEMMA FaultSteps ==
    ASSUME LifeInv, IngestFails \/ CallFails \/ Restart
    PROVE  InOrder
<1>1. TasksOK /\ RestOK /\ PlanesOK /\ Known(ingest) /\ view \in View /\ lease \in LeaseState
  BY DEF LifeInv, OthersOK, RestOK
<1>2. UNCHANGED storeVars /\ Trouble /\ UNCHANGED inserted
  BY DEF IngestFails, CallFails, Restart, planeVars
<1>3. Listed' /\ [Next]_storeVars
  BY <1>2, StoreStutters, RowsFewer DEF LifeInv, OthersOK
<1>4. CASE IngestFails
  <2>1. ingest.pc # "idle" /\ (IngestGoto("undo") \/ IngestGoto("fail"))
    BY <1>4 DEF IngestFails
  <2>2. Known(ingest')
    BY <1>1, <2>1, KnownGoes, Places DEF RetirePlaces
  <2>3. UNCHANGED planeVars /\ UNCHANGED task /\ UNCHANGED view /\ UNCHANGED lease
    BY <1>4 DEF IngestFails
  <2>4. PlanesOK' /\ TasksOK' /\ RestOK'
    BY <1>1, <1>2, <2>3, PlanesKept, TasksKept, TroubleCounted
  <2> QED BY <1>3, <2>2, <2>4 DEF InOrder, OthersOK
<1>5. CASE CallFails
  <2>1. UNCHANGED planeVars /\ UNCHANGED ingest
    BY <1>5 DEF CallFails
  <2>2. \/ OpDone /\ UNCHANGED <<view, lease>>
        \/ RecDone
    BY <1>5 DEF CallFails
  <2>3. TasksOK'
    BY <1>1, <2>2, ThreadEnds, ThreadsApart DEF OpDone, RecDone
  <2>4. view' \in View /\ lease' \in LeaseState
    BY <1>1, <2>2, NothingUnderWay DEF RecDone, LeaseState
  <2> QED BY <1>1, <1>2, <1>3, <2>1, <2>3, <2>4, PlanesKept, TroubleCounted DEF InOrder, OthersOK
<1>6. CASE Restart
  <2>1. TasksOK'
    <3>1. task' = [t \in Threads |-> NoTask]
      BY <1>6 DEF Restart
    <3>2. NoTask \in Task
      BY NothingUnderWay DEF Sound
    <3> QED BY <3>1, <3>2, NothingUnderWay DEF TasksOK
  <2>2. PlanesOK'
    <3>1. parents' = [v \in Versions |-> Nowhere] /\ UNCHANGED <<inserted, points, chunks>>
      BY <1>6 DEF Restart
    <3>2. Nowhere \in [status : ParentStatus, acl : Acls \cup {None}]
      BY Words
    <3>3. parents' \in [Versions -> [status : ParentStatus, acl : Acls \cup {None}]]
      BY <3>1, <3>2
    <3> QED BY <1>1, <3>1, <3>3 DEF PlanesOK
  <2>3. Known(ingest')
    BY <1>6, NothingUnderWay DEF Restart
  <2>4. view' \in View /\ lease' \in LeaseState
    BY <1>1, <1>6, NothingUnderWay DEF Restart, LeaseState
  <2> QED BY <1>1, <1>2, <1>3, <2>1, <2>2, <2>3, <2>4, TroubleCounted DEF InOrder, OthersOK
<1> QED BY <1>4, <1>5, <1>6

LEMMA StutterStep ==
    ASSUME LifeInv, UNCHANGED lifecycleVars
    PROVE  InOrder
<1>1. UNCHANGED storeVars /\ UNCHANGED planeVars /\ UNCHANGED task /\ UNCHANGED ingest
      /\ UNCHANGED <<view, lease, boundVars>>
  BY DEF lifecycleVars, runVars
<1>2. OthersOK'
  BY <1>1, OnlyIngestion, StoreStutters DEF LifeInv, OthersOK
<1> QED BY <1>1, <1>2, StoreStutters DEF InOrder

\* The case analysis over the steps of the lifecycle.
LEMMA LifeStep ==
    ASSUME Stamps = Nat, LifeInv, [LifecycleNext]_lifecycleVars
    PROVE  InOrder
<1>1. CASE Ask
  <2>1. ASSUME NEW ctx \in Principals, NEW v \in Versions, NEW acl \in Acls \cup {None},
               update(ctx, v, acl)
        PROVE  InOrder
    BY <2>1, DeliverStep DEF update
  <2> QED BY <1>1, <2>1, BeginSteps, DeliverStep, RollbackStep DEF Ask
<1>2. CASE Advance
  BY <1>2, ReadSteps, AcquireStep, WriteSteps, CommitStep, EndSteps, CompensateStep DEF Advance
<1>3. ASSUME NEW th \in Threads, PurgeStep(th) PROVE InOrder
  BY <1>3, ListStep, PurgeDataStep, DeleteDocumentSteps DEF PurgeStep
<1>4. CASE Operate
  BY <1>3, <1>4, ThreadsApart, ResolveStep, ChangeRowStep, PatchSteps DEF Operate
<1>5. CASE Reconcile \/ LeaseExpires
  BY <1>3, <1>5, ThreadsApart, RunSteps, RepairSteps, RebuildSteps DEF Reconcile
<1>6. CASE IngestFails \/ CallFails \/ Restart
  BY <1>6, FaultSteps
<1>7. CASE UNCHANGED lifecycleVars
  BY <1>7, StutterStep
<1> QED BY <1>1, <1>2, <1>4, <1>5, <1>6, <1>7 DEF LifecycleNext

LEMMA LifeInvKept ==
    ASSUME Stamps = Nat, LifeInv, [LifecycleNext]_lifecycleVars
    PROVE  LifeInv'
BY LifeStep, InvariantStep DEF InOrder, LifeInv

LEMMA LifeInvHolds == ASSUME Stamps = Nat PROVE LifecycleSpec => []LifeInv
<1>1. LifeInv /\ [LifecycleNext]_lifecycleVars => LifeInv'
  BY LifeInvKept
<1> QED BY LifeInit, <1>1, PTL DEF LifecycleSpec

\* Whatever operations, ingestions, reconciler runs, faults and restarts are
\* interleaved, what they do to the tables is a behaviour of the store: every
\* theorem about the store is one about the lifecycle.  The store's callers may
\* present any number to a compare-and-swap.
THEOREM LifecycleImplementsStore == ASSUME Stamps = Nat PROVE LifecycleSpec => Spec
<1>1. LifecycleInit => Init
  BY DEF LifecycleInit
<1>2. LifeInv /\ [LifecycleNext]_lifecycleVars => [Next]_storeVars
  BY LifeStep DEF InOrder
<1> QED BY <1>1, <1>2, LifeInvHolds, PTL DEF LifecycleSpec, Spec

\* So the partial unique index never refuses a step of the lifecycle.
THEOREM LifecycleUniqueActive == ASSUME Stamps = Nat PROVE LifecycleSpec => []UniqueActive
BY LifecycleImplementsStore, UniqueActiveHolds, PTL

\* Every plane holds what its writers put there, and a thread that goes on knows
\* the version, the ACL and the list that its next call needs.
THEOREM LifecycleTypeCorrect == ASSUME Stamps = Nat PROVE LifecycleSpec => []LifecycleTypeOK
<1>1. LifeInv => LifecycleTypeOK
  <2>1. LifeInv => \A k \in 1 .. Len(inserted) : inserted[k] \in Versions
    BY DEF LifeInv, OthersOK, PlanesOK
  <2> QED
    BY <2>1 DEF LifeInv, OthersOK, PlanesOK, Known, TasksOK, RestOK, IInv, LifecycleTypeOK
<1> QED BY <1>1, LifeInvHolds, PTL

-----------------------------------------------------------------------------
(* The fence: why a stale ingestion does not commit.                       *)
(*                                                                         *)
(* While a build is under way its base revision is behind the document's   *)
(* from the moment that a row is deleted or its ACL tightened: every later *)
(* switch, delete or tightening leads away from it, and a purge takes the  *)
(* revision back to 0, where it stays (no version is active to be changed) *)
(* unless a build commits.  A base of 0 was read when nothing was active,  *)
(* so that no change can make it stale.                                    *)

Building == {"acquire", "stage_parents", "stage_points", "stage_chunks", "verify", "commit"}

ActiveCounted == \A v \in ActiveVersions : documents[v].revision # 0

\* The version that is being built has not been active.
OwnRow ==
    ingest.pc \in {"base"} \cup Building
        => documents[ingest.version].status \notin {"active", "deprecated"}

\* The job row holds the base revision, unless a purge has removed it.
OwnJob ==
    /\ ingest.pc \in {"base", "acquire"} => jobs[ingest.job].status = "absent"
    /\ ingest.pc \in Building \ {"acquire"}
        => jobs[ingest.job].status = "absent" \/ jobs[ingest.job].base = ingest.base

Fence ==
    /\ ingest.pc = "base" => ~ingest.stale
    /\ ingest.pc \in Building =>
        /\ ActiveVersions # {} => ingest.base # 0 /\ ingest.base <= get_current_revision
        /\ ingest.stale =>
              /\ ingest.base # 0
              /\ \/ ingest.base < get_current_revision
                 \/ get_current_revision < ingest.base /\ ActiveVersions = {}

FenceInv == ActiveCounted /\ OwnRow /\ OwnJob /\ Fence

\* What a step makes of the revision: it stays, it starts again, or it grows
\* while a version is active.
Kept == get_current_revision' = get_current_revision /\ ActiveVersions' = ActiveVersions
Gone == get_current_revision' = 0 /\ ActiveVersions' = {}
Grown == get_current_revision' = get_current_revision + 1 /\ ActiveVersions # {}

LEMMA RevisionMoves ==
    ASSUME IInv, IInv',
           \/ Stored \/ Failed \/ Emptied \/ UNCHANGED documents
           \/ (Switched \/ Stamped) /\ ActiveVersions # {}
    PROVE  Kept \/ Gone \/ Grown
BY RevisionKept, RevisionGrows, RevisionGone DEF Kept, Gone, Grown

LEMMA StampedGrows == ASSUME IInv, IInv', Stamped PROVE Grown
BY RevisionGrows DEF Stamped, Grown

\* A row that becomes active has a revision.
LEMMA ActiveCountedKept ==
    ASSUME IInv, ActiveCounted, [Next]_storeVars
    PROVE  ActiveCounted'
<1>1. get_current_revision \in Nat
  BY CurrentRevision DEF IInv, RowsInv
<1>2. CASE Stored
  <2>1. PICK v \in Versions, h \in Hashes, acl \in Acls : _upsert_document_build(v, h, acl)
    BY <1>2 DEF Stored
  <2>2. \A w \in Versions : documents'[w].status = "active" => documents'[w] = documents[w]
    BY <2>1 DEF _upsert_document_build, IInv, TypeOK, DocumentRow
  <2> QED BY <2>2 DEF ActiveCounted, ActiveVersions
<1>3. CASE Switched
  <2>1. PICK v \in Rows : SwitchActive(v, get_current_revision + 1)
    BY <1>3 DEF Switched
  <2>2. /\ v \in Versions /\ documents'[v].revision = get_current_revision + 1
        /\ \A w \in Versions : w # v => documents'[w].status # "active"
    BY <2>1, SwitchedRows DEF IInv, Rows
  <2>3. \A w \in ActiveVersions' : documents'[w].revision = get_current_revision + 1
    BY <2>2 DEF ActiveVersions
  <2> QED BY <1>1, <2>3 DEF ActiveCounted
<1>4. CASE Stamped
  <2>1. PICK v \in ActiveVersions, s \in {"active", "deleted"}, acl \in Acls \cup {None} :
            documents' = [documents EXCEPT ![v].status = s, ![v].acl = acl,
                                      ![v].revision = documents[v].revision + 1]
    BY <1>4 DEF Stamped
  <2>2. /\ v \in Versions /\ documents[v].revision \in Nat
        /\ documents'[v].revision = documents[v].revision + 1
        /\ \A w \in Versions : w # v => documents'[w] = documents[w]
    BY <2>1 DEF IInv, TypeOK, DocumentRow, ActiveVersions
  <2> QED BY <2>2 DEF ActiveCounted, ActiveVersions
<1>5. CASE Failed
  <2>1. \A w \in Versions : documents'[w].status = "active" => documents'[w] = documents[w]
    BY <1>5 DEF Failed, IInv, TypeOK, DocumentRow
  <2> QED BY <2>1 DEF ActiveCounted, ActiveVersions
<1>6. CASE Emptied
  <2>1. \A w \in Versions : documents'[w].status = "absent"
    BY <1>6 DEF Emptied, NoDocument
  <2> QED BY <2>1 DEF ActiveCounted, ActiveVersions
<1>7. CASE UNCHANGED documents
  BY <1>7 DEF ActiveCounted, ActiveVersions
<1> QED BY <1>2, <1>3, <1>4, <1>5, <1>6, <1>7, DocumentSteps DEF IInv

\* The ingestion stays where it is, or goes on with its build, while the
\* revision moves and jobs may be removed.
LEMMA FenceKept ==
    ASSUME LifeInv, LifeInv', FenceInv, ActiveCounted', OwnRow',
           \A j \in Jobs : jobs'[j] = jobs[j] \/ jobs'[j].status = "absent",
           Kept \/ Gone \/ Grown,
           \/ ingest'.pc = ingest.pc
           \/ {ingest.pc, ingest'.pc} \subseteq Building \ {"acquire"},
           ingest'.job = ingest.job, ingest'.base = ingest.base,
           ingest'.stale = ingest.stale \/ Grown,
           ingest.pc = "base" => ~ingest'.stale
    PROVE  FenceInv'
<1>1. CASE ingest.pc \notin {"base"} \cup Building
  BY <1>1 DEF FenceInv, OwnJob, Fence, Building
<1>2. CASE ingest.pc \in {"base"} \cup Building
  <2>1. /\ ingest.job \in Jobs /\ ingest.base \in Nat
        /\ ingest.stale \in BOOLEAN /\ ingest'.stale \in BOOLEAN
    BY <1>2 DEF LifeInv, OthersOK, Known, Ingestion, Building
  <2>2. get_current_revision \in Nat /\ get_current_revision' \in Nat
    <3>1. get_current_revision \in Nat
      BY CurrentRevision DEF LifeInv, IInv, RowsInv
    <3> QED BY <3>1 DEF Kept, Gone, Grown
  <2>3. OwnJob'
    BY <1>2, <2>1 DEF FenceInv, OwnJob, Building
  <2>4. Fence'
    <3>1. ingest'.pc = "base" => ~ingest'.stale
      BY DEF Building
    <3>2. ASSUME ingest'.pc \in Building
          PROVE  /\ ActiveVersions' # {} => ingest.base # 0 /\ ingest.base <= get_current_revision'
                 /\ ingest'.stale =>
                       /\ ingest.base # 0
                       /\ \/ ingest.base < get_current_revision'
                          \/ get_current_revision' < ingest.base /\ ActiveVersions' = {}
      <4>1. ingest.pc \in Building
        BY <3>2
      <4>2. /\ ActiveVersions # {} => ingest.base # 0 /\ ingest.base <= get_current_revision
            /\ ingest.stale =>
                  /\ ingest.base # 0
                  /\ \/ ingest.base < get_current_revision
                     \/ get_current_revision < ingest.base /\ ActiveVersions = {}
        BY <4>1 DEF FenceInv, Fence
      <4>3. CASE Grown
        BY <2>1, <2>2, <4>2, <4>3 DEF Grown
      <4>4. CASE Kept /\ ingest'.stale = ingest.stale
        BY <4>2, <4>4 DEF Kept
      <4>5. CASE Gone /\ ingest'.stale = ingest.stale
        BY <2>1, <2>2, <4>2, <4>5 DEF Gone
      <4> QED BY <4>3, <4>4, <4>5
    <3> QED BY <3>1, <3>2 DEF Fence
  <2> QED BY <2>3, <2>4 DEF FenceInv
<1> QED BY <1>1, <1>2

LEMMA FenceLeft ==
    ASSUME ActiveCounted', ingest'.pc \notin {"base"} \cup Building
    PROVE  FenceInv'
BY DEF FenceInv, OwnRow, OwnJob, Fence, Building

\* Nothing happens to the rows of a version that was not active, except that a
\* purge removes them.
LEMMA OwnRowKept ==
    ASSUME LifeInv, OwnRow, ingest'.version = ingest.version,
           \/ ingest'.pc = ingest.pc
           \/ {ingest.pc, ingest'.pc} \subseteq Building,
           \/ UNCHANGED documents
           \/ Stamped
           \/ Emptied
           \/ \E v \in Versions : \E r : documents[v].status \in {"active", "deprecated"} /\ SwitchActive(v, r)
    PROVE  OwnRow'
<1> SUFFICES ASSUME ingest'.pc \in {"base"} \cup Building
             PROVE  documents'[ingest.version].status \notin {"active", "deprecated"}
  BY DEF OwnRow
<1>1. ingest.pc \in {"base"} \cup Building
  OBVIOUS
<1>2. /\ ingest.version \in Versions
      /\ documents[ingest.version].status \notin {"active", "deprecated"}
  BY <1>1 DEF OwnRow, LifeInv, OthersOK, Known, Building
<1>3. CASE UNCHANGED documents
  BY <1>2, <1>3
<1>4. CASE Stamped
  <2>1. documents'[ingest.version] = documents[ingest.version]
    BY <1>2, <1>4 DEF Stamped, ActiveVersions, LifeInv, IInv, TypeOK
  <2> QED BY <1>2, <2>1
<1>5. CASE Emptied
  BY <1>2, <1>5 DEF Emptied, NoDocument
<1>6. ASSUME NEW v \in Versions, NEW r, documents[v].status \in {"active", "deprecated"},
             SwitchActive(v, r)
      PROVE  documents'[ingest.version].status \notin {"active", "deprecated"}
  <2>1. ingest.version # v
    BY <1>2, <1>6
  <2>2. documents'[ingest.version].status = documents[ingest.version].status
    BY <1>2, <1>6, <2>1, SwitchedRows DEF LifeInv, IInv
  <2> QED BY <1>2, <2>2
<1> QED BY <1>3, <1>4, <1>5, <1>6

\* A delivery picks a version without a row and a job without one; then the base
\* revision is read.
LEMMA FenceBegins ==
    ASSUME LifeInv, FenceInv, ActiveCounted',
           \/ \E v \in Versions : \E acl : Deliver(v, acl)
           \/ ReadBase
    PROVE  FenceInv'
<1>1. ASSUME NEW v \in Versions, NEW acl, Deliver(v, acl) PROVE FenceInv'
  <2>1. (CHOOSE j \in FreshJobs : TRUE) \in FreshJobs
    BY <1>1 DEF Deliver
  <2> DEFINE j == CHOOSE j \in FreshJobs : TRUE
  <2>2. jobs[j].status = "absent" /\ documents[v].status = "absent"
    BY <1>1, <2>1 DEF Deliver, FreshJobs
  <2> HIDE DEF j
  <2>3. ingest'.pc = "base" /\ ingest'.version = v /\ ingest'.job = j /\ ~ingest'.stale
    BY <1>1 DEF Deliver, NoIngestion, j
  <2>4. UNCHANGED <<documents, jobs>>
    BY <1>1 DEF Deliver, storeVars
  <2> QED BY <2>2, <2>3, <2>4 DEF FenceInv, OwnRow, OwnJob, Fence, Building
<1>2. CASE ReadBase
  <2>1. /\ ingest.pc = "base" /\ ingest' = [ingest EXCEPT !.pc = "acquire", !.base = get_current_revision]
        /\ UNCHANGED <<documents, jobs>> /\ ~ingest.stale
    BY <1>2 DEF ReadBase, IngestAt, storeVars, FenceInv, Fence
  <2>2. /\ ingest'.pc = "acquire" /\ ingest'.base = get_current_revision /\ ~ingest'.stale
        /\ ingest'.version = ingest.version /\ ingest'.job = ingest.job
    BY <2>1 DEF LifeInv, OthersOK, Known, Ingestion
  <2>3. ActiveVersions # {} => get_current_revision # 0
    <3> SUFFICES ASSUME NEW v \in ActiveVersions PROVE get_current_revision # 0
      OBVIOUS
    <3>1. documents[v].revision \in Nat /\ documents[v].revision # 0 /\ v \in Rows
      BY DEF FenceInv, ActiveCounted, ActiveVersions, Rows, LifeInv, IInv, TypeOK, DocumentRow
    <3>2. documents[v].revision <= get_current_revision /\ get_current_revision \in Nat
      BY <3>1, CurrentRevision DEF LifeInv, IInv, RowsInv
    <3> QED BY <3>1, <3>2
  <2>4. /\ get_current_revision' = get_current_revision /\ ActiveVersions' = ActiveVersions
        /\ get_current_revision \in Nat
    BY <2>1, CurrentRevision DEF get_current_revision, Revisions, Rows, ActiveVersions, LifeInv, IInv, RowsInv
  <2>5. OwnRow' /\ OwnJob'
    BY <2>1, <2>2 DEF FenceInv, OwnRow, OwnJob, Building
  <2>6. Fence'
    BY <2>2, <2>3, <2>4 DEF Fence
  <2> QED BY <2>5, <2>6 DEF FenceInv
<1> QED BY <1>1, <1>2

\* The job row is inserted with the base revision that was read.
LEMMA FenceAcquired ==
    ASSUME LifeInv, LifeInv', FenceInv, ActiveCounted', _step_acquire
    PROVE  FenceInv'
<1>1. CASE ingest' = NoIngestion
  BY <1>1, FenceLeft DEF NoIngestion, Building
<1>2. CASE /\ acquire_job(ingest.job, ingest.version, Hash, ingest.acl, ingest.base, ingest.attempt, FALSE)
           /\ IngestGoto("stage_parents")
  <2>1. /\ ingest.version \in Versions /\ ingest.job \in Jobs /\ ingest.acl \in Acls
        /\ ingest.base \in Nat /\ ingest \in Ingestion /\ ingest.pc = "acquire"
    BY KnownParts DEF _step_acquire, IngestAt, LifeInv, OthersOK, Known
  <2>2. /\ ingest'.pc = "stage_parents" /\ ingest'.version = ingest.version /\ ingest'.job = ingest.job
        /\ ingest'.base = ingest.base /\ ingest'.stale = ingest.stale
    BY <1>2, <2>1 DEF IngestGoto, Ingestion
  <2>3. Stored
    BY <1>2, <2>1, HashAssumption DEF acquire_job, Stored
  <2>4. OwnRow'
    BY <1>2, <2>1, <2>2 DEF acquire_job, _upsert_document_build, FenceInv, OwnRow, Building,
                            LifeInv, IInv, TypeOK
  <2>5. OwnJob'
    <3>1. jobs[ingest.job].status = "absent"
      BY <2>1 DEF FenceInv, OwnJob
    <3>2. jobs'[ingest.job].base = ingest.base
      BY <1>2, <2>1, <3>1 DEF acquire_job, JobRowAfterAcquire, LifeInv, IInv, TypeOK
    <3> QED BY <2>2, <3>2 DEF OwnJob
  <2>6. get_current_revision' = get_current_revision /\ ActiveVersions' = ActiveVersions
    BY <2>3, RevisionKept DEF LifeInv
  <2>7. Fence'
    BY <2>1, <2>2, <2>6 DEF FenceInv, Fence, Building
  <2> QED BY <2>4, <2>5, <2>7 DEF FenceInv
<1> QED BY <1>1, <1>2 DEF _step_acquire

\* A rollback goes to a version that was active before.
Committed == \A s \in Scenarios : s.committed

LEMMA FenceStep ==
    ASSUME Stamps = Nat, Committed, LifeInv, FenceInv, [LifecycleNext]_lifecycleVars
    PROVE  FenceInv'
<1>1. LifeInv' /\ [Next]_storeVars
  BY LifeStep, LifeInvKept DEF InOrder
<1>2. ActiveCounted'
  BY <1>1, ActiveCountedKept DEF LifeInv, FenceInv
<1>3. ASSUME UNCHANGED ingest, UNCHANGED documents \/ Emptied,
             \A j \in Jobs : jobs'[j] = jobs[j] \/ jobs'[j].status = "absent"
      PROVE  FenceInv'
  <2>1. Kept \/ Gone \/ Grown
    BY <1>1, <1>3, RevisionMoves DEF LifeInv
  <2>2. OwnRow'
    BY <1>3, OwnRowKept DEF FenceInv
  <2> QED BY <1>1, <1>2, <1>3, <2>1, <2>2, FenceKept DEF FenceInv, Fence
<1>4. ASSUME UNCHANGED ingest, UNCHANGED storeVars PROVE FenceInv'
  BY <1>3, <1>4 DEF storeVars
<1>5. ASSUME NEW to, NEW v \in Versions, rollback(to, v) PROVE FenceInv'
  <2>1. rollback_active_version(v, None) /\ UNCHANGED ingest /\ UNCHANGED jobs
    BY <1>5 DEF rollback, rollback_active_version
  <2>2. scenario \in Scenarios
    BY DEF LifeInv, OthersOK, RestOK
  <2>3. documents[v].status \in {"active", "deprecated"}
    BY <1>5, <2>2 DEF rollback, Committed
  <2>4. \/ UNCHANGED documents
        \/ SwitchActive(v, get_current_revision + 1) /\ Switched /\ ActiveVersions # {}
    BY <2>1 DEF rollback_active_version, Switched
  <2>5. Kept \/ Gone \/ Grown
    BY <1>1, <2>4, RevisionMoves DEF LifeInv
  <2>6. OwnRow'
    BY <2>1, <2>3, <2>4, OwnRowKept DEF FenceInv
  <2> QED BY <1>1, <1>2, <2>1, <2>5, <2>6, FenceKept DEF FenceInv, Fence
<1>6. CASE ChangeRow
  <2>1. Stamped \/ UNCHANGED documents
    <3>1. Sound(Op)
      BY ThreadsApart DEF LifeInv, OthersOK, TasksOK, Op
    <3>2. CASE OpAt("delete_row") /\ logical_delete(Op.version)
      BY <3>1, <3>2, DeleteStamps DEF Sound, OneVersion, OpAt, LifeInv, IInv
    <3>3. CASE OpAt("acl_row") /\ update_document_acl(Op.version, Op.acl)
      BY <3>1, <3>3, AclStamps DEF Sound, OneVersion, OpAt, LifeInv, IInv
    <3> QED BY <1>6, <3>2, <3>3 DEF ChangeRow
  <2>2. UNCHANGED jobs
    BY <1>6 DEF ChangeRow, logical_delete, update_document_acl
  <2>3. CASE UNCHANGED documents
    BY <1>3, <1>6, <2>2, <2>3 DEF ChangeRow
  <2>4. CASE Stamped /\ documents' # documents
    <3>1. ingest' = [ingest EXCEPT !.stale = ingest.pc \notin {"idle", "base"}]
      BY <1>6, <2>4 DEF ChangeRow, MarkStale
    <3>2. /\ ingest'.pc = ingest.pc /\ ingest'.job = ingest.job /\ ingest'.base = ingest.base
          /\ ingest'.version = ingest.version /\ (ingest.pc = "base" => ~ingest'.stale)
      BY <3>1 DEF LifeInv, OthersOK, Known, Ingestion
    <3>3. Grown
      BY <1>1, <2>4, StampedGrows DEF LifeInv
    <3>4. OwnRow'
      BY <2>4, <3>2, OwnRowKept DEF FenceInv
    <3> QED BY <1>1, <1>2, <2>2, <3>2, <3>3, <3>4, FenceKept
  <2> QED BY <2>1, <2>3, <2>4
<1>7. ASSUME NEW th \in Threads, PurgeStep(th) PROVE FenceInv'
  <2>1. UNCHANGED ingest
    BY <1>7 DEF PurgeStep, ListVersions, PurgeData, delete_document, ForeignKeyFails, OnlyData
  <2>2. UNCHANGED documents \/ Emptied
    BY <1>7 DEF PurgeStep, ListVersions, PurgeData, delete_document, ForeignKeyFails, OnlyData,
                delete_document_builds, delete_document_jobs, delete_document_rows, Emptied, storeVars
  <2>3. UNCHANGED jobs \/ delete_document_jobs
    BY <1>7 DEF PurgeStep, ListVersions, PurgeData, delete_document, ForeignKeyFails, OnlyData,
                delete_document_builds, delete_document_rows, storeVars
  <2> QED BY <1>3, <2>1, <2>2, <2>3 DEF delete_document_jobs, NoJob
<1>8. CASE Ask
  <2>1. ASSUME NEW v \in Versions, NEW acl, Deliver(v, acl) PROVE FenceInv'
    BY <1>2, <2>1, FenceBegins
  <2>2. ASSUME NEW ctx \in Principals, NEW v \in Versions, NEW acl \in Acls \cup {None},
               update(ctx, v, acl)
        PROVE  FenceInv'
    BY <2>1, <2>2 DEF update
  <2>3. ASSUME NEW ctx, delete(ctx) \/ purge(ctx) \/ \E acl \in Acls : tighten_acl(ctx, acl)
        PROVE  FenceInv'
    BY <1>4, <2>3 DEF delete, purge, tighten_acl
  <2> QED BY <1>5, <1>8, <2>1, <2>2, <2>3 DEF Ask
<1>9. CASE Advance
  <2>1. CASE ReadBase
    BY <1>2, <2>1, FenceBegins
  <2>2. CASE _step_acquire
    BY <1>1, <1>2, <2>2, FenceAcquired
  <2>3. CASE /\ WriteStaged \/ _step_verify
             /\ ingest'.pc \in Building \ {"acquire"}
    <3>1. UNCHANGED storeVars /\ ingest \in Ingestion /\ ingest.pc \in Building \ {"acquire"}
          /\ \E place : IngestGoto(place)
      BY <2>3 DEF WriteStaged, _step_verify, IngestAt, LifeInv, OthersOK, Known, Building
    <3>2. /\ ingest'.job = ingest.job /\ ingest'.base = ingest.base /\ ingest'.stale = ingest.stale
          /\ ingest'.version = ingest.version
      BY <3>1 DEF IngestGoto, Ingestion
    <3>3. {ingest.pc, ingest'.pc} \subseteq Building \ {"acquire"}
      BY <2>3, <3>1 DEF Building
    <3>4. UNCHANGED <<documents, jobs>>
      BY <3>1 DEF storeVars
    <3>5. Kept \/ Gone \/ Grown
      BY <1>1, <3>4, RevisionMoves DEF LifeInv
    <3>6. OwnRow'
      BY <3>2, <3>3, <3>4, OwnRowKept DEF FenceInv
    <3>7. ingest.pc # "base"
      BY <3>1 DEF Building
    <3> QED BY <1>1, <1>2, <3>2, <3>3, <3>4, <3>5, <3>6, <3>7, FenceKept
  <2>4. CASE ingest'.pc \notin {"base"} \cup Building
    BY <1>2, <2>4, FenceLeft
  <2>5. ASSUME \/ WriteStaged \/ _step_verify \/ _step_commit \/ EnterPublish \/ PromotePoints
               \/ PromoteParents \/ ReadPrevious \/ RetirePrevious \/ _step_finalize
               \/ _compensate \/ EndFailed
        PROVE  \/ ingest'.pc \notin {"base"} \cup Building
               \/ (WriteStaged \/ _step_verify) /\ ingest'.pc \in Building \ {"acquire"}
    <3>1. ingest \in Ingestion
      BY DEF LifeInv, OthersOK, Known
    <3>2. \A place : IngestGoto(place) => ingest'.pc = place
      BY <3>1 DEF IngestGoto, Ingestion
    <3>3. NoIngestion.pc = "idle"
      BY DEF NoIngestion
    <3>4. CASE WriteStaged \/ _step_verify
      BY <3>2, <3>4 DEF WriteStaged, _step_verify, Building
    <3>5. CASE _step_commit \/ EnterPublish \/ PromotePoints \/ PromoteParents
      BY <3>2, <3>3, <3>5 DEF _step_commit, EnterPublish, PromotePoints, PromoteParents, Building
    <3>6. CASE ReadPrevious \/ RetirePrevious
      <4>1. ingest'.pc \in {"retire_parents", "retire_points", "finalize"}
        BY <3>1, <3>2, <3>6 DEF ReadPrevious, RetirePrevious, Ingestion
      <4> QED BY <4>1 DEF Building
    <3>7. CASE _step_finalize \/ _compensate \/ EndFailed
      BY <3>2, <3>3, <3>7 DEF _step_finalize, _compensate, EndFailed, Building
    <3> QED BY <2>5, <3>4, <3>5, <3>6, <3>7
  <2> QED BY <1>9, <2>1, <2>2, <2>3, <2>4, <2>5 DEF Advance
<1>10. CASE ResolveTarget \/ PatchPoints \/ PatchParents \/ CallFails \/ LeaseExpires
  BY <1>4, <1>10 DEF ResolveTarget, PatchPoints, PatchParents, CallFails, LeaseExpires, OnlyData
<1>11. CASE Reconcile
  <2>1. CASE PurgeStep("reconciler")
    BY <1>7, <2>1, ThreadsApart
  <2>2. CASE StartRun \/ scroll_all \/ ListParents \/ EndRun \/ rebuild_document
    BY <1>4, <2>2 DEF StartRun, scroll_all, ListParents, EndRun, rebuild_document, OnlyData
  <2>3. ASSUME NEW v \in Versions,
               RepairPoints(v) \/ RepairMissing(v) \/ RetryCleanup(v) \/ RepairParents(v)
        PROVE  FenceInv'
    BY <1>4, <2>3 DEF RepairPoints, RepairMissing, RetryCleanup, RepairParents, OnlyData
  <2> QED BY <1>11, <2>1, <2>2, <2>3 DEF Reconcile
<1>12. CASE IngestFails \/ Restart
  <2>1. ingest'.pc \in {"undo", "fail", "idle"}
    BY <1>12 DEF IngestFails, Restart, IngestGoto, NoIngestion, LifeInv, OthersOK, Known, Ingestion
  <2> QED BY <1>2, <2>1, FenceLeft DEF Building
<1>13. CASE UNCHANGED lifecycleVars
  BY <1>4, <1>13 DEF lifecycleVars, runVars
<1> QED
  BY <1>6, <1>7, <1>8, <1>9, <1>10, <1>11, <1>12, <1>13, ThreadsApart DEF LifecycleNext, Operate

\* Only the commit step goes from the place of the commit to the publishing.
LEMMA CommitPublishes ==
    ASSUME LifeInv, [LifecycleNext]_lifecycleVars, ingest.pc = "commit", ingest'.pc = "promote"
    PROVE  _step_commit /\ OwnsBuild
           /\ commit_active_version(ingest.version, jobs[ingest.job].base)
<1>1. ingest \in Ingestion
  BY DEF LifeInv, OthersOK, Known
<1>2. \A place : IngestGoto(place) => ingest'.pc = place
  BY <1>1 DEF IngestGoto, Ingestion
<1>3. NoIngestion.pc = "idle" /\ ingest' # ingest
  BY DEF NoIngestion
<1>4. ~MarkStale
  BY <1>1 DEF MarkStale, Ingestion
<1>5. _step_commit
  <2>1. ~Ask
    <3>1. ASSUME NEW v \in Versions, NEW acl PROVE ~Deliver(v, acl)
      BY DEF Deliver, IngestAt
    <3>2. ASSUME NEW ctx \in Principals, NEW v \in Versions, NEW acl PROVE ~update(ctx, v, acl)
      BY <3>1 DEF update
    <3> QED BY <1>3, <3>1, <3>2 DEF Ask, delete, purge, tighten_acl, rollback
  <2>2. ASSUME NEW th \in Threads PROVE ~PurgeStep(th)
    BY <1>3 DEF PurgeStep, ListVersions, PurgeData, delete_document, ForeignKeyFails, OnlyData
  <2>3. ~Operate
    BY <1>3, <1>4, <2>2, ThreadsApart
       DEF Operate, ResolveTarget, ChangeRow, PatchPoints, PatchParents, OnlyData
  <2>4. ~Reconcile
    <3>1. ASSUME NEW v \in Versions
          PROVE  ~(RepairPoints(v) \/ RepairMissing(v) \/ RetryCleanup(v) \/ RepairParents(v))
      BY <1>3 DEF RepairPoints, RepairMissing, RetryCleanup, RepairParents, OnlyData
    <3> QED BY <1>3, <2>2, <3>1, ThreadsApart
            DEF Reconcile, StartRun, scroll_all, ListParents, EndRun, rebuild_document, OnlyData
  <2>5. ~(LeaseExpires \/ IngestFails \/ CallFails \/ Restart \/ UNCHANGED lifecycleVars)
    BY <1>2, <1>3 DEF LeaseExpires, IngestFails, CallFails, Restart, lifecycleVars, runVars
  <2>6. Advance
    BY <2>1, <2>3, <2>4, <2>5 DEF LifecycleNext
  <2> QED BY <2>6 DEF Advance, ReadBase, _step_acquire, WriteStaged, _step_verify, EnterPublish,
                      PromotePoints, PromoteParents, ReadPrevious, RetirePrevious, _step_finalize,
                      _compensate, EndFailed, IngestAt
<1> QED BY <1>2, <1>3, <1>5 DEF _step_commit

\* An ingestion that read its base revision before a delete or a tightening never
\* makes its version active, unless a purge has removed its job row meanwhile.
\* That the row-local bump of logical_delete and update_document_acl suffices
\* rests on the active row holding the maximum (ActiveHasMaxRevision).
THEOREM StaleIsFencedHolds ==
    ASSUME Stamps = Nat, Committed
    PROVE  LifecycleSpec => StaleIsFenced
<1>1. LifecycleInit => FenceInv
  <2> SUFFICES ASSUME LifecycleInit PROVE FenceInv
    OBVIOUS
  <2>1. ActiveVersions = {}
    BY DEF LifecycleInit, Init, NoDocument, ActiveVersions
  <2>2. ingest.pc = "idle"
    BY NothingUnderWay DEF LifecycleInit
  <2> QED BY <2>1, <2>2 DEF FenceInv, ActiveCounted, OwnRow, OwnJob, Fence, Building
<1>2. LifeInv /\ FenceInv /\ [LifecycleNext]_lifecycleVars => FenceInv'
  BY FenceStep
<1>3. LifecycleSpec => [](LifeInv /\ FenceInv)
  BY <1>1, <1>2, LifeInvHolds, PTL DEF LifecycleSpec
<1>4. LifeInv /\ FenceInv /\ [LifecycleNext]_lifecycleVars
        => [IngestAt("commit") /\ ingest'.pc = "promote" /\ ingest.stale
               => jobs[ingest.job].status = "absent"]_lifecycleVars
  <2> SUFFICES ASSUME LifeInv, FenceInv, [LifecycleNext]_lifecycleVars,
                      ingest.pc = "commit", ingest'.pc = "promote", ingest.stale,
                      jobs[ingest.job].status # "absent"
               PROVE  FALSE
    BY DEF IngestAt
  <2>1. commit_active_version(ingest.version, jobs[ingest.job].base)
    BY CommitPublishes
  <2>2. jobs[ingest.job].base = ingest.base /\ documents[ingest.version].status # "active"
    BY DEF FenceInv, OwnJob, OwnRow, Building
  <2>3. get_current_revision = ingest.base
    BY <2>1, <2>2 DEF commit_active_version, CommitAccepted
  <2>4. get_current_revision \in Nat
    BY CurrentRevision DEF LifeInv, IInv, RowsInv
  <2>5. ingest.base < get_current_revision \/ get_current_revision < ingest.base
    BY DEF FenceInv, Fence, Building
  <2> QED BY <2>3, <2>4, <2>5
<1> QED BY <1>3, <1>4, PTL DEF LifecycleSpec, StaleIsFenced

(***************************************************************************)
(* Who is served: why no copy of an ACL is wider than that of the row.     *)
(*                                                                         *)
(* The parents are what the second authorization looks at.  An ingestion   *)
(* stages them with the ACL that its row gets; a tightening takes away     *)
(* from the row first, then from the parents; and the reconciler writes    *)
(* them anew with the ACL of the chunk rows, which is that of the row      *)
(* unless a tightening came in between.  So where documents are tightened, *)
(* a version that still has chunk rows must never lack points or parents   *)
(* when the reconciler comes by: this is what a fault, or a run of the     *)
(* reconciler beside an ingestion, would bring about.  And where they are  *)
(* not, no purge may let another ACL in while the reconciler rebuilds.     *)
(***************************************************************************)

\* A document is tightened only where nothing raises and no process ends, and
\* where the reconciler is run while nothing else is under way.  Where purge() is
\* called, too, it is run so, or all deliveries give one ACL.
Sheltered ==
    \A s \in Scenarios :
        /\ "tighten_acl" \in s.calls => s.quiet /\ s.troubles = 0
        /\ "purge" \in s.calls => s.quiet \/ \A a, b \in s.acls : a = b

\* The callers are principals whose clearances go downwards.
Callers == \A ctx \in Principals : Principal(ctx) /\ Cleared(ctx)

\* The document has one tenant.
OneTenant == \A a, b \in Acls : ResourceAcl(a) /\ a.tenant_id = b.tenant_id

Tightens == "tighten_acl" \in scenario.calls
Within(a, b) == \A ctx \in Principals : evaluate_access(ctx, a) => evaluate_access(ctx, b)
Released(v) == documents[v].status \in {"active", "deprecated"}
Whole(v) == points[v].status # "none" /\ parents[v].status # "none"
AclPlaces == {"acl_row", "acl_points", "acl_parents"}
PurgePlaces == {"purge_list", "purge_points", "purge_parents", "purge_chunks", "purge_builds",
                "purge_jobs", "purge_rows"}
Written == {"stage_points", "stage_chunks", "verify", "commit"}
Staged == {"stage_parents"} \cup Written
Unbuilt == {"base", "acquire"}

\* A purge that has taken the points of a version has its chunk rows to come.
Purging(v) ==
    \E t \in Threads : task[t].pc \in {"purge_parents", "purge_chunks"} /\ task[t].version = v

Alone ==
    /\ Tightens => scenario.quiet
    /\ scenario.quiet => RecAt("idle") \/ (OpAt("idle") /\ IngestAt("idle"))

\* A tightening under way takes away from what its row allows, and only what is
\* asked for is under way.
Tightening ==
    /\ Op.pc \in AclPlaces =>
          Tightens /\ Released(Op.version) /\ Within(Op.acl, documents[Op.version].acl)
    /\ Op.pc \in PurgePlaces => "purge" \in scenario.calls

\* The row of a build has the ACL that the build was asked for,
OwnAcl ==
    /\ ingest.pc # "idle" => ingest.acl \in scenario.acls
    /\ ingest.pc \in Unbuilt => documents[ingest.version].status = "absent"
    /\ ingest.pc \in Staged
         => \/ documents[ingest.version].status = "absent"
            \/ documents[ingest.version].acl = ingest.acl
    /\ ingest.pc \in UndoPlaces => ~Released(ingest.version)

\* and so have the parents that the build has staged.
StagedAcl ==
    /\ ingest.pc \in Written /\ parents[ingest.version].status # "none"
         => parents[ingest.version].acl = ingest.acl
    /\ Tightens /\ ingest.pc = "commit"
         => chunks[ingest.version] = None \/ Whole(ingest.version) \/ Purging(ingest.version)

\* Chunk rows refer to a row, and only a tightening makes their ACL another one.
ChunkAcl(v) ==
    chunks[v] # None =>
        /\ documents[v].status # "absent"
        /\ chunks[v] \in scenario.acls
        /\ ~Tightens => chunks[v] = documents[v].acl

\* The parents of a version that was committed, and what its chunk rows are beside.
VersionAcl(v) ==
    Released(v) =>
        /\ parents[v].status # "none"
             => Within(parents[v].acl, documents[v].acl) \/ TighteningActive(v)
        /\ Tightens => chunks[v] = None \/ Whole(v) \/ Purging(v)

\* What the reconciler rebuilds has the ACL of its row, unless it was purged.
Rebuilt ==
    Rec.pc \in Rebuilding =>
        /\ ~Tightens /\ Rec.acl \in scenario.acls
        /\ \/ documents[Rec.version].status = "absent" /\ "purge" \in scenario.calls
           \/ documents[Rec.version].status # "absent" /\ documents[Rec.version].acl = Rec.acl

\* The reconciler removes or rebuilds nothing that a build has just published.
Viewed ==
    Tightens =>
        /\ ~RecAt("idle") => Rows \subseteq view.known
        /\ Rec.pc \in {"scroll", "points", "missing"} => \A v \in view.active : Released(v)
        /\ Rec.pc \in {"points", "missing"}
             => \A v \in Versions \ view.present : Released(v) => chunks[v] = None
        /\ Rec.pc = "missing" => Rec.todo \subseteq view.active

ServeInv ==
    /\ Alone /\ Tightening /\ OwnAcl /\ StagedAcl
    /\ \A v \in Versions : ChunkAcl(v) /\ VersionAcl(v)
    /\ Rebuilt /\ Viewed

-----------------------------------------------------------------------------
LEMMA ServeInit == ASSUME Sheltered PROVE LifecycleInit => ServeInv
<1> SUFFICES ASSUME LifecycleInit PROVE ServeInv
  OBVIOUS
<1>1. \A v \in Versions : documents[v].status = "absent" /\ chunks[v] = None
  BY DEF LifecycleInit, Init, NoDocument
<1>2. ingest.pc = "idle" /\ \A t \in Threads : task[t].pc = "idle"
  BY NothingUnderWay DEF LifecycleInit
<1>3. Op.pc = "idle" /\ Rec.pc = "idle"
  BY <1>2, ThreadsApart DEF Op, Rec
<1>4. Tightens => scenario.quiet
  BY DEF LifecycleInit, Sheltered, Tightens
<1>5. Alone /\ Tightening /\ Rebuilt
  BY <1>3, <1>4 DEF Alone, Tightening, Rebuilt, Rebuilding, AclPlaces, PurgePlaces, RecAt
<1>6. OwnAcl /\ StagedAcl
  BY <1>2 DEF OwnAcl, StagedAcl, Unbuilt, Staged, Written, UndoPlaces
<1>7. \A v \in Versions : ChunkAcl(v) /\ VersionAcl(v)
  BY <1>1 DEF ChunkAcl, VersionAcl, Released
<1>8. Viewed
  BY <1>3 DEF Viewed, RecAt
<1> QED BY <1>5, <1>6, <1>7, <1>8 DEF ServeInv

\* Where documents are tightened nothing goes wrong.
LEMMA TightenedScenario ==
    ASSUME Sheltered, LifeInv, Tightens
    PROVE  ~Trouble
<1>1. scenario \in Scenarios
  BY DEF LifeInv, OthersOK, RestOK
<1>2. scenario.troubles = 0 /\ troubles \in Nat
  BY <1>1, ScenarioParts DEF Sheltered, Tightens, LifeInv, OthersOK
<1> QED BY <1>2 DEF Trouble

\* What a thread of the operator or the reconciler does leaves the other's task.
LEMMA OtherTask ==
    ASSUME LifeInv, NEW th \in Threads, NEW t, task' = [task EXCEPT ![th] = t]
    PROVE  task'[th] = t /\ \A u \in Threads \ {th} : task'[u] = task[u]
BY DEF LifeInv, OthersOK, TasksOK

LEMMA TaskGoes ==
    ASSUME LifeInv, NEW th \in Threads, NEW place, Now(th, place)
    PROVE  /\ task'[th].pc = place /\ task'[th].version = task[th].version
           /\ task'[th].acl = task[th].acl
           /\ \A u \in Threads \ {th} : task'[u] = task[u]
<1>1. task \in [Threads -> Task] /\ task[th] \in Task
  BY DEF LifeInv, OthersOK, TasksOK
<1>2. task' = [task EXCEPT ![th] = [task[th] EXCEPT !.pc = place]]
  BY DEF Now
<1>3. task'[th] = [task[th] EXCEPT !.pc = place]
  BY <1>1, <1>2
<1>4. /\ task'[th].pc = place /\ task'[th].version = task[th].version
      /\ task'[th].acl = task[th].acl
  BY <1>1, <1>3 DEF Task
<1> QED BY <1>1, <1>2, <1>4

\* Every row has an ACL.
RowAcl == \A v \in Rows : documents[v].acl \in Acls

LEMMA RowAclKept ==
    ASSUME TypeOK, RowAcl, [Next]_storeVars
    PROVE  RowAcl'
<1>0. /\ documents \in [Versions -> DocumentRow]
      /\ \A v \in Versions : documents[v].status # "absent" => documents[v].acl \in Acls
  BY DEF TypeOK, RowAcl, Rows
<1>1. ASSUME \A v \in Versions : documents'[v].status # "absent" =>
                \/ documents'[v].acl \in Acls
                \/ documents[v].status # "absent" /\ documents'[v].acl = documents[v].acl
      PROVE  RowAcl'
  BY <1>0, <1>1 DEF RowAcl, Rows
<1>2. CASE UNCHANGED documents
  BY <1>1, <1>2
<1>3. ASSUME NEW j \in Jobs, NEW v \in Versions, NEW h \in Hashes, NEW acl \in Acls,
             NEW base \in Stamps, NEW a \in Attempts, NEW recover \in BOOLEAN,
             acquire_job(j, v, h, acl, base, a, recover)
      PROVE  RowAcl'
  BY <1>0, <1>1, <1>3 DEF acquire_job, _upsert_document_build
<1>4. ASSUME NEW v \in Rows, NEW r, SwitchActive(v, r) PROVE RowAcl'
  <2>1. v \in Versions /\ documents[v].status # "absent"
    BY DEF Rows
  <2>2. \A w \in Versions : documents'[w].acl = documents[w].acl
    BY <1>4, <2>1, SwitchedRows
  <2>3. \A w \in Versions : documents'[w].status # "absent" => documents[w].status # "absent"
    BY <1>4, <2>1, SwitchedRows
  <2> QED BY <1>1, <2>2, <2>3
<1>5. ASSUME NEW v \in Versions, NEW e, commit_active_version(v, e) \/ rollback_active_version(v, e)
      PROVE  RowAcl'
  BY <1>2, <1>4, <1>5 DEF commit_active_version, rollback_active_version, CommitAccepted
<1>6. ASSUME NEW v \in Versions, logical_delete(v) PROVE RowAcl'
  <2> DEFINE t == DeleteTarget(v)
  <2>1. t = None \/ (t \in Versions /\ documents[t].status # "absent")
    BY ActiveVersionType DEF DeleteTarget, ActiveVersions
  <2>2. CASE t = None
    BY <1>2, <1>6, <2>2 DEF logical_delete
  <2>3. CASE t # None
    <3>1. documents' = [documents EXCEPT ![t].status = "deleted",
                                         ![t].revision = documents[t].revision + 1]
      BY <1>6, <2>3 DEF logical_delete
    <3> HIDE DEF t
    <3>2. \A w \in Versions : documents'[w].acl = documents[w].acl
      BY <1>0, <2>1, <2>3, <3>1 DEF DocumentRow
    <3>3. \A w \in Versions : documents'[w].status # "absent" => documents[w].status # "absent"
      BY <1>0, <2>1, <2>3, <3>1 DEF DocumentRow
    <3> QED BY <1>1, <3>2, <3>3
  <2> QED BY <2>2, <2>3
<1>7. ASSUME NEW v \in Versions, NEW acl \in Acls, update_document_acl(v, acl) PROVE RowAcl'
  <2>1. CASE documents[v].status = "active"
    <3>1. documents' = [documents EXCEPT ![v].acl = acl, ![v].revision = documents[v].revision + 1]
      BY <1>7, <2>1 DEF update_document_acl
    <3>2. \A w \in Versions : documents'[w].acl \in {acl, documents[w].acl}
                           /\ documents'[w].status = documents[w].status
      BY <1>0, <3>1 DEF DocumentRow
    <3> QED BY <1>1, <3>2
  <2> QED BY <1>2, <1>7, <2>1 DEF update_document_acl
<1>8. ASSUME NEW v \in Versions, mark_document_failed(v) PROVE RowAcl'
  BY <1>0, <1>1, <1>8 DEF mark_document_failed, DocumentRow
<1>9. CASE delete_document_rows
  BY <1>1, <1>9 DEF delete_document_rows, NoDocument
<1>10. ASSUME NEW j, NEW s, mark_job_terminal(j, s) PROVE RowAcl'
  BY <1>2, <1>10 DEF mark_job_terminal
<1>11. CASE delete_document_builds \/ delete_document_jobs
  BY <1>2, <1>11 DEF delete_document_builds, delete_document_jobs
<1>12. CASE UNCHANGED storeVars
  BY <1>2, <1>12 DEF storeVars
<1> QED
  BY <1>3, <1>5, <1>6, <1>7, <1>8, <1>9, <1>10, <1>11, <1>12 DEF Next

-----------------------------------------------------------------------------
(* What most steps do: they take away, or leave things as they are.        *)

\* A row keeps its ACL or goes, and it goes in a purge, after its chunk rows.
RowKept(v) ==
    /\ documents'[v].status # "absent"
         => documents[v].status # "absent" /\ documents'[v].acl = documents[v].acl
    /\ documents'[v].status = "absent"
         => \/ documents[v].status = "absent"
            \/ chunks[v] = None /\ ("purge" \in scenario.calls \/ Rec.pc \notin Rebuilding)

\* No row is released, either.
RowFades(v) == RowKept(v) /\ (documents'[v].status \in {"active", "deprecated"} => Released(v))

\* The parents go or keep their ACL, and so do the chunk rows.  The only points
\* and parents that go while chunk rows stay are those of a version that is not
\* released, nor about to be, or those whose chunk rows a purge will remove.
PlanesFade(v) ==
    /\ parents'[v].status # "none" => parents[v].status # "none" /\ parents'[v].acl = parents[v].acl
    /\ \/ chunks'[v] = None
       \/ /\ chunks'[v] = chunks[v]
          /\ Tightens /\ Whole(v)
               => \/ points'[v].status # "none" /\ parents'[v].status # "none"
                  \/ (Purging(v))'
                  \/ ~Released(v) /\ ~(ingest.pc = "commit" /\ ingest.version = v)

PurgingStays(v) == Tightens /\ Purging(v) => (Purging(v))' \/ chunks'[v] = None

LEMMA ChunksFade ==
    ASSUME NEW v \in Versions, ChunkAcl(v), UNCHANGED scenario, RowKept(v), PlanesFade(v)
    PROVE  ChunkAcl(v)'
<1> SUFFICES ASSUME chunks'[v] # None PROVE ChunkAcl(v)'
  BY DEF ChunkAcl
<1>1. chunks'[v] = chunks[v] /\ Tightens' = Tightens
  BY DEF PlanesFade, Tightens
<1>2. documents'[v].status # "absent" /\ documents'[v].acl = documents[v].acl
  BY <1>1 DEF RowKept, ChunkAcl
<1> QED BY <1>1, <1>2 DEF ChunkAcl

LEMMA VersionFades ==
    ASSUME NEW v \in Versions, VersionAcl(v), UNCHANGED scenario, RowFades(v), PlanesFade(v),
           TighteningActive(v) => (TighteningActive(v))', PurgingStays(v)
    PROVE  VersionAcl(v)'
<1> SUFFICES ASSUME documents'[v].status \in {"active", "deprecated"}
             PROVE  VersionAcl(v)'
  BY DEF VersionAcl, Released
<1>1. /\ Released(v) /\ documents'[v].acl = documents[v].acl
      /\ Tightens' = Tightens
  BY DEF RowFades, RowKept, Tightens
<1>2. parents'[v].status # "none"
         => Within(parents'[v].acl, documents'[v].acl) \/ (TighteningActive(v))'
  BY <1>1 DEF VersionAcl, PlanesFade
<1>3. Tightens => \/ chunks'[v] = None
                  \/ points'[v].status # "none" /\ parents'[v].status # "none"
                  \/ (Purging(v))'
  BY <1>1 DEF VersionAcl, PlanesFade, PurgingStays
<1> QED BY <1>1, <1>2, <1>3 DEF VersionAcl, Whole, Within

\* What is staged stays as it is, or goes.
LEMMA StagedFades ==
    ASSUME LifeInv, StagedAcl, \A v \in Versions : PlanesFade(v) /\ PurgingStays(v),
           UNCHANGED scenario,
           \/ ingest'.pc \notin Written
           \/ /\ ingest'.version = ingest.version /\ ingest'.acl = ingest.acl
              /\ ingest.pc \in Written /\ (ingest'.pc = "commit" => ingest.pc = "commit")
    PROVE  StagedAcl'
<1> SUFFICES ASSUME ingest'.pc \in Written PROVE StagedAcl'
  BY DEF StagedAcl, Written
<1>1. /\ ingest'.version = ingest.version /\ ingest'.acl = ingest.acl /\ Tightens' = Tightens
      /\ ingest.pc \in Written /\ (ingest'.pc = "commit" => ingest.pc = "commit")
  BY DEF Tightens
<1>2. PICK v \in Versions : v = ingest.version
  BY <1>1, KnownParts DEF LifeInv, OthersOK, Written
<1>3. /\ parents[v].status # "none" => parents[v].acl = ingest.acl
      /\ Tightens /\ ingest.pc = "commit" => chunks[v] = None \/ Whole(v) \/ Purging(v)
  BY <1>1, <1>2 DEF StagedAcl
<1>4. parents'[v].status # "none" => parents'[v].acl = ingest.acl
  BY <1>2, <1>3 DEF PlanesFade
<1>5. Tightens /\ ingest'.pc = "commit"
         => \/ chunks'[v] = None
            \/ points'[v].status # "none" /\ parents'[v].status # "none"
            \/ (Purging(v))'
  BY <1>1, <1>2, <1>3 DEF PlanesFade, PurgingStays
<1>6. /\ parents'[ingest'.version].status # "none" => parents'[ingest'.version].acl = ingest'.acl
      /\ Tightens' /\ ingest'.pc = "commit"
           => \/ chunks'[ingest'.version] = None
              \/ Whole(ingest.version)'
              \/ Purging(ingest.version)'
  BY <1>1, <1>2, <1>4, <1>5 DEF Whole, Purging
<1> QED BY <1>6 DEF StagedAcl

\* The row of the build stays as it is, or goes.
LEMMA OwnAclStays ==
    ASSUME LifeInv, OwnAcl, UNCHANGED scenario,
           ingest.pc # "idle" => RowFades(ingest.version),
           \/ ingest'.pc = "idle"
           \/ /\ ingest.pc # "idle"
              /\ ingest'.version = ingest.version /\ ingest'.acl = ingest.acl
              /\ \/ ingest'.pc \notin Unbuilt \cup Staged \cup UndoPlaces
                 \/ ingest'.pc = ingest.pc
                 \/ {ingest.pc, ingest'.pc} \subseteq Unbuilt
                 \/ {ingest.pc, ingest'.pc} \subseteq Staged
                 \/ ingest'.pc \in UndoPlaces /\ ~Released(ingest.version)
    PROVE  OwnAcl'
<1>1. CASE ingest'.pc = "idle"
  BY <1>1 DEF OwnAcl, Unbuilt, Staged, Written, UndoPlaces
<1>2. CASE ingest'.pc # "idle"
  <2> DEFINE v == ingest.version
  <2>1. /\ ingest.pc # "idle" /\ ingest'.version = v /\ ingest'.acl = ingest.acl
        /\ RowFades(v) /\ ingest.acl \in scenario.acls
    BY <1>2 DEF OwnAcl
  <2>2. ingest'.pc \in Unbuilt => documents'[v].status = "absent"
    <3>1. ingest'.pc \in Unbuilt => ingest.pc \in Unbuilt
      BY <1>2 DEF Unbuilt, Staged, Written, UndoPlaces
    <3> QED BY <2>1, <3>1 DEF OwnAcl, RowFades, RowKept
  <2>3. ingest'.pc \in Staged => documents'[v].status = "absent" \/ documents'[v].acl = ingest.acl
    <3>1. ingest'.pc \in Staged => ingest.pc \in Staged
      BY <1>2 DEF Unbuilt, Staged, Written, UndoPlaces
    <3> QED BY <2>1, <3>1 DEF OwnAcl, RowFades, RowKept
  <2>4. ingest'.pc \in UndoPlaces => documents'[v].status \notin {"active", "deprecated"}
    <3>1. ingest'.pc \in UndoPlaces => ~Released(v)
      BY <1>2 DEF OwnAcl, Unbuilt, Staged, Written, UndoPlaces
    <3> QED BY <2>1, <3>1 DEF RowFades
  <2> QED BY <2>1, <2>2, <2>3, <2>4 DEF OwnAcl, Released
<1> QED BY <1>1, <1>2

\* A step of the operator or of the ingestion, or a call, has the reconciler
\* idle where the reconciler is quiet.
LEMMA AloneStays ==
    ASSUME ServeInv, UNCHANGED scenario, scenario.quiet => RecAt("idle"),
           task'["reconciler"] = task["reconciler"]
    PROVE  Alone' /\ Viewed'
BY DEF ServeInv, Alone, Viewed, Tightens, RecAt, Rec

LEMMA TighteningStays ==
    ASSUME Tightening, UNCHANGED scenario,
           \/ task'["operator"].pc \notin AclPlaces
           \/ /\ Op.pc \in AclPlaces => documents'[Op.version] = documents[Op.version]
              /\ Op.pc \in AclPlaces
              /\ task'["operator"].version = Op.version /\ task'["operator"].acl = Op.acl,
           task'["operator"].pc \in PurgePlaces => Op.pc \in PurgePlaces \/ "purge" \in scenario.calls
    PROVE  Tightening'
<1>1. (Op.pc \in PurgePlaces => "purge" \in scenario.calls)'
  BY DEF Tightening, Op
<1>2. CASE task'["operator"].pc \notin AclPlaces
  BY <1>1, <1>2 DEF Tightening, Op
<1>3. CASE /\ Op.pc \in AclPlaces /\ documents'[Op.version] = documents[Op.version]
           /\ task'["operator"].version = Op.version /\ task'["operator"].acl = Op.acl
  <2>1. Tightens /\ Released(Op.version) /\ Within(Op.acl, documents[Op.version].acl)
    BY <1>3 DEF Tightening
  <2>2. (Op.pc \in AclPlaces =>
            Tightens /\ Released(Op.version) /\ Within(Op.acl, documents[Op.version].acl))'
    BY <1>3, <2>1 DEF Op, Tightens, Released, Within
  <2> QED BY <1>1, <2>2 DEF Tightening
<1> QED BY <1>2, <1>3

LEMMA RebuiltStays ==
    ASSUME LifeInv, Rebuilt, UNCHANGED scenario,
           Rec.pc \in Rebuilding => RowKept(Rec.version),
           \/ task'["reconciler"].pc \notin Rebuilding
           \/ /\ Rec.pc \in Rebuilding
              /\ task'["reconciler"].version = Rec.version /\ task'["reconciler"].acl = Rec.acl
    PROVE  Rebuilt'
<1> SUFFICES ASSUME task'["reconciler"].pc \in Rebuilding PROVE Rebuilt'
  BY DEF Rebuilt, Rec
<1>1. /\ Rec.pc \in Rebuilding /\ RowKept(Rec.version)
      /\ task'["reconciler"].version = Rec.version /\ task'["reconciler"].acl = Rec.acl
  OBVIOUS
<1>2. /\ ~Tightens /\ Rec.acl \in scenario.acls
      /\ \/ documents[Rec.version].status = "absent" /\ "purge" \in scenario.calls
         \/ documents[Rec.version].status # "absent" /\ documents[Rec.version].acl = Rec.acl
  BY <1>1 DEF Rebuilt
<1>3. \/ documents'[Rec.version].status = "absent" /\ "purge" \in scenario.calls
      \/ documents'[Rec.version].status # "absent" /\ documents'[Rec.version].acl = Rec.acl
  BY <1>1, <1>2 DEF RowKept
<1>4. Rec' = task'["reconciler"]
  BY DEF Rec
<1> QED BY <1>1, <1>2, <1>3, <1>4 DEF Rebuilt, Tightens

\* The ingestion stays where it is or leaves the build; the operator stays where
\* he is or was, and is, at no tightening.
IngestSettles ==
    \/ ingest'.pc = "idle"
    \/ /\ ingest.pc # "idle"
       /\ ingest'.version = ingest.version /\ ingest'.acl = ingest.acl
       /\ \/ ingest'.pc = ingest.pc
          \/ ingest'.pc \notin Unbuilt \cup Staged \cup UndoPlaces
          \/ ingest'.pc \in UndoPlaces /\ ~Released(ingest.version)
          \/ {ingest.pc, ingest'.pc} \subseteq Unbuilt
          \/ {ingest.pc, ingest'.pc} \subseteq Written /\ ingest'.pc # "commit"

OperatorSettles ==
    \/ /\ task'["operator"] = task["operator"]
       /\ Op.pc \in AclPlaces => documents'[Op.version] = documents[Op.version]
    \/ /\ Op.pc \notin AclPlaces /\ task'["operator"].pc \notin AclPlaces
       /\ task'["operator"].pc \in PurgePlaces => Op.pc \in PurgePlaces \/ "purge" \in scenario.calls

RebuildSettles ==
    \/ task'["reconciler"] = task["reconciler"]
    \/ task'["reconciler"].pc \notin Rebuilding
    \/ /\ Rec.pc \in Rebuilding
       /\ task'["reconciler"].version = Rec.version /\ task'["reconciler"].acl = Rec.acl

LEMMA Settles ==
    ASSUME LifeInv, ServeInv, UNCHANGED scenario,
           \A v \in Versions : RowFades(v) /\ PlanesFade(v) /\ PurgingStays(v),
           IngestSettles, OperatorSettles, RebuildSettles
    PROVE  /\ Tightening' /\ OwnAcl' /\ StagedAcl' /\ Rebuilt'
           /\ \A v \in Versions : ChunkAcl(v)' /\ VersionAcl(v)'
<1>1. Tightening'
  BY TighteningStays DEF ServeInv, OperatorSettles, Op
<1>2. OwnAcl'
  <2>1. ingest.pc # "idle" => RowFades(ingest.version)
    BY KnownParts DEF LifeInv, OthersOK
  <2> QED BY <2>1, OwnAclStays DEF ServeInv, IngestSettles, Staged
<1>3. StagedAcl'
  BY StagedFades DEF ServeInv, IngestSettles, Staged, Written, Unbuilt, UndoPlaces
<1>4. Rebuilt'
  <2>1. Rec.pc \in Rebuilding => RowKept(Rec.version)
    BY ThreadsApart DEF LifeInv, OthersOK, TasksOK, Sound, Rec, RowFades
  <2> QED BY <2>1, RebuiltStays DEF ServeInv, RebuildSettles, Rec
<1>5. ASSUME NEW v \in Versions PROVE ChunkAcl(v)' /\ VersionAcl(v)'
  <2>1. TighteningActive(v) => (TighteningActive(v))'
    BY DEF OperatorSettles, TighteningActive, Op, AclPlaces
  <2> QED BY <2>1, ChunksFade, VersionFades DEF ServeInv, RowFades
<1> QED BY <1>1, <1>2, <1>3, <1>4, <1>5

LEMMA RowsStay ==
    ASSUME UNCHANGED documents
    PROVE  \A v \in Versions : RowFades(v)
BY DEF RowFades, RowKept, Released

LEMMA PlanesStay ==
    ASSUME UNCHANGED <<points, parents, chunks>>
    PROVE  \A v \in Versions : PlanesFade(v)
BY DEF PlanesFade, Whole

LEMMA TasksStay ==
    ASSUME UNCHANGED task
    PROVE  \A v \in Versions : PurgingStays(v)
BY DEF PurgingStays, Purging

\* A status is set, or a version's data go.
LEMMA StatusSet ==
    ASSUME LifeInv, NEW v \in Versions,
           \/ UNCHANGED points
           \/ \E s \in PointStatus \ {"none"} : points' = SetStatus(points, v, s)
           \/ \E s \in PointStatus \ {"none"}, a \in Acls :
                 points' = [points EXCEPT ![v] = [status |-> s, acl |-> a]]
           \/ \E a \in Acls : points' = SetAcl(points, v, a),
           \/ UNCHANGED parents
           \/ \E s \in ParentStatus \ {"none"} : parents' = SetStatus(parents, v, s),
           UNCHANGED chunks
    PROVE  \A w \in Versions : PlanesFade(w)
<1>1. /\ points \in [Versions -> [status : PointStatus, acl : Acls \cup {None}]]
      /\ parents \in [Versions -> [status : ParentStatus, acl : Acls \cup {None}]]
  BY DEF LifeInv, OthersOK, PlanesOK
<1> SUFFICES ASSUME NEW w \in Versions PROVE PlanesFade(w)
  OBVIOUS
<1>2. points[w].status # "none" => points'[w].status # "none"
  <2>1. ASSUME NEW s \in PointStatus \ {"none"}, points' = SetStatus(points, v, s)
        PROVE  points[w].status # "none" => points'[w].status # "none"
    BY <1>1, <2>1 DEF SetStatus
  <2>2. ASSUME NEW a \in Acls, points' = SetAcl(points, v, a)
        PROVE  points[w].status # "none" => points'[w].status # "none"
    BY <1>1, <2>2 DEF SetAcl
  <2>3. ASSUME NEW s \in PointStatus \ {"none"}, NEW a \in Acls,
               points' = [points EXCEPT ![v] = [status |-> s, acl |-> a]]
        PROVE  points[w].status # "none" => points'[w].status # "none"
    BY <1>1, <2>3
  <2> QED BY <2>1, <2>2, <2>3
<1>3. /\ parents'[w].status # "none" <=> parents[w].status # "none"
      /\ parents'[w].acl = parents[w].acl
  BY <1>1 DEF SetStatus
<1> QED BY <1>2, <1>3 DEF PlanesFade, Whole

-----------------------------------------------------------------------------
(* The ingestion.                                                          *)

\* Nothing is done to the planes or to the rows, and the tasks stay.
LEMMA AllStays ==
    ASSUME LifeInv, ServeInv, UNCHANGED <<documents, points, parents, chunks, task, scenario>>
    PROVE  /\ Tightening' /\ Rebuilt'
           /\ \A v \in Versions : ChunkAcl(v)' /\ VersionAcl(v)'
<1>1. \A v \in Versions : RowFades(v) /\ PlanesFade(v) /\ PurgingStays(v)
  BY RowsStay, PlanesStay, TasksStay
<1>2. Tightening'
  BY TighteningStays DEF ServeInv, Op
<1>3. Rebuilt'
  BY <1>1, RebuiltStays, ThreadsApart DEF ServeInv, LifeInv, OthersOK, TasksOK, Sound, Rec, RowFades
<1>4. ASSUME NEW v \in Versions PROVE ChunkAcl(v)' /\ VersionAcl(v)'
  <2>1. TighteningActive(v) => (TighteningActive(v))'
    BY DEF TighteningActive, Op
  <2> QED BY <1>1, <2>1, ChunksFade, VersionFades DEF ServeInv, RowFades
<1> QED BY <1>2, <1>3, <1>4

\* A delivery is of a version without a row.
LEMMA ServeDelivered ==
    ASSUME LifeInv, ServeInv, NEW v \in Versions, NEW acl, Deliver(v, acl)
    PROVE  ServeInv'
<1>1. /\ ingest'.pc = "base" /\ ingest'.version = v /\ ingest'.acl = acl
      /\ documents[v].status = "absent" /\ MayStart /\ acl \in scenario.acls
      /\ UNCHANGED <<documents, points, parents, chunks, task, view, scenario>>
  BY DEF Deliver, Counted, NoIngestion, storeVars, planeVars
<1>2. Alone' /\ Viewed'
  BY <1>1, AloneStays DEF MayStart
<1>3. OwnAcl' /\ StagedAcl'
  BY <1>1 DEF OwnAcl, StagedAcl, Unbuilt, Staged, Written, UndoPlaces
<1> QED BY <1>1, <1>2, <1>3, AllStays DEF ServeInv

\* A quiet reconciler waits for the ingestion to end.
LEMMA IngestAlone ==
    ASSUME ServeInv, ingest.pc # "idle", UNCHANGED <<scenario, task>>
    PROVE  Alone' /\ Viewed'
BY AloneStays DEF ServeInv, Alone, IngestAt

\* The ingestion goes on: version and ACL stay.
LEMMA IngestGoes ==
    ASSUME LifeInv, NEW place, IngestGoto(place)
    PROVE  ingest'.pc = place /\ ingest'.version = ingest.version /\ ingest'.acl = ingest.acl
BY DEF IngestGoto, LifeInv, OthersOK, Known, Ingestion

\* The base revision is read, or the ingestion leaves its build, or it goes on
\* behind the commit: what is done to the planes takes away or leaves.
LEMMA IngestSettled ==
    ASSUME LifeInv, ServeInv, ingest.pc # "idle", UNCHANGED <<scenario, task>>,
           \A v \in Versions : RowFades(v) /\ PlanesFade(v), IngestSettles,
           Op.pc \in AclPlaces => documents'[Op.version] = documents[Op.version]
    PROVE  ServeInv'
<1>1. \A v \in Versions : PurgingStays(v)
  BY TasksStay
<1>2. /\ Tightening' /\ OwnAcl' /\ StagedAcl' /\ Rebuilt'
      /\ \A v \in Versions : ChunkAcl(v)' /\ VersionAcl(v)'
  BY <1>1, Settles DEF OperatorSettles, RebuildSettles
<1>3. Alone' /\ Viewed'
  BY IngestAlone
<1> QED BY <1>2, <1>3 DEF ServeInv

LEMMA ServeReadBase ==
    ASSUME LifeInv, ServeInv, ReadBase
    PROVE  ServeInv'
<1>1. /\ ingest.pc = "base" /\ ingest'.pc = "acquire" /\ ingest'.version = ingest.version
      /\ ingest'.acl = ingest.acl
      /\ UNCHANGED <<documents, points, parents, chunks, task, scenario>>
  BY DEF ReadBase, IngestAt, LifeInv, OthersOK, Known, Ingestion, storeVars, planeVars, boundVars
<1> QED BY <1>1, RowsStay, PlanesStay, IngestSettled DEF IngestSettles, Unbuilt

\* The row is inserted with the ACL of the request.
LEMMA ServeAcquired ==
    ASSUME Sheltered, LifeInv, ServeInv, _step_acquire
    PROVE  ServeInv'
<1>1. PICK v \in Versions : v = ingest.version
  BY KnownParts DEF _step_acquire, IngestAt, LifeInv, OthersOK
<1>2. /\ ingest.pc = "acquire" /\ ingest.acl \in Acls /\ ingest.acl \in scenario.acls
      /\ documents[v].status = "absent" /\ chunks[v] = None
      /\ UNCHANGED <<points, parents, chunks, task, scenario>>
  <2>1. ingest.pc = "acquire" /\ UNCHANGED <<points, parents, chunks, task, scenario>>
    BY DEF _step_acquire, IngestAt, boundVars
  <2>2. ingest.acl \in Acls /\ ingest.acl \in scenario.acls /\ documents[v].status = "absent"
    BY <1>1, <2>1, KnownParts DEF LifeInv, OthersOK, ServeInv, OwnAcl, Unbuilt
  <2> QED BY <2>1, <2>2 DEF ServeInv, ChunkAcl
<1>3. CASE ingest' = NoIngestion /\ UNCHANGED storeVars
  <2>1. ingest'.pc = "idle" /\ UNCHANGED documents
    BY <1>3 DEF NoIngestion, storeVars
  <2> QED BY <1>2, <2>1, RowsStay, PlanesStay, IngestSettled DEF IngestSettles
<1>4. CASE /\ acquire_job(ingest.job, v, Hash, ingest.acl, ingest.base, ingest.attempt, FALSE)
           /\ IngestGoto("stage_parents")
  <2>1. ingest'.pc = "stage_parents" /\ ingest'.version = v /\ ingest'.acl = ingest.acl
    BY <1>1, <1>4, IngestGoes
  <2>2. documents' = [documents EXCEPT ![v] = [status |-> "processing",
                         revision |-> documents[v].revision, hash |-> Hash, acl |-> ingest.acl]]
    BY <1>2, <1>4 DEF acquire_job, _upsert_document_build
  <2>3. /\ documents'[v].status = "processing" /\ documents'[v].acl = ingest.acl
        /\ \A w \in Versions : w # v => documents'[w] = documents[w]
    BY <2>2 DEF LifeInv, IInv, TypeOK
  <2>4. OwnAcl' /\ StagedAcl'
    BY <1>2, <2>1, <2>3 DEF OwnAcl, StagedAcl, Unbuilt, Staged, Written, UndoPlaces
  <2>5. Tightening'
    <3>1. Op.pc \in AclPlaces => Released(Op.version) /\ Op.version \in Versions
      BY ThreadsApart DEF ServeInv, Tightening, AclPlaces, LifeInv, OthersOK, TasksOK, Sound, Op, OneVersion
    <3>2. Op.pc \in AclPlaces => documents'[Op.version] = documents[Op.version]
      BY <1>2, <2>3, <3>1 DEF Released
    <3> QED BY <1>2, <3>2, TighteningStays DEF ServeInv, Op
  <2>6. Rebuilt'
    <3> SUFFICES ASSUME Rec.pc \in Rebuilding PROVE Rebuilt'
      BY <1>2 DEF Rebuilt, Rec
    <3>1. Rec.version \in Versions
      BY ThreadsApart DEF LifeInv, OthersOK, TasksOK, Sound, Rec
    <3>2. CASE Rec.version = v
      <4>1. ~Tightens /\ Rec.acl \in scenario.acls /\ "purge" \in scenario.calls
        BY <1>2, <3>2 DEF ServeInv, Rebuilt
      <4>2. ~scenario.quiet
        BY <1>2 DEF ServeInv, Alone, RecAt, IngestAt, Rebuilding
      <4>3. Rec.acl = ingest.acl
        BY <1>2, <4>1, <4>2 DEF Sheltered, LifeInv, OthersOK, RestOK
      <4>4. Rec' = Rec /\ Tightens' = Tightens
        BY <1>2 DEF Rec, Tightens
      <4> QED BY <1>2, <2>3, <3>2, <4>1, <4>3, <4>4 DEF Rebuilt
    <3>3. CASE Rec.version # v
      <4>1. RowKept(Rec.version)
        BY <2>3, <3>1, <3>3 DEF RowKept
      <4> QED BY <1>2, <4>1, RebuiltStays DEF ServeInv, Rec
    <3> QED BY <3>2, <3>3
  <2>7. ASSUME NEW w \in Versions PROVE ChunkAcl(w)' /\ VersionAcl(w)'
    <3>1. CASE w = v
      BY <1>2, <2>3, <3>1 DEF ChunkAcl, VersionAcl, Released
    <3>2. CASE w # v
      <4>1. RowFades(w)
        BY <2>3, <3>2 DEF RowFades, RowKept, Released
      <4>2. PlanesFade(w) /\ PurgingStays(w)
        BY <1>2, PlanesStay, TasksStay
      <4>3. TighteningActive(w) => (TighteningActive(w))'
        BY <1>2 DEF TighteningActive, Op
      <4> QED BY <1>2, <4>1, <4>2, <4>3, ChunksFade, VersionFades DEF ServeInv, RowFades
    <3> QED BY <3>1, <3>2
  <2>8. Alone' /\ Viewed'
    BY <1>2, IngestAlone
  <2> QED BY <2>4, <2>5, <2>6, <2>7, <2>8 DEF ServeInv
<1> QED BY <1>1, <1>3, <1>4 DEF _step_acquire

\* A build that fails is not one of a released version.
LEMMA BuildIsUnreleased ==
    ASSUME FenceInv, ingest.pc \in Staged
    PROVE  ~Released(ingest.version)
BY DEF FenceInv, OwnRow, Building, Released, Staged, Written

\* What is staged has the ACL of the request.
LEMMA ServeStaged ==
    ASSUME LifeInv, ServeInv, FenceInv, WriteStaged
    PROVE  ServeInv'
<1>1. /\ ingest.pc \in StagePlaces /\ ingest.pc \in Staged
      /\ UNCHANGED <<documents, task, scenario>>
  BY DEF WriteStaged, IngestAt, boundVars, storeVars, StagePlaces, Staged, Written
<1>2. PICK v \in Versions : v = ingest.version
  BY <1>1, KnownParts DEF LifeInv, OthersOK, StagePlaces
<1>3. /\ ~Released(v) /\ ingest.acl \in Acls /\ ingest.acl \in scenario.acls
      /\ documents[v].status = "absent" \/ documents[v].acl = ingest.acl
  BY <1>1, <1>2, KnownParts, BuildIsUnreleased
     DEF LifeInv, OthersOK, ServeInv, OwnAcl, StagePlaces
<1>4. CASE IngestGoto("undo") /\ UNCHANGED <<points, parents, chunks>>
  BY <1>1, <1>2, <1>3, <1>4, IngestGoes, RowsStay, PlanesStay, IngestSettled
     DEF IngestSettles, UndoPlaces, StagePlaces
<1>5. CASE /\ ingest.pc = "stage_points" /\ IngestGoto("stage_chunks")
           /\ points' = [points EXCEPT ![v] = [status |-> "processing", acl |-> ingest.acl]]
           /\ UNCHANGED <<parents, chunks>>
  <2>1. \A w \in Versions : PlanesFade(w)
    BY <1>3, <1>5, StatusSet, Words
  <2> QED
    BY <1>1, <1>5, <2>1, IngestGoes, RowsStay, IngestSettled DEF IngestSettles, Written
<1>6. CASE /\ \/ /\ ingest.pc = "stage_parents" /\ IngestGoto("stage_points")
                 /\ parents' = [parents EXCEPT ![v] = [status |-> "active", acl |-> ingest.acl]]
                 /\ UNCHANGED <<points, chunks>>
              \/ /\ ingest.pc = "stage_chunks" /\ IngestGoto("verify")
                 /\ documents[v].status # "absent"
                 /\ chunks' = [chunks EXCEPT ![v] = ingest.acl]
                 /\ UNCHANGED <<points, parents>>
  <2>1. /\ ingest'.pc \in {"stage_points", "verify"}
        /\ ingest'.version = v /\ ingest'.acl = ingest.acl
    BY <1>2, <1>6, IngestGoes
  <2>2. /\ parents'[v].status # "none" => parents'[v].acl = ingest.acl
        /\ chunks'[v] # chunks[v]
             => chunks'[v] = ingest.acl /\ documents[v].status # "absent"
        /\ \A w \in Versions : w # v => /\ parents'[w] = parents[w] /\ points'[w] = points[w]
                                        /\ chunks'[w] = chunks[w]
    <3>1. /\ ingest.pc = "stage_chunks" /\ parents[v].status # "none"
               => parents[v].acl = ingest.acl
      BY <1>2 DEF ServeInv, StagedAcl, Written
    <3>2. /\ points \in [Versions -> [status : PointStatus, acl : Acls \cup {None}]]
          /\ parents \in [Versions -> [status : ParentStatus, acl : Acls \cup {None}]]
          /\ chunks \in [Versions -> Acls \cup {None}]
      BY DEF LifeInv, OthersOK, PlanesOK
    <3>3. CASE ingest.pc = "stage_parents"
      BY <1>6, <3>2, <3>3
    <3>4. CASE ingest.pc = "stage_chunks"
      BY <1>6, <3>1, <3>2, <3>4
    <3> QED BY <1>6, <3>3, <3>4
  <2>3. OwnAcl'
    <3>1. {ingest.pc, ingest'.pc} \subseteq Staged /\ ingest.pc # "idle"
      BY <1>1, <2>1 DEF Staged, Written, StagePlaces
    <3> QED BY <1>1, <1>2, <2>1, <3>1, RowsStay, OwnAclStays DEF ServeInv
  <2>4. StagedAcl'
    BY <2>1, <2>2 DEF StagedAcl, Written
  <2>5. Tightening'
    BY <1>1, TighteningStays DEF ServeInv, Op
  <2>6. Rebuilt'
    BY <1>1, RowsStay, RebuiltStays, ThreadsApart
       DEF ServeInv, LifeInv, OthersOK, TasksOK, Sound, Rec, RowFades
  <2>7. ASSUME NEW w \in Versions PROVE ChunkAcl(w)' /\ VersionAcl(w)'
    <3>1. CASE w = v
      <4>1. VersionAcl(w)'
        BY <1>1, <1>3, <3>1 DEF VersionAcl, Released
      <4>2. CASE chunks'[v] = chunks[v]
        BY <1>1, <3>1, <4>1, <4>2 DEF ServeInv, ChunkAcl, Tightens
      <4>3. CASE chunks'[v] = ingest.acl /\ documents[v].status # "absent"
        BY <1>1, <1>3, <3>1, <4>1, <4>3 DEF ChunkAcl, Tightens
      <4> QED BY <2>2, <4>2, <4>3
    <3>2. CASE w # v
      <4>1. RowFades(w) /\ PlanesFade(w) /\ PurgingStays(w)
        BY <1>1, <2>2, <3>2, RowsStay, TasksStay DEF PlanesFade, Whole
      <4>2. TighteningActive(w) => (TighteningActive(w))'
        BY <1>1 DEF TighteningActive, Op
      <4> QED BY <1>1, <4>1, <4>2, ChunksFade, VersionFades DEF ServeInv, RowFades
    <3> QED BY <3>1, <3>2
  <2>8. Alone' /\ Viewed'
    BY <1>1, IngestAlone DEF StagePlaces
  <2> QED BY <2>3, <2>4, <2>5, <2>6, <2>7, <2>8 DEF ServeInv
<1> QED BY <1>2, <1>4, <1>5, <1>6 DEF WriteStaged, IngestAt

\* A build that is verified has points and parents.
LEMMA ServeVerified ==
    ASSUME LifeInv, ServeInv, FenceInv, _step_verify
    PROVE  ServeInv'
<1>1. /\ ingest.pc = "verify"
      /\ UNCHANGED <<documents, points, parents, chunks, task, scenario>>
  BY DEF _step_verify, IngestAt, boundVars, storeVars, planeVars
<1>2. CASE IngestGoto("undo")
  <2>1. ~Released(ingest.version)
    BY <1>1, BuildIsUnreleased DEF Staged, Written
  <2> QED
    BY <1>1, <1>2, <2>1, IngestGoes, RowsStay, PlanesStay, IngestSettled DEF IngestSettles, UndoPlaces
<1>3. CASE /\ IngestGoto("commit") /\ parents[ingest.version].status # "none"
           /\ points[ingest.version].status = "processing"
  <2>1. ingest'.pc = "commit" /\ ingest'.version = ingest.version /\ ingest'.acl = ingest.acl
    BY <1>3, IngestGoes
  <2>2. StagedAcl'
    <3>1. parents[ingest.version].acl = ingest.acl /\ Whole(ingest.version)
      BY <1>1, <1>3 DEF ServeInv, StagedAcl, Whole, Written
    <3> QED BY <1>1, <2>1, <3>1 DEF StagedAcl, Whole
  <2>3. OwnAcl'
    <3>1. ingest.pc # "idle" => RowFades(ingest.version)
      BY <1>1, RowsStay, KnownParts DEF LifeInv, OthersOK
    <3>2. {ingest.pc, ingest'.pc} \subseteq Staged
      BY <1>1, <2>1 DEF Staged, Written
    <3> QED BY <1>1, <2>1, <3>1, <3>2, OwnAclStays DEF ServeInv
  <2>4. Alone' /\ Viewed'
    BY <1>1, IngestAlone
  <2> QED BY <1>1, <2>2, <2>3, <2>4, AllStays DEF ServeInv
<1> QED BY <1>2, <1>3 DEF _step_verify

\* The switch releases the version that was built, whose row, parents and chunk
\* rows have the ACL of the request.
LEMMA ServeCommitted ==
    ASSUME LifeInv, ServeInv, FenceInv, _step_commit
    PROVE  ServeInv'
<1>1. /\ ingest.pc = "commit"
      /\ UNCHANGED <<points, parents, chunks, task, scenario>>
  BY DEF _step_commit, IngestAt, boundVars, planeVars
<1>2. PICK v \in Versions : v = ingest.version
  BY <1>1, KnownParts DEF LifeInv, OthersOK
<1>3. ~Released(v)
  BY <1>1, <1>2, BuildIsUnreleased DEF Staged, Written
<1>4. CASE UNCHANGED documents
  <2>1. CASE ingest' = NoIngestion
    BY <1>1, <1>4, <2>1, RowsStay, PlanesStay, IngestSettled, NothingUnderWay DEF IngestSettles
  <2>2. CASE IngestGoto("promote")
    BY <1>1, <1>4, <2>2, IngestGoes, RowsStay, PlanesStay, IngestSettled
       DEF IngestSettles, Unbuilt, Staged, Written, UndoPlaces
  <2>3. CASE IngestGoto("undo")
    BY <1>1, <1>2, <1>3, <1>4, <2>3, IngestGoes, RowsStay, PlanesStay, IngestSettled
       DEF IngestSettles, UndoPlaces
  <2> QED BY <2>1, <2>2, <2>3 DEF _step_commit
<1>5. CASE SwitchActive(v, get_current_revision + 1) /\ v \in Rows /\ IngestGoto("promote")
  <2>1. ingest'.pc = "promote" /\ ingest'.acl = ingest.acl
    BY <1>5, IngestGoes
  <2>2. /\ documents'[v].acl = documents[v].acl /\ documents'[v].status # "absent"
        /\ \A w \in Versions : w # v =>
             /\ documents'[w].acl = documents[w].acl
             /\ documents'[w].status = "absent" <=> documents[w].status = "absent"
             /\ documents'[w].status \in {"active", "deprecated"} <=> Released(w)
    BY <1>5, SwitchedRows DEF LifeInv, IInv, Released
  <2>3. OwnAcl' /\ StagedAcl'
    <3>1. ingest.acl \in scenario.acls
      BY <1>1 DEF ServeInv, OwnAcl
    <3> QED BY <1>1, <2>1, <3>1 DEF OwnAcl, StagedAcl, Staged, Written, Unbuilt, UndoPlaces
  <2>4. Tightening'
    <3>1. Op.pc \in AclPlaces => Released(Op.version) /\ Op.version \in Versions
      BY ThreadsApart DEF ServeInv, Tightening, AclPlaces, LifeInv, OthersOK, TasksOK, Sound, Op, OneVersion
    <3>2. Op.pc \in AclPlaces =>
             /\ Tightens /\ Within(Op.acl, documents'[Op.version].acl)
             /\ documents'[Op.version].status \in {"active", "deprecated"}
      BY <1>3, <2>2, <3>1 DEF ServeInv, Tightening
    <3>3. Op.pc \in PurgePlaces => "purge" \in scenario.calls
      BY DEF ServeInv, Tightening
    <3>4. Op' = Op /\ scenario' = scenario
      BY <1>1 DEF Op
    <3> QED BY <3>2, <3>3, <3>4 DEF Tightening, Tightens, Released, Within
  <2>5. \A w \in Versions : RowKept(w)
    <3>1. documents[v].status # "absent"
      BY <1>5 DEF Rows
    <3> QED BY <2>2, <3>1 DEF RowKept
  <2>6. Rebuilt'
    BY <1>1, <2>5, RebuiltStays, ThreadsApart
       DEF ServeInv, LifeInv, OthersOK, TasksOK, Sound, Rec
  <2>7. ASSUME NEW w \in Versions PROVE ChunkAcl(w)' /\ VersionAcl(w)'
    <3>1. PlanesFade(w) /\ PurgingStays(w)
      BY <1>1, PlanesStay, TasksStay
    <3>2. ChunkAcl(w)'
      BY <1>1, <2>5, <3>1, ChunksFade DEF ServeInv
    <3>3. CASE w = v
      <4>1. documents[v].acl = ingest.acl
        BY <1>1, <1>2, <1>5 DEF ServeInv, OwnAcl, Staged, Written, Rows
      <4>2. /\ parents[v].status # "none" => parents[v].acl = documents'[v].acl
            /\ Tightens => chunks[v] = None \/ Whole(v) \/ Purging(v)
        BY <1>1, <1>2, <2>2, <4>1 DEF ServeInv, StagedAcl, Written
      <4> QED BY <1>1, <3>2, <3>3, <4>2 DEF VersionAcl, Whole, Within, Tightens, Purging
    <3>4. CASE w # v
      <4>1. RowFades(w)
        BY <2>2, <2>5, <3>4 DEF RowFades
      <4>2. TighteningActive(w) => (TighteningActive(w))'
        BY <1>1 DEF TighteningActive, Op
      <4> QED BY <1>1, <3>1, <3>2, <4>1, <4>2, VersionFades DEF ServeInv
    <3> QED BY <3>3, <3>4
  <2>8. Alone' /\ Viewed'
    BY <1>1, IngestAlone
  <2> QED BY <2>3, <2>4, <2>6, <2>7, <2>8 DEF ServeInv
<1> QED BY <1>2, <1>4, <1>5 DEF _step_commit, commit_active_version, CommitAccepted, storeVars

\* Publishing sets statuses; the points, written anew, stay points.
LEMMA ServePublished ==
    ASSUME LifeInv, ServeInv,
           EnterPublish \/ PromotePoints \/ PromoteParents \/ ReadPrevious \/ RetirePrevious
    PROVE  ServeInv'
<1>1. /\ ingest.pc \in PublishPlaces
      /\ UNCHANGED <<documents, chunks, task, scenario>>
  BY DEF EnterPublish, PromotePoints, PromoteParents, ReadPrevious, RetirePrevious, IngestAt,
         boundVars, storeVars, planeVars, PublishPlaces
<1>a. ingest.pc # "idle"
  BY <1>1 DEF PublishPlaces
<1>2. /\ ingest.version \in Versions /\ ingest.acl \in Acls
      /\ ingest.pc \in RetirePlaces => ingest.previous \in Versions
  BY <1>a, KnownParts DEF LifeInv, OthersOK, Known
<1>3. IngestSettles
  <2>1. ASSUME NEW place \in {"fail", "promote_points", "promote_parents", "retire",
                              "retire_points", "finalize"}, IngestGoto(place)
        PROVE  IngestSettles
    BY <1>a, <2>1, IngestGoes DEF IngestSettles, Unbuilt, Staged, Written, UndoPlaces
  <2>2. CASE ingest' = NoIngestion
    BY <2>2, NothingUnderWay DEF IngestSettles
  <2>3. ASSUME NEW p, ingest' = [ingest EXCEPT !.pc = "retire_parents", !.previous = p]
        PROVE  IngestSettles
    <3>1. /\ ingest'.pc = "retire_parents" /\ ingest'.version = ingest.version
          /\ ingest'.acl = ingest.acl
      BY <2>3 DEF LifeInv, OthersOK, Known, Ingestion
    <3> QED BY <1>a, <3>1 DEF IngestSettles, Unbuilt, Staged, Written, UndoPlaces
  <2> QED
    BY <2>1, <2>2, <2>3 DEF EnterPublish, PromotePoints, PromoteParents, ReadPrevious, RetirePrevious
<1>4. \A w \in Versions : PlanesFade(w)
  <2>1. CASE PromotePoints
    BY <1>1, <1>2, <2>1, StatusSet, Words DEF PromotePoints
  <2>2. CASE PromoteParents
    BY <1>1, <1>2, <2>2, StatusSet, Words DEF PromoteParents
  <2>3. CASE RetirePrevious
    <3>1. ingest.previous \in Versions
      BY <1>2, <2>3 DEF RetirePrevious, IngestAt, RetirePlaces
    <3>2. \/ parents' = SetStatus(parents, ingest.previous, "inactive") /\ UNCHANGED points
          \/ /\ points' = [points EXCEPT ![ingest.previous] = [status |-> "inactive", acl |-> ingest.acl]]
             /\ UNCHANGED parents
      BY <2>3 DEF RetirePrevious
    <3> QED BY <1>1, <1>2, <3>1, <3>2, StatusSet, Words
  <2>4. CASE UNCHANGED <<points, parents>>
    BY <1>1, <2>4, PlanesStay
  <2> QED BY <2>1, <2>2, <2>3, <2>4 DEF EnterPublish, ReadPrevious, planeVars
<1> QED BY <1>1, <1>a, <1>3, <1>4, RowsStay, IngestSettled

\* The job ends, or a build is to be undone.
LEMMA ServeEnded ==
    ASSUME LifeInv, ServeInv, FenceInv, _step_finalize \/ EndFailed \/ IngestFails
    PROVE  ServeInv'
<1>1. ingest.pc # "idle" /\ UNCHANGED <<documents, points, parents, chunks, task, scenario>>
  BY DEF _step_finalize, EndFailed, IngestFails, IngestAt, boundVars, Trouble, mark_job_terminal,
         storeVars, planeVars
<1>2. IngestSettles
  <2>1. CASE ingest' = NoIngestion
    BY <2>1, NothingUnderWay DEF IngestSettles
  <2>2. CASE IngestGoto("fail")
    BY <1>1, <2>2, IngestGoes DEF IngestSettles, Unbuilt, Staged, Written, UndoPlaces
  <2>3. CASE ingest.pc \in {"stage_parents", "stage_points", "verify"} /\ IngestGoto("undo")
    BY <1>1, <2>3, IngestGoes, BuildIsUnreleased DEF IngestSettles, Staged, Written, UndoPlaces
  <2> QED BY <2>1, <2>2, <2>3 DEF _step_finalize, EndFailed, IngestFails
<1> QED BY <1>1, <1>2, RowsStay, PlanesStay, IngestSettled

\* What a build has staged goes, plane after plane; its version is not released.
LEMMA ServeCompensated ==
    ASSUME LifeInv, ServeInv, _compensate
    PROVE  ServeInv'
<1>1. ingest.pc \in UndoPlaces /\ ingest.pc # "idle" /\ UNCHANGED <<task, scenario>>
  BY DEF _compensate, IngestAt, boundVars, UndoPlaces
<1>2. PICK v \in Versions : v = ingest.version
  BY <1>1, KnownParts DEF LifeInv, OthersOK
<1>3. ~Released(v) /\ ingest.pc # "commit"
  BY <1>1, <1>2 DEF ServeInv, OwnAcl, UndoPlaces
<1>4. IngestSettles
  <2>1. PICK place \in {"undo_points", "undo_parents", "undo_chunks", "undo_row", "fail"} :
           IngestGoto(place)
    BY DEF _compensate
  <2> QED
    BY <1>1, <1>2, <1>3, <2>1, IngestGoes DEF IngestSettles, Unbuilt, Staged, Written, UndoPlaces
<1>5. /\ \A w \in Versions : RowFades(w)
      /\ Op.pc \in AclPlaces => documents'[Op.version] = documents[Op.version]
  <2>1. CASE UNCHANGED documents
    BY <2>1, RowsStay
  <2>2. CASE mark_document_failed(v)
    <3>1. \A w \in Versions :
             /\ documents'[w].acl = documents[w].acl
             /\ documents'[w].status = "absent" <=> documents[w].status = "absent"
             /\ documents'[w].status \in {"active", "deprecated"} => documents'[w] = documents[w]
             /\ Released(w) => documents'[w] = documents[w]
      BY <1>1, <2>2 DEF mark_document_failed, Released, LifeInv, IInv, TypeOK, DocumentRow
    <3>2. Op.pc \in AclPlaces => Released(Op.version) /\ Op.version \in Versions
      BY ThreadsApart DEF ServeInv, Tightening, AclPlaces, LifeInv, OthersOK, TasksOK, Sound, Op, OneVersion
    <3> QED BY <3>1, <3>2 DEF RowFades, RowKept, Released
  <2> QED BY <1>2, <2>1, <2>2 DEF _compensate, storeVars
<1>6. ASSUME NEW w \in Versions PROVE PlanesFade(w)
  <2>1. CASE UNCHANGED <<points, parents, chunks>>
    BY <2>1, PlanesStay
  <2>2. CASE points' = [points EXCEPT ![v] = Nowhere] /\ UNCHANGED <<parents, chunks>>
    <3>1. w # v => points'[w] = points[w]
      BY <2>2 DEF LifeInv, OthersOK, PlanesOK
    <3> QED BY <1>3, <2>2, <3>1 DEF PlanesFade, Whole
  <2>3. CASE parents' = [parents EXCEPT ![v] = Nowhere] /\ UNCHANGED <<points, chunks>>
    <3>1. /\ w # v => parents'[w] = parents[w]
          /\ w = v => parents'[w].status = "none"
      BY <2>3 DEF LifeInv, OthersOK, PlanesOK, Nowhere
    <3> QED BY <1>3, <2>3, <3>1 DEF PlanesFade, Whole
  <2>4. CASE chunks' = [chunks EXCEPT ![v] = None] /\ UNCHANGED <<points, parents>>
    <3>1. chunks'[w] = IF w = v THEN None ELSE chunks[w]
      BY <2>4 DEF LifeInv, OthersOK, PlanesOK
    <3> QED BY <2>4, <3>1 DEF PlanesFade, Whole
  <2> QED BY <1>2, <2>1, <2>2, <2>3, <2>4 DEF _compensate
<1> QED BY <1>1, <1>4, <1>5, <1>6, IngestSettled

-----------------------------------------------------------------------------
(* The operator.                                                           *)

\* A quiet reconciler waits for the operator too.
LEMMA OperatorAlone ==
    ASSUME ServeInv, MayStart \/ Op.pc # "idle", UNCHANGED scenario,
           task'["reconciler"] = task["reconciler"]
    PROVE  Alone' /\ Viewed'
<1>1. scenario.quiet => RecAt("idle")
  BY DEF ServeInv, Alone, OpAt, MayStart
<1> QED BY <1>1, AloneStays

\* No purge of the operator is under way, and none of the reconciler where
\* documents are tightened.
LEMMA NoPurge ==
    ASSUME LifeInv, ServeInv, MayStart \/ Op.pc # "idle", Op.pc \notin PurgePlaces
    PROVE  \A v \in Versions : Tightens => ~Purging(v)
<1>1. Tightens => Rec.pc = "idle"
  BY DEF ServeInv, Alone, OpAt, RecAt, MayStart
<1> QED BY <1>1 DEF Purging, Threads, Op, Rec, PurgePlaces

\* What the operator does takes away or leaves.
LEMMA OperatorSettled ==
    ASSUME LifeInv, ServeInv, MayStart \/ Op.pc # "idle", UNCHANGED scenario,
           task'["reconciler"] = task["reconciler"],
           \A v \in Versions : RowFades(v) /\ PlanesFade(v),
           Op.pc \in PurgePlaces => \A v \in Versions : PurgingStays(v),
           IngestSettles, OperatorSettles
    PROVE  ServeInv'
<1>1. \A v \in Versions : PurgingStays(v)
  BY NoPurge DEF PurgingStays
<1> QED BY <1>1, Settles, OperatorAlone DEF ServeInv, RebuildSettles

\* delete() and purge() are called.
LEMMA ServeCalled ==
    ASSUME LifeInv, ServeInv, NEW ctx, delete(ctx) \/ purge(ctx)
    PROVE  ServeInv'
<1>1. /\ Op.pc = "idle" /\ MayStart
      /\ UNCHANGED <<documents, points, parents, chunks, ingest, scenario>>
  BY DEF delete, purge, Call, OpAt, Counted, storeVars, planeVars
<1>2. PICK t : /\ task' = [task EXCEPT !["operator"] = t]
               /\ t.pc = "delete_row" \/ (t.pc = "purge_list" /\ "purge" \in scenario.calls)
  <2> DEFINE g == get_document_latest
  <2>1. CASE delete(ctx)
    <3>1. [NoTask EXCEPT !.pc = "delete_row", !.version = g, !.acl = None]
            = [pc |-> "delete_row", version |-> g, other |-> None, acl |-> None,
               todo |-> {}, listed |-> {}]
      BY Begun, Zenon
    <3> QED BY <2>1, <3>1 DEF delete, OpBegin
  <2>2. CASE purge(ctx)
    <3>1. [NoTask EXCEPT !.pc = "purge_list", !.version = None, !.acl = None]
            = [pc |-> "purge_list", version |-> None, other |-> None, acl |-> None,
               todo |-> {}, listed |-> {}]
      BY Begun, Zenon
    <3> QED BY <2>2, <3>1 DEF purge, Call, OpBegin
  <2> QED BY <2>1, <2>2
<1>3. /\ task'["operator"].pc \in {"delete_row", "purge_list"}
      /\ task'["operator"].pc = "purge_list" => "purge" \in scenario.calls
      /\ task'["reconciler"] = task["reconciler"]
  BY <1>2, OtherTask, ThreadsApart
<1> QED
  BY <1>1, <1>3, RowsStay, PlanesStay, OperatorSettled
     DEF IngestSettles, OperatorSettles, AclPlaces, PurgePlaces

\* tighten_acl() is called for the active version, with an ACL that takes away
\* from that of its row.
LEMMA ServeTightened ==
    ASSUME Callers, OneTenant, LifeInv, RowAcl, ServeInv,
           NEW ctx \in Principals, NEW acl \in Acls, tighten_acl(ctx, acl)
    PROVE  ServeInv'
<1> DEFINE g == get_active_version
           t == [pc |-> "acl_row", version |-> g, other |-> None, acl |-> acl,
                 todo |-> {}, listed |-> {}]
<1>1. /\ Op.pc = "idle" /\ MayStart /\ Tightens
      /\ UNCHANGED <<documents, points, parents, chunks, ingest, scenario>>
  BY DEF tighten_acl, Call, OpAt, Counted, storeVars, planeVars, Tightens
<1>2. task'["operator"] = t /\ task'["reconciler"] = task["reconciler"]
  <2>1. [NoTask EXCEPT !.pc = "acl_row", !.version = g, !.acl = acl] = t
    BY Begun, Zenon
  <2>2. task' = [task EXCEPT !["operator"] = t]
    BY <2>1, Zenon DEF tighten_acl, OpBegin
  <2> QED BY <2>2, OtherTask, ThreadsApart
<1>3. g \in Versions /\ documents[g].status = "active" /\ is_acl_tightening(documents[g].acl, acl)
  BY DEF tighten_acl, get_active_version, ActiveVersions
<1>4. Within(acl, documents[g].acl)
  <2>1. documents[g].acl \in Acls
    BY <1>3 DEF RowAcl, Rows
  <2> QED BY <1>3, <2>1, TighteningNeverWidens DEF Within, Callers, OneTenant
<1>5. Tightening'
  BY <1>1, <1>2, <1>3, <1>4 DEF Tightening, Op, Tightens, Released, Within, PurgePlaces
<1>a. \A w \in Versions : RowFades(w) /\ PlanesFade(w) /\ PurgingStays(w)
  BY <1>1, RowsStay, PlanesStay, NoPurge DEF PurgingStays, PurgePlaces
<1>6. OwnAcl' /\ StagedAcl' /\ Rebuilt'
  <2>1. OwnAcl'
    BY <1>1, <1>a, KnownParts, OwnAclStays DEF ServeInv, LifeInv, OthersOK
  <2>2. StagedAcl'
    BY <1>1, <1>a, StagedFades DEF ServeInv
  <2>3. Rebuilt'
    BY <1>1, <1>2, <1>a, RebuiltStays, ThreadsApart
       DEF ServeInv, LifeInv, OthersOK, TasksOK, Sound, Rec, RowFades
  <2> QED BY <2>1, <2>2, <2>3
<1>7. ASSUME NEW w \in Versions PROVE ChunkAcl(w)' /\ VersionAcl(w)'
  <2>1. TighteningActive(w) => (TighteningActive(w))'
    BY <1>1 DEF TighteningActive
  <2> QED BY <1>1, <1>a, <2>1, ChunksFade, VersionFades DEF ServeInv, RowFades
<1>8. Alone' /\ Viewed'
  BY <1>1, <1>2, OperatorAlone
<1> QED BY <1>5, <1>6, <1>7, <1>8 DEF ServeInv

\* A rollback goes to a version that was released before.
LEMMA ServeRolledBack ==
    ASSUME Committed, LifeInv, ServeInv,
           NEW to \in Versions \cup {None}, NEW v \in Versions, rollback(to, v)
    PROVE  ServeInv'
<1>1. /\ Op.pc = "idle" /\ MayStart /\ rollback_active_version(v, None)
      /\ UNCHANGED <<points, parents, chunks, ingest, scenario>>
  BY DEF rollback, Call, OpAt, Counted, planeVars
<1>2. task'["operator"].pc \in {"target", "activate_points"}
      /\ task'["reconciler"] = task["reconciler"]
  <2> DEFINE t == [pc |-> IF to = None THEN "target" ELSE "activate_points", version |-> to,
                   other |-> get_active_version, acl |-> None, todo |-> {}, listed |-> {}]
  <2>1. [NoTask EXCEPT !.pc = IF to = None THEN "target" ELSE "activate_points",
                       !.version = to, !.other = get_active_version] = t
    BY BegunRollback, Zenon
  <2>2. task' = [task EXCEPT !["operator"] = t]
    BY <2>1, Zenon DEF rollback
  <2>3. t.pc \in {"target", "activate_points"}
    OBVIOUS
  <2> HIDE DEF t
  <2>4. task'["operator"] = t /\ task'["reconciler"] = task["reconciler"]
    BY <2>2, OtherTask, ThreadsApart
  <2> QED BY <2>3, <2>4
<1>3. Released(v)
  <2>1. scenario \in Scenarios
    BY DEF LifeInv, OthersOK, RestOK
  <2> QED BY <2>1 DEF rollback, Committed, Released
<1>4. \A w \in Versions : RowFades(w)
  <2>1. CASE UNCHANGED documents
    BY <2>1, RowsStay
  <2>2. CASE SwitchActive(v, get_current_revision + 1)
    BY <1>3, <2>2, SwitchedRows DEF LifeInv, IInv, RowFades, RowKept, Released
  <2> QED BY <1>1, <2>1, <2>2 DEF rollback_active_version
<1> QED
  BY <1>1, <1>2, <1>4, PlanesStay, OperatorSettled
     DEF IngestSettles, OperatorSettles, AclPlaces, PurgePlaces

\* A rollback looks which version it has to show.
LEMMA ServeResolved ==
    ASSUME LifeInv, ServeInv, ResolveTarget
    PROVE  ServeInv'
<1> DEFINE p == IF get_active_version = None THEN "deprecate_points" ELSE "activate_points"
           t == [[Op EXCEPT !.version = get_active_version] EXCEPT !.pc = p]
<1>1. /\ Op.pc = "target"
      /\ UNCHANGED <<documents, points, parents, chunks, ingest, scenario>>
  BY DEF ResolveTarget, OpAt, storeVars, planeVars, boundVars
<1>2. Op \in Task /\ task \in [Threads -> Task]
  BY ThreadsApart DEF LifeInv, OthersOK, TasksOK, Op
<1>3. task' = [task EXCEPT !["operator"] = t]
  BY <1>2, ThreadsApart DEF ResolveTarget, Op
<1>4. t.pc \in {"deprecate_points", "activate_points"}
  BY <1>2 DEF Task
<1> HIDE DEF t
<1>5. task'["operator"].pc \in {"deprecate_points", "activate_points"}
      /\ task'["reconciler"] = task["reconciler"]
  BY <1>3, <1>4, OtherTask, ThreadsApart
<1> QED
  BY <1>1, <1>5, RowsStay, PlanesStay, OperatorSettled
     DEF IngestSettles, OperatorSettles, AclPlaces, PurgePlaces

LEMMA StaleMarked ==
    ASSUME LifeInv, MarkStale \/ UNCHANGED ingest
    PROVE  IngestSettles
<1>1. /\ ingest'.pc = ingest.pc /\ ingest'.version = ingest.version /\ ingest'.acl = ingest.acl
  BY DEF MarkStale, LifeInv, OthersOK, Known, Ingestion
<1> QED BY <1>1 DEF IngestSettles

\* A delete takes the row that is active.
LEMMA ServeRowDeleted ==
    ASSUME LifeInv, ServeInv, ChangeRow, OpAt("delete_row")
    PROVE  ServeInv'
<1>1. /\ Op.pc = "delete_row" /\ logical_delete(Op.version) /\ Now("operator", "delete_points")
      /\ UNCHANGED <<points, parents, chunks, scenario>>
  BY DEF ChangeRow, OpAt, planeVars, boundVars
<1>2. IngestSettles
  BY StaleMarked DEF ChangeRow
<1>3. task'["operator"].pc = "delete_points" /\ task'["reconciler"] = task["reconciler"]
  BY <1>1, TaskGoes, ThreadsApart
<1>4. Op.version \in Versions
  BY <1>1, ThreadsApart DEF LifeInv, OthersOK, TasksOK, Sound, Op, OneVersion
<1>5. \A w \in Versions : RowFades(w)
  <2> DEFINE x == DeleteTarget(Op.version)
  <2>1. x = None \/ (x \in Versions /\ documents[x].status = "active")
    BY <1>4, ActiveVersionType DEF DeleteTarget, ActiveVersions, LifeInv, IInv
  <2>2. CASE x = None
    BY <1>1, <2>2, RowsStay DEF logical_delete
  <2>3. CASE x # None
    <3>1. documents' = [documents EXCEPT ![x].status = "deleted",
                                         ![x].revision = documents[x].revision + 1]
      BY <1>1, <2>3 DEF logical_delete
    <3> HIDE DEF x
    <3>2. /\ documents'[x].status = "deleted" /\ documents'[x].acl = documents[x].acl
          /\ \A w \in Versions : w # x => documents'[w] = documents[w]
      BY <2>1, <2>3, <3>1 DEF LifeInv, IInv, TypeOK, DocumentRow
    <3> QED BY <2>1, <2>3, <3>2 DEF RowFades, RowKept, Released
  <2> QED BY <2>2, <2>3
<1> QED
  BY <1>1, <1>2, <1>3, <1>5, PlanesStay, OperatorSettled DEF OperatorSettles, AclPlaces, PurgePlaces

\* A tightening changes the row of its version, if it is still active.
LEMMA ServeRowTightened ==
    ASSUME LifeInv, ServeInv, FenceInv, ChangeRow, OpAt("acl_row")
    PROVE  ServeInv'
<1>1. /\ Op.pc = "acl_row" /\ update_document_acl(Op.version, Op.acl)
      /\ Now("operator", "acl_points")
      /\ UNCHANGED <<points, parents, chunks, scenario>>
  BY DEF ChangeRow, OpAt, planeVars, boundVars
<1>2. IngestSettles
  BY StaleMarked DEF ChangeRow
<1>4. PICK x \in Versions, acl \in Acls :
         /\ x = Op.version /\ acl = Op.acl
         /\ Tightens /\ Released(x) /\ Within(acl, documents[x].acl)
  BY <1>1, ThreadsApart DEF LifeInv, OthersOK, TasksOK, Sound, Op, OneVersion, ServeInv, Tightening, AclPlaces
<1>3. /\ task'["operator"].pc = "acl_points" /\ task'["operator"].version = x
      /\ task'["operator"].acl = acl /\ task'["reconciler"] = task["reconciler"]
  BY <1>1, <1>4, TaskGoes, ThreadsApart DEF Op
<1>5. /\ documents'[x].status = documents[x].status
      /\ documents'[x].acl \in {acl, documents[x].acl}
      /\ \A w \in Versions : w # x => documents'[w] = documents[w]
  BY <1>1, <1>4 DEF update_document_acl, LifeInv, IInv, TypeOK, DocumentRow
<1>6. Tightening'
  <2>1. Within(acl, documents'[x].acl)
    BY <1>4, <1>5 DEF Within
  <2> QED BY <1>1, <1>3, <1>4, <1>5, <2>1 DEF Tightening, Op, Tightens, Released, Within, PurgePlaces
<1>7. OwnAcl'
  <2>1. ASSUME ingest.version # x, ingest.pc # "idle" PROVE RowFades(ingest.version)
    BY <1>5, <2>1, KnownParts DEF LifeInv, OthersOK, RowFades, RowKept, Released
  <2>2. CASE ingest'.pc \notin Unbuilt \cup Staged \cup UndoPlaces
    <3>1. ingest'.pc # "idle" => ingest.pc # "idle" /\ ingest'.acl = ingest.acl
      BY <1>2 DEF IngestSettles
    <3> QED BY <1>1, <2>2, <3>1 DEF ServeInv, OwnAcl
  <2>3. CASE ingest'.pc \in Unbuilt \cup Staged \cup UndoPlaces
    <3>1. ingest'.pc = ingest.pc /\ ingest'.version = ingest.version /\ ingest'.acl = ingest.acl
      BY <1>1 DEF ChangeRow, MarkStale, LifeInv, OthersOK, Known, Ingestion
    <3>2. ~Released(ingest.version)
      BY <2>3, <3>1, BuildIsUnreleased
         DEF FenceInv, OwnRow, Building, Released, Unbuilt, ServeInv, OwnAcl
    <3>3. ingest.version # x
      BY <1>4, <3>2
    <3> QED BY <1>1, <2>1, <3>1, <3>3, OwnAclStays DEF ServeInv
  <2> QED BY <2>2, <2>3
<1>a. \A w \in Versions : PlanesFade(w) /\ PurgingStays(w)
  BY <1>1, PlanesStay, NoPurge DEF PurgingStays, PurgePlaces
<1>8. StagedAcl'
  <2>1. ingest'.pc = ingest.pc /\ ingest'.version = ingest.version /\ ingest'.acl = ingest.acl
    BY <1>1 DEF ChangeRow, MarkStale, LifeInv, OthersOK, Known, Ingestion
  <2> QED BY <1>1, <1>a, <2>1, StagedFades DEF ServeInv
<1>b. Rebuilt'
  <2>1. Rec.pc \notin Rebuilding
    BY <1>4 DEF ServeInv, Rebuilt
  <2> QED BY <1>3, <2>1 DEF Rebuilt, Rec
<1>9. ASSUME NEW w \in Versions PROVE ChunkAcl(w)' /\ VersionAcl(w)'
  <2>1. CASE w = x
    <3>1. (TighteningActive(w))'
      BY <1>3, <2>1 DEF TighteningActive, Op
    <3>2. Released(w) /\ Tightens' /\ VersionAcl(w) /\ ChunkAcl(w)
      BY <1>1, <1>4, <2>1 DEF Tightens, ServeInv
    <3>3. ~Purging(w)
      BY <1>1, <1>4, NoPurge DEF PurgePlaces
    <3>4. VersionAcl(w)'
      BY <1>1, <1>4, <3>1, <3>2, <3>3 DEF VersionAcl, Whole
    <3>5. ChunkAcl(w)'
      BY <1>1, <1>5, <2>1, <3>2 DEF ChunkAcl
    <3> QED BY <3>4, <3>5
  <2>2. CASE w # x
    <3>1. RowFades(w)
      BY <1>5, <2>2 DEF RowFades, RowKept, Released
    <3>2. TighteningActive(w) => (TighteningActive(w))'
      BY <1>1, <1>4, <2>2 DEF TighteningActive
    <3> QED BY <1>1, <1>a, <3>1, <3>2, ChunksFade, VersionFades DEF ServeInv, RowFades
  <2> QED BY <2>1, <2>2
<1>10. Alone' /\ Viewed'
  BY <1>1, <1>3, OperatorAlone
<1> QED BY <1>6, <1>7, <1>8, <1>9, <1>10, <1>b DEF ServeInv

\* The points follow; their ACL does not matter here.
LEMMA ServePointsPatched ==
    ASSUME LifeInv, ServeInv, PatchPoints
    PROVE  ServeInv'
<1>1. /\ Op.pc \in {"delete_points", "acl_points", "activate_points", "deprecate_points"}
      /\ UNCHANGED <<documents, parents, chunks, ingest, scenario>>
  BY DEF PatchPoints, OpAt, OnlyData, storeVars, boundVars
<1>2. Sound(Op)
  BY ThreadsApart DEF LifeInv, OthersOK, TasksOK, Op
<1>3. \A w \in Versions : PlanesFade(w)
  <2>1. CASE OpAt("delete_points") /\ points' = SetStatus(points, Op.version, "deleted")
    BY <1>1, <1>2, <2>1, StatusSet, Words DEF Sound, OneVersion, OpAt
  <2>2. CASE OpAt("acl_points") /\ points' = SetAcl(points, Op.version, Op.acl)
    <3>1. Op.version \in Versions /\ Op.acl \in Acls
      BY <1>2, <2>2 DEF Sound, OneVersion, OpAt
    <3> QED BY <1>1, <2>2, <3>1, StatusSet
  <2>3. CASE OpAt("activate_points") /\ points' = SetStatus(points, Op.version, "active")
    BY <1>1, <1>2, <2>3, StatusSet, Words DEF Sound, OneVersion, OpAt
  <2>4. CASE OpAt("deprecate_points") /\ points' = SetStatus(points, Op.other, "deprecated")
    BY <1>1, <1>2, <2>4, StatusSet, Words DEF Sound, TwoVersions, OpAt
  <2> QED BY <2>1, <2>2, <2>3, <2>4 DEF PatchPoints
<1>4. CASE Op.pc # "acl_points"
  <2>1. PICK place \in {"delete_parents", "activate_parents", "deprecate_parents"} : Now("operator", place)
    BY <1>4 DEF PatchPoints, OpAt
  <2>2. task'["operator"].pc = place /\ task'["reconciler"] = task["reconciler"]
    BY <2>1, TaskGoes, ThreadsApart
  <2> QED
    BY <1>1, <1>3, <1>4, <2>2, RowsStay, OperatorSettled
       DEF IngestSettles, OperatorSettles, AclPlaces, PurgePlaces
<1>5. CASE Op.pc = "acl_points"
  <2>1. Now("operator", "acl_parents")
    BY <1>5 DEF PatchPoints, OpAt
  <2>2. /\ task'["operator"].pc = "acl_parents" /\ task'["operator"].version = Op.version
        /\ task'["operator"].acl = Op.acl /\ task'["reconciler"] = task["reconciler"]
    BY <2>1, TaskGoes, ThreadsApart DEF Op
  <2>3. Tightening'
    BY <1>1, <1>5, <2>2, TighteningStays DEF ServeInv, AclPlaces, PurgePlaces
  <2>a. \A w \in Versions : RowFades(w) /\ PurgingStays(w)
    BY <1>1, RowsStay, NoPurge DEF PurgingStays, PurgePlaces
  <2>4. OwnAcl' /\ StagedAcl' /\ Rebuilt'
    <3>1. OwnAcl'
      BY <1>1, <2>a, KnownParts, OwnAclStays DEF ServeInv, LifeInv, OthersOK
    <3>2. StagedAcl'
      BY <1>1, <1>3, <2>a, StagedFades DEF ServeInv
    <3>3. Rebuilt'
      BY <1>1, <2>2, <2>a, RebuiltStays, ThreadsApart
         DEF ServeInv, LifeInv, OthersOK, TasksOK, Sound, Rec, RowFades
    <3> QED BY <3>1, <3>2, <3>3
  <2>5. ASSUME NEW w \in Versions PROVE ChunkAcl(w)' /\ VersionAcl(w)'
    <3>1. TighteningActive(w) => (TighteningActive(w))'
      BY <2>2 DEF TighteningActive, Op
    <3> QED BY <1>1, <1>3, <2>a, <3>1, ChunksFade, VersionFades DEF ServeInv, RowFades
  <2>6. Alone' /\ Viewed'
    BY <1>1, <2>2, OperatorAlone
  <2> QED BY <2>3, <2>4, <2>5, <2>6 DEF ServeInv
<1> QED BY <1>4, <1>5

LEMMA OperatorEnds ==
    ASSUME LifeInv, OpDone
    PROVE  task'["operator"].pc = "idle" /\ task'["reconciler"] = task["reconciler"]
<1>1. NoTask.pc = "idle"
  BY NothingUnderWay
<1> QED BY <1>1, OtherTask, ThreadsApart DEF OpDone

\* The parents follow: statuses are set, ...
LEMMA ServeParentsPatched ==
    ASSUME LifeInv, ServeInv, PatchParents, ~OpAt("acl_parents")
    PROVE  ServeInv'
<1>1. /\ Op.pc \in {"delete_parents", "activate_parents", "deprecate_parents"}
      /\ UNCHANGED <<documents, points, chunks, ingest, scenario>>
  BY DEF PatchParents, OpAt, OnlyData, storeVars, boundVars
<1>2. Sound(Op)
  BY ThreadsApart DEF LifeInv, OthersOK, TasksOK, Op
<1>3. \A w \in Versions : PlanesFade(w)
  <2>1. CASE OpAt("delete_parents") /\ parents' = SetStatus(parents, Op.version, "inactive")
    BY <1>1, <1>2, <2>1, StatusSet, Words DEF Sound, OneVersion, OpAt
  <2>2. CASE OpAt("activate_parents") /\ parents' = SetStatus(parents, Op.version, "active")
    BY <1>1, <1>2, <2>2, StatusSet, Words DEF Sound, OneVersion, OpAt
  <2>3. CASE OpAt("deprecate_parents") /\ parents' = SetStatus(parents, Op.other, "inactive")
    BY <1>1, <1>2, <2>3, StatusSet, Words DEF Sound, TwoVersions, OpAt
  <2> QED BY <2>1, <2>2, <2>3 DEF PatchParents
<1>4. task'["operator"].pc \in {"idle", "deprecate_points"} /\ task'["reconciler"] = task["reconciler"]
  <2>1. OpDone \/ Now("operator", "deprecate_points")
    BY DEF PatchParents
  <2> QED BY <2>1, OperatorEnds, TaskGoes, ThreadsApart
<1> QED
  BY <1>1, <1>3, <1>4, RowsStay, OperatorSettled
     DEF IngestSettles, OperatorSettles, AclPlaces, PurgePlaces

\* ... and at the end of a tightening its parents allow no more than its row.
LEMMA ServeParentsTightened ==
    ASSUME LifeInv, ServeInv, FenceInv, PatchParents, OpAt("acl_parents")
    PROVE  ServeInv'
<1>1. /\ Op.pc = "acl_parents" /\ OpDone /\ parents' = SetAcl(parents, Op.version, Op.acl)
      /\ UNCHANGED <<documents, points, chunks, ingest, scenario>>
  BY DEF PatchParents, OpAt, OnlyData, storeVars, boundVars
<1>2. task'["operator"].pc = "idle" /\ task'["reconciler"] = task["reconciler"]
  BY <1>1, OperatorEnds
<1>3. PICK x \in Versions :
         x = Op.version /\ Tightens /\ Released(x) /\ Within(Op.acl, documents[x].acl)
  BY <1>1, ThreadsApart DEF LifeInv, OthersOK, TasksOK, Sound, Op, OneVersion, ServeInv, Tightening, AclPlaces
<1>4. /\ parents'[x].status = parents[x].status
      /\ parents'[x].status # "none" => parents'[x].acl = Op.acl
      /\ \A w \in Versions : w # x => parents'[w] = parents[w]
  BY <1>1, <1>3 DEF SetAcl, LifeInv, OthersOK, PlanesOK
<1>5. Tightening'
  BY <1>1, <1>2, TighteningStays DEF ServeInv, AclPlaces, PurgePlaces
<1>a. \A w \in Versions : RowFades(w) /\ ~Purging(w)
  BY <1>1, <1>3, RowsStay, NoPurge DEF PurgePlaces
<1>6. OwnAcl' /\ Rebuilt'
  <2>1. OwnAcl'
    BY <1>1, <1>a, KnownParts, OwnAclStays DEF ServeInv, LifeInv, OthersOK
  <2>2. Rebuilt'
    BY <1>1, <1>2, <1>a, RebuiltStays, ThreadsApart
       DEF ServeInv, LifeInv, OthersOK, TasksOK, Sound, Rec, RowFades
  <2> QED BY <2>1, <2>2
<1>7. StagedAcl'
  <2>1. ingest.pc \in Written => ingest.version \in Versions /\ ingest.version # x
    BY <1>3, KnownParts, BuildIsUnreleased DEF LifeInv, OthersOK, Staged, Written
  <2>2. ingest.pc \in Written => parents'[ingest.version] = parents[ingest.version]
    BY <1>4, <2>1
  <2>3. Tightens /\ ingest.pc = "commit" => chunks[ingest.version] = None \/ Whole(ingest.version)
    BY <1>a, <2>1 DEF ServeInv, StagedAcl, Written
  <2>4. (ingest.pc \in Written /\ parents[ingest.version].status # "none"
           => parents[ingest.version].acl = ingest.acl)'
    BY <1>1, <2>2 DEF ServeInv, StagedAcl
  <2>5. (Tightens /\ ingest.pc = "commit" => chunks[ingest.version] = None \/ Whole(ingest.version))'
    BY <1>1, <2>2, <2>3 DEF Whole, Tightens, Written
  <2> QED BY <2>4, <2>5 DEF StagedAcl
<1>8. ASSUME NEW w \in Versions PROVE ChunkAcl(w)' /\ VersionAcl(w)'
  <2>a. ChunkAcl(w)'
    BY <1>1 DEF ServeInv, ChunkAcl, Tightens
  <2>1. CASE w = x
    <3>1. Tightens => chunks[w] = None \/ Whole(w)
      BY <1>3, <1>a, <2>1 DEF ServeInv, VersionAcl
    <3>2. parents'[w].status # "none" => Within(parents'[w].acl, documents[w].acl)
      BY <1>3, <1>4, <2>1 DEF Within
    <3> QED BY <1>1, <1>3, <1>4, <2>1, <2>a, <3>1, <3>2 DEF VersionAcl, Whole, Within, Tightens
  <2>2. CASE w # x
    <3>1. PlanesFade(w)
      BY <1>1, <1>4, <2>2 DEF PlanesFade, Whole
    <3>2. ~TighteningActive(w) /\ PurgingStays(w)
      BY <1>3, <1>a, <2>2 DEF TighteningActive, PurgingStays
    <3> QED BY <1>1, <1>a, <2>a, <3>1, <3>2, VersionFades DEF ServeInv
  <2> QED BY <2>1, <2>2
<1>9. Alone' /\ Viewed'
  BY <1>1, <1>2, OperatorAlone
<1> QED BY <1>5, <1>6, <1>7, <1>8, <1>9 DEF ServeInv

-----------------------------------------------------------------------------
(* The removal of a document, and the reconciler.                          *)

\* What the reconciler does takes away or leaves, and its view holds.
LEMMA ReconcilerSettled ==
    ASSUME LifeInv, ServeInv, Rec.pc # "idle", UNCHANGED <<scenario, ingest>>,
           task'["operator"] = task["operator"],
           \A v \in Versions : RowFades(v) /\ PlanesFade(v),
           Rec.pc \in PurgePlaces => \A v \in Versions : PurgingStays(v),
           RebuildSettles, Viewed'
    PROVE  ServeInv'
<1>1. scenario.quiet => Op.pc = "idle" /\ ingest.pc = "idle"
  BY DEF ServeInv, Alone, RecAt, OpAt, IngestAt
<1>2. Tightens => scenario.quiet
  BY DEF ServeInv, Alone
<1>3. Op.pc \notin AclPlaces
  BY <1>1, <1>2 DEF ServeInv, Tightening, AclPlaces
<1>4. Alone'
  BY <1>1, <1>2 DEF Alone, Tightens, OpAt, IngestAt, Op
<1>5. \A v \in Versions : PurgingStays(v)
  BY <1>1, <1>2 DEF PurgingStays, Purging, Threads, Op, Rec, PurgePlaces
<1> QED BY <1>3, <1>4, <1>5, Settles DEF ServeInv, OperatorSettles, IngestSettles

\* A purge goes from place to place, and then it is over.
LEMMA PurgeGoes ==
    ASSUME LifeInv, NEW th \in Threads, PurgeStep(th)
    PROVE  /\ task[th].pc \in PurgePlaces
           /\ task'[th].pc \in PurgePlaces \cup {"idle", "deleted"}
           /\ th = "operator" => task'[th].pc \in PurgePlaces \cup {"idle"}
           /\ \A u \in Threads \ {th} : task'[u] = task[u]
<1>1. task[th].pc \in PurgePlaces
  BY DEF PurgeStep, ListVersions, PurgeData, delete_document, ForeignKeyFails, PurgePlaces
<1>2. task \in [Threads -> Task] /\ task[th] \in Task
  BY DEF LifeInv, OthersOK, TasksOK
<1>3. CASE ListVersions(th)
  <2> DEFINE p == IF Rows = {} THEN "purge_builds" ELSE "purge_points"
             t == [[task[th] EXCEPT !.pc = p] EXCEPT !.listed = Rows]
  <2>1. task' = [task EXCEPT ![th] = t]
    BY <1>2, <1>3 DEF ListVersions
  <2>2. t.pc \in {"purge_builds", "purge_points"}
    BY <1>2 DEF Task
  <2> HIDE DEF t
  <2> QED BY <1>1, <2>1, <2>2, OtherTask DEF PurgePlaces
<1>4. ASSUME NEW v \in Versions, PurgeData(th, v)
      PROVE  task'[th].pc \in PurgePlaces /\ \A u \in Threads \ {th} : task'[u] = task[u]
  <2>1. CASE task' = [task EXCEPT ![th].pc = "purge_parents", ![th].version = v]
    BY <1>2, <2>1 DEF Task, PurgePlaces
  <2>2. CASE Now(th, "purge_chunks")
    BY <2>2, TaskGoes DEF PurgePlaces
  <2>3. CASE PurgeData(th, v) /\ task[th].pc = "purge_chunks"
    <3> DEFINE p == IF task[th].listed = {v} THEN "purge_builds" ELSE "purge_points"
               t == [NoTask EXCEPT !.listed = task[th].listed \ {v}, !.todo = task[th].todo, !.pc = p]
    <3>1. task' = [task EXCEPT ![th] = t]
      BY <2>3 DEF PurgeData
    <3>2. t.pc \in {"purge_builds", "purge_points"}
      BY DEF NoTask
    <3> HIDE DEF t
    <3> QED BY <3>1, <3>2, OtherTask DEF PurgePlaces
  <2> QED BY <1>4, <2>1, <2>2, <2>3 DEF PurgeData
<1>5. CASE Now(th, "purge_jobs") \/ Now(th, "purge_rows")
  BY <1>1, <1>5, TaskGoes DEF PurgePlaces
<1>6. CASE PurgeEnds(th)
  <2>1. CASE th = "operator"
    <3>1. task' = [task EXCEPT ![th] = NoTask]
      BY <1>6, <2>1 DEF PurgeEnds
    <3> QED BY <1>1, <3>1, OtherTask, NothingUnderWay
  <2>2. CASE th # "operator"
    <3> DEFINE t == [task[th] EXCEPT !.pc = "deleted"]
    <3>1. task' = [task EXCEPT ![th] = t]
      BY <1>2, <1>6, <2>2 DEF PurgeEnds
    <3>2. t.pc = "deleted"
      BY <1>2 DEF Task
    <3> HIDE DEF t
    <3> QED BY <1>1, <2>2, <3>1, <3>2, OtherTask
  <2> QED BY <2>1, <2>2
<1>7. CASE ForeignKeyFails(th)
  <2>1. task' = [task EXCEPT ![th] = NoTask]
    BY <1>7 DEF ForeignKeyFails, OpDone, RecDone, Threads
  <2> QED BY <1>1, <2>1, OtherTask, NothingUnderWay
<1> QED BY <1>1, <1>3, <1>4, <1>5, <1>6, <1>7 DEF PurgeStep, delete_document, PurgePlaces

\* A version loses its points, its parents, its chunk rows: until then its purge
\* is under way.
LEMMA PurgeDataFades ==
    ASSUME LifeInv, NEW th \in Threads, NEW v \in Versions, PurgeData(th, v), NEW w \in Versions
    PROVE  PlanesFade(w) /\ PurgingStays(w)
<1>1. /\ points \in [Versions -> [status : PointStatus, acl : Acls \cup {None}]]
      /\ parents \in [Versions -> [status : ParentStatus, acl : Acls \cup {None}]]
      /\ chunks \in [Versions -> Acls \cup {None}]
      /\ task \in [Threads -> Task] /\ task[th] \in Task
  BY DEF LifeInv, OthersOK, PlanesOK, TasksOK
<1>2. \A u \in Threads \ {th} : task'[u] = task[u]
  <2>1. PurgeStep(th)
    BY DEF PurgeStep
  <2> QED BY <2>1, PurgeGoes
<1>3. CASE /\ task[th].pc = "purge_points"
           /\ points' = [points EXCEPT ![v] = Nowhere]
           /\ task' = [task EXCEPT ![th].pc = "purge_parents", ![th].version = v]
           /\ UNCHANGED <<parents, chunks>>
  <2>1. task'[th].pc = "purge_parents" /\ task'[th].version = v
    BY <1>1, <1>3 DEF Task
  <2>2. (Purging(v))' /\ (Purging(w) => (Purging(w))')
    BY <1>2, <1>3, <2>1 DEF Purging
  <2>3. w # v => points'[w] = points[w]
    BY <1>1, <1>3
  <2> QED BY <1>3, <2>2, <2>3 DEF PlanesFade, PurgingStays, Whole
<1>4. CASE /\ task[th].pc = "purge_parents" /\ task[th].version = v
           /\ parents' = [parents EXCEPT ![v] = Nowhere]
           /\ Now(th, "purge_chunks")
           /\ UNCHANGED <<points, chunks>>
  <2>1. task'[th].pc = "purge_chunks" /\ task'[th].version = v
    BY <1>4, TaskGoes
  <2>2. (Purging(v))' /\ (Purging(w) => (Purging(w))')
    BY <1>2, <1>4, <2>1 DEF Purging
  <2>3. /\ w # v => parents'[w] = parents[w]
        /\ w = v => parents'[w].status = "none"
    BY <1>1, <1>4 DEF Nowhere
  <2> QED BY <1>4, <2>2, <2>3 DEF PlanesFade, PurgingStays, Whole
<1>5. CASE /\ task[th].pc = "purge_chunks" /\ task[th].version = v
           /\ chunks' = [chunks EXCEPT ![v] = None]
           /\ UNCHANGED <<points, parents>>
  <2>1. chunks'[w] = IF w = v THEN None ELSE chunks[w]
    BY <1>1, <1>5
  <2>2. Purging(w) /\ w # v => (Purging(w))'
    BY <1>2, <1>5 DEF Purging
  <2> QED BY <1>5, <2>1, <2>2 DEF PlanesFade, PurgingStays, Whole
<1> QED BY <1>3, <1>4, <1>5 DEF PurgeData

\* Data go, or the rows do, after their chunk rows.
LEMMA PurgeTakesAway ==
    ASSUME LifeInv, ServeInv, NEW th \in Threads, PurgeStep(th)
    PROVE  /\ \A v \in Versions : RowFades(v) /\ PlanesFade(v) /\ PurgingStays(v)
           /\ Rows' \subseteq Rows
           /\ UNCHANGED <<scenario, ingest>>
           /\ view' = view \/ RecDone
<1>1. UNCHANGED <<scenario, ingest>> /\ (view' = view \/ RecDone)
  BY DEF PurgeStep, ListVersions, PurgeData, delete_document, ForeignKeyFails, OnlyData, boundVars
<1>2. UNCHANGED documents \/ (Emptied /\ ~Referenced)
  BY DEF PurgeStep, ListVersions, PurgeData, delete_document, ForeignKeyFails, OnlyData,
         delete_document_builds, delete_document_jobs, delete_document_rows, Emptied, storeVars
<1>3. (\A v \in Versions : RowFades(v)) /\ Rows' \subseteq Rows
  <2>1. CASE UNCHANGED documents
    BY <2>1, RowsStay, RowsSame
  <2>2. CASE Emptied /\ ~Referenced
    <3>1. \A v \in Versions : /\ documents'[v].status = "absent"
                              /\ documents[v].status = "absent" \/ chunks[v] = None
      BY <2>2 DEF Emptied, NoDocument, Referenced, Rows
    <3>2. "purge" \in scenario.calls \/ Rec.pc \notin Rebuilding
      <4>1. task[th].pc \in PurgePlaces
        BY PurgeGoes
      <4> QED BY <4>1 DEF Threads, ServeInv, Tightening, Op, Rec, PurgePlaces, Rebuilding
    <3> QED BY <3>1, <3>2 DEF RowFades, RowKept, Rows
  <2> QED BY <1>2, <2>1, <2>2
<1>4. ASSUME NEW v \in Versions PROVE PlanesFade(v) /\ PurgingStays(v)
  <2>1. CASE UNCHANGED <<points, parents, chunks>> /\ task[th].pc \notin {"purge_parents", "purge_chunks"}
    <3>1. \A u \in Threads \ {th} : task'[u] = task[u]
      BY PurgeGoes
    <3>2. Purging(v) => (Purging(v))'
      BY <2>1, <3>1 DEF Purging
    <3> QED BY <2>1, <3>2, PlanesStay DEF PurgingStays
  <2>2. ASSUME NEW w \in Versions, PurgeData(th, w) PROVE PlanesFade(v) /\ PurgingStays(v)
    BY <2>2, PurgeDataFades
  <2> QED BY <2>1, <2>2
       DEF PurgeStep, ListVersions, delete_document, ForeignKeyFails, planeVars
<1> QED BY <1>1, <1>3, <1>4

\* By the operator or by the reconciler.
LEMMA ServePurged ==
    ASSUME LifeInv, ServeInv, NEW th \in Threads, PurgeStep(th)
    PROVE  ServeInv'
<1>1. /\ \A v \in Versions : RowFades(v) /\ PlanesFade(v) /\ PurgingStays(v)
      /\ Rows' \subseteq Rows
      /\ UNCHANGED <<scenario, ingest>>
      /\ view' = view \/ RecDone
  BY PurgeTakesAway
<1>a. IngestSettles
  BY <1>1 DEF IngestSettles
<1>2. CASE th = "operator"
  <2>1. /\ Op.pc \in PurgePlaces /\ task'["operator"].pc \in PurgePlaces \cup {"idle"}
        /\ task'["reconciler"] = task["reconciler"]
    BY <1>2, PurgeGoes, ThreadsApart DEF Op
  <2>2. Op.pc # "idle" /\ OperatorSettles
    BY <2>1 DEF OperatorSettles, AclPlaces, PurgePlaces
  <2> QED BY <1>1, <1>a, <2>1, <2>2, OperatorSettled
<1>3. CASE th = "reconciler"
  <2>1. /\ Rec.pc \in PurgePlaces /\ task'["operator"] = task["operator"]
        /\ task'["reconciler"].pc \in PurgePlaces \cup {"idle", "deleted"}
    BY <1>3, PurgeGoes, ThreadsApart DEF Rec
  <2>2. task'["reconciler"].pc = "idle" \/ view' = view
    BY <1>1, NothingUnderWay, OtherTask, ThreadsApart DEF RecDone
  <2>3. Viewed'
    BY <1>1, <2>1, <2>2 DEF ServeInv, Viewed, Tightens, RecAt, Rec, PurgePlaces
  <2>4. Rec.pc # "idle" /\ RebuildSettles
    BY <2>1 DEF RebuildSettles, Rebuilding, PurgePlaces
  <2> QED BY <1>1, <2>1, <2>3, <2>4, ReconcilerSettled
<1> QED BY <1>2, <1>3 DEF Threads

\* A run goes to another loop, or on in its loop.
LEMMA AtLoop ==
    ASSUME LifeInv, NEW place, NEW todo, task' = [task EXCEPT !["reconciler"] = LoopAt(place, todo)]
    PROVE  /\ task'["reconciler"].pc = place /\ task'["reconciler"].todo = todo
           /\ task'["operator"] = task["operator"]
<1>1. LoopAt(place, todo).pc = place /\ LoopAt(place, todo).todo = todo
  BY DEF LoopAt, NoTask
<1> QED BY <1>1, OtherTask, ThreadsApart

LEMMA LoopGoes ==
    ASSUME LifeInv, NEW place \in {"points", "missing", "deleted", "parents"}, NEW todo,
           Loop(place, todo)
    PROVE  /\ task'["operator"] = task["operator"]
           /\ \/ task'["reconciler"].pc \in {place, "deleted"} /\ task'["reconciler"].pc # "missing"
              \/ /\ place = "missing" /\ task'["reconciler"].pc = "missing"
                 /\ task'["reconciler"].todo = todo
              \/ /\ place = "points" /\ task'["reconciler"].pc = "missing"
                 /\ task'["reconciler"].todo = view.active
<1>1. \E p \in {place, "missing", "deleted"}, rest \in {todo, view.active, view.deleted, {}} :
         /\ task' = [task EXCEPT !["reconciler"] = LoopAt(p, rest)]
         /\ p = "missing" => \/ place = "missing" /\ rest = todo
                             \/ place = "points" /\ rest = view.active
  BY DEF Loop
<1>2. PICK p \in {place, "missing", "deleted"}, rest \in {todo, view.active, view.deleted, {}} :
         /\ task' = [task EXCEPT !["reconciler"] = LoopAt(p, rest)]
         /\ p = "missing" => \/ place = "missing" /\ rest = todo
                             \/ place = "points" /\ rest = view.active
  BY <1>1
<1>3. /\ task'["reconciler"].pc = p /\ task'["reconciler"].todo = rest
      /\ task'["operator"] = task["operator"]
  BY <1>2, AtLoop
<1> QED BY <1>2, <1>3

\* With its lease the run reads all rows there are; in a quiet scenario none is
\* added before it ends.
LEMMA ServeRunStarted ==
    ASSUME LifeInv, ServeInv, StartRun
    PROVE  ServeInv'
<1>1. /\ Rec.pc = "idle" /\ (scenario.quiet => Quiet) /\ Now("reconciler", "scroll")
      /\ view'.known = Rows /\ view'.active = ActiveVersions
      /\ UNCHANGED <<documents, points, parents, chunks, ingest, scenario>>
  BY DEF StartRun, RecAt, NoView, storeVars, planeVars, boundVars
<1>2. task'["reconciler"].pc = "scroll" /\ task'["operator"] = task["operator"]
  BY <1>1, TaskGoes, ThreadsApart
<1>3. Alone'
  BY <1>1, <1>2 DEF ServeInv, Alone, Tightens, Quiet, OpAt, IngestAt, Op
<1>4. Viewed'
  BY <1>1, <1>2 DEF Viewed, Rec, Rows, ActiveVersions, Released
<1>5. \A v \in Versions : PurgingStays(v)
  BY <1>1 DEF ServeInv, Alone, PurgingStays, Purging, Threads, Quiet, OpAt, RecAt, Op, Rec
<1>6. IngestSettles /\ OperatorSettles /\ RebuildSettles
  BY <1>1, <1>2 DEF IngestSettles, OperatorSettles, RebuildSettles, Rebuilding
<1> QED BY <1>1, <1>3, <1>4, <1>5, <1>6, RowsStay, PlanesStay, Settles DEF ServeInv

\* No purge is under way where documents are tightened and a run is at its loops.
LEMMA LoopsWithoutPurge ==
    ASSUME ServeInv, Rec.pc \notin PurgePlaces \cup {"idle"}
    PROVE  \A v \in Versions : Tightens => ~Purging(v)
<1>1. Tightens => Op.pc = "idle"
  BY DEF ServeInv, Alone, OpAt, RecAt
<1> QED BY <1>1 DEF Purging, Threads, Op, Rec, PurgePlaces

\* A step of a run between two loops, or in one.
LEMMA LoopSettled ==
    ASSUME LifeInv, ServeInv, Rec.pc \notin PurgePlaces \cup {"idle"},
           UNCHANGED <<scenario, ingest, documents>>, task'["operator"] = task["operator"],
           \A v \in Versions : PlanesFade(v), RebuildSettles, Viewed'
    PROVE  ServeInv'
BY RowsStay, ReconcilerSettled

\* Then it reads all points.
LEMMA ServeScrolled ==
    ASSUME LifeInv, ServeInv, scroll_all
    PROVE  ServeInv'
<1>1. /\ Rec.pc = "scroll" /\ view' = [view EXCEPT !.present = Present(points)]
      /\ UNCHANGED <<documents, points, parents, chunks, ingest, scenario>>
  BY DEF scroll_all, RecAt, storeVars, planeVars, boundVars
<1>2. /\ task'["operator"] = task["operator"]
      /\ \/ task'["reconciler"].pc \in {"points", "deleted"}
         \/ task'["reconciler"].pc = "missing" /\ task'["reconciler"].todo = view.active
  BY LoopGoes DEF scroll_all
<1>3. /\ view'.known = view.known /\ view'.present = Present(points)
      /\ view'.active = view.active
  BY <1>1 DEF LifeInv, OthersOK, RestOK, View
<1>4. Viewed'
  <2> SUFFICES ASSUME Tightens PROVE Viewed'
    BY <1>1 DEF Viewed, Tightens
  <2>1. Rows \subseteq view.known /\ \A v \in view.active : Released(v)
    BY <1>1 DEF ServeInv, Viewed, RecAt
  <2>2. ASSUME NEW v \in Versions \ Present(points), Released(v) PROVE chunks[v] = None
    <3>1. ~Purging(v)
      BY <1>1, LoopsWithoutPurge DEF PurgePlaces
    <3> QED BY <2>2, <3>1 DEF ServeInv, VersionAcl, Whole, Present
  <2> QED BY <1>1, <1>2, <1>3, <2>1, <2>2 DEF Viewed, Released, Rows, RecAt, Rec
<1>5. RebuildSettles /\ Rec.pc \notin PurgePlaces \cup {"idle"}
  BY <1>1, <1>2 DEF RebuildSettles, Rebuilding, PurgePlaces
<1> QED BY <1>1, <1>2, <1>4, <1>5, PlanesStay, LoopSettled

\* The view of a run that goes on in the same loop, or to a later place.
LEMMA ViewStays ==
    ASSUME ServeInv, Rec.pc # "idle", UNCHANGED <<documents, chunks, scenario>>,
           view'.known = view.known,
           \/ task'["reconciler"].pc \notin {"scroll", "points", "missing"}
           \/ Tightens => /\ view' = view /\ Rec.pc \in {"points", "missing"}
                          /\ \/ task'["reconciler"].pc = "points"
                             \/ /\ task'["reconciler"].pc = "missing"
                                /\ task'["reconciler"].todo \subseteq view.active
    PROVE  Viewed'
<1> SUFFICES ASSUME Tightens PROVE Viewed'
  BY DEF Viewed, Tightens
<1>1. Rows \subseteq view.known
  BY DEF ServeInv, Viewed, RecAt
<1>2. CASE task'["reconciler"].pc \notin {"scroll", "points", "missing"}
  BY <1>1, <1>2 DEF Viewed, Rows, RecAt, Rec
<1>3. CASE /\ view' = view /\ Rec.pc \in {"points", "missing"}
           /\ \/ task'["reconciler"].pc = "points"
              \/ /\ task'["reconciler"].pc = "missing"
                 /\ task'["reconciler"].todo \subseteq view.active
  BY <1>1, <1>3 DEF ServeInv, Viewed, Released, Rows, RecAt, Rec
<1> QED BY <1>2, <1>3

\* At the end of the loop over the deleted rows the parents are listed; at the end
\* of the last one the run is over.
LEMMA ServeListed ==
    ASSUME LifeInv, ServeInv, ListParents \/ EndRun
    PROVE  ServeInv'
<1>1. /\ Rec.pc \in {"deleted", "parents"}
      /\ UNCHANGED <<documents, points, parents, chunks, ingest, scenario>>
  BY DEF ListParents, EndRun, RecAt, storeVars, planeVars, boundVars
<1>2. /\ task'["operator"] = task["operator"]
      /\ task'["reconciler"].pc \in {"parents", "deleted", "idle"}
  <2>1. CASE ListParents
    BY <2>1, LoopGoes DEF ListParents
  <2>2. CASE EndRun
    BY <2>2, NothingUnderWay, OtherTask, ThreadsApart DEF EndRun, RecDone
  <2> QED BY <2>1, <2>2
<1>3. Viewed'
  <2>1. CASE ListParents
    <3>1. view'.known = view.known
      BY <2>1 DEF ListParents, LifeInv, OthersOK, RestOK, View
    <3> QED BY <1>1, <1>2, <3>1, ViewStays
  <2>2. CASE EndRun
    <3>1. task'["reconciler"].pc = "idle"
      BY <2>2, NothingUnderWay, OtherTask, ThreadsApart DEF EndRun, RecDone
    <3> QED BY <3>1 DEF Viewed, RecAt, Rec
  <2> QED BY <2>1, <2>2
<1>4. RebuildSettles /\ Rec.pc \notin PurgePlaces \cup {"idle"}
  BY <1>1, <1>2 DEF RebuildSettles, Rebuilding, PurgePlaces
<1> QED BY <1>1, <1>2, <1>3, <1>4, PlanesStay, LoopSettled

\* An entry is looked at: the run goes on in its loop, or to the next one.
LEMMA LookedSettles ==
    ASSUME LifeInv, ServeInv, NEW v, LookedAt(v), Rec.pc \in {"points", "missing", "parents"},
           UNCHANGED <<documents, chunks, scenario, view>>
    PROVE  /\ task'["operator"] = task["operator"] /\ RebuildSettles /\ Viewed'
           /\ Rec.pc \notin PurgePlaces \cup {"idle"}
<1>1. /\ task'["operator"] = task["operator"]
      /\ \/ task'["reconciler"].pc \in {Rec.pc, "deleted"} /\ task'["reconciler"].pc # "missing"
         \/ /\ Rec.pc = "missing" /\ task'["reconciler"].pc = "missing"
            /\ task'["reconciler"].todo = Rec.todo \ {v}
         \/ /\ Rec.pc = "points" /\ task'["reconciler"].pc = "missing"
            /\ task'["reconciler"].todo = view.active
  BY LoopGoes DEF LookedAt
<1>2. RebuildSettles /\ Rec.pc \notin PurgePlaces \cup {"idle"}
  BY <1>1 DEF RebuildSettles, Rebuilding, PurgePlaces
<1>3. Viewed'
  <2>1. Tightens /\ Rec.pc = "missing" => Rec.todo \subseteq view.active
    BY DEF ServeInv, Viewed
  <2> QED BY <1>1, <2>1, ViewStays
<1> QED BY <1>1, <1>2, <1>3

\* What has no row is no released version.
LEMMA OrphanIsNotReleased ==
    ASSUME LifeInv, ServeInv, Rec.pc # "idle", NEW v \in Versions, Tightens, Orphan(v)
    PROVE  ~Released(v) /\ ingest.pc = "idle"
BY DEF ServeInv, Viewed, Alone, RecAt, IngestAt, Orphan, Rows, Released

\* The status of points and parents is repaired; an orphan goes.
LEMMA ServeRepaired ==
    ASSUME LifeInv, ServeInv, NEW v \in Versions, RepairPoints(v) \/ RepairParents(v)
    PROVE  ServeInv'
<1>1. /\ Rec.pc \in {"points", "parents"} /\ LookedAt(v)
      /\ UNCHANGED <<documents, chunks, ingest, scenario, view>>
  BY DEF RepairPoints, RepairParents, Look, RecAt, OnlyData, storeVars, boundVars
<1>2. /\ task'["operator"] = task["operator"] /\ RebuildSettles /\ Viewed'
      /\ Rec.pc \notin PurgePlaces \cup {"idle"}
  BY <1>1, LookedSettles
<1>3. ASSUME NEW w \in Versions PROVE PlanesFade(w)
  <2>a. /\ points \in [Versions -> [status : PointStatus, acl : Acls \cup {None}]]
        /\ parents \in [Versions -> [status : ParentStatus, acl : Acls \cup {None}]]
    BY DEF LifeInv, OthersOK, PlanesOK
  <2>1. CASE RepairPoints(v)
    <3>1. UNCHANGED <<parents, chunks>> /\ points' = Repaired(points, v, "deprecated")
      BY <2>1 DEF RepairPoints
    <3>2. CASE Orphan(v)
      <4>1. points' = [points EXCEPT ![v] = Nowhere]
        BY <3>1, <3>2 DEF Repaired
      <4>2. w # v => points'[w] = points[w]
        BY <2>a, <4>1
      <4>3. Tightens /\ w = v => ~Released(w) /\ ingest.pc = "idle"
        BY <1>1, <3>2, OrphanIsNotReleased
      <4> QED BY <3>1, <4>2, <4>3 DEF PlanesFade, Whole
    <3>3. CASE ~Orphan(v)
      <4>1. PICK s \in {"active", "deprecated"} : points' = SetStatus(points, v, s)
        BY <3>1, <3>3 DEF Repaired
      <4> QED BY <3>1, <4>1, StatusSet, Words
    <3> QED BY <3>2, <3>3
  <2>2. CASE RepairParents(v)
    <3>1. UNCHANGED <<points, chunks>>
          /\ (parents' = parents \/ parents' = Repaired(parents, v, "inactive"))
      BY <2>2 DEF RepairParents
    <3>2. CASE Orphan(v) /\ parents' # parents
      <4>1. parents' = [parents EXCEPT ![v] = Nowhere]
        BY <3>1, <3>2 DEF Repaired
      <4>2. w # v => parents'[w] = parents[w]
        BY <2>a, <4>1
      <4>3. w = v => parents'[w].status = "none"
        BY <2>a, <4>1 DEF Nowhere
      <4>4. Tightens /\ w = v => ~Released(w) /\ ingest.pc = "idle"
        BY <1>1, <3>2, OrphanIsNotReleased
      <4> QED BY <3>1, <4>2, <4>3, <4>4 DEF PlanesFade, Whole
    <3>3. CASE ~Orphan(v) /\ parents' # parents
      <4>1. PICK s \in {"active", "inactive"} : parents' = SetStatus(parents, v, s)
        BY <3>1, <3>3 DEF Repaired
      <4> QED BY <3>1, <4>1, StatusSet, Words
    <3>4. CASE parents' = parents
      BY <3>1, <3>4, PlanesStay
    <3> QED BY <3>2, <3>3, <3>4
  <2> QED BY <2>1, <2>2
<1> QED BY <1>1, <1>2, <1>3, LoopSettled

\* The cleanup of a deleted document is begun.
LEMMA ServeCleanup ==
    ASSUME LifeInv, ServeInv, NEW v \in Versions, RetryCleanup(v)
    PROVE  ServeInv'
<1>1. /\ Rec.pc = "deleted"
      /\ UNCHANGED <<documents, points, parents, chunks, ingest, scenario, view>>
  BY DEF RetryCleanup, Look, RecAt, OnlyData, storeVars, boundVars
<1>2. task'["reconciler"].pc \in {"purge_list", "deleted"} /\ task'["operator"] = task["operator"]
  <2> DEFINE place == IF v \in Present(points) \cup Present(parents) THEN "purge_list" ELSE "deleted"
  <2>1. task' = [task EXCEPT !["reconciler"] = LoopAt(place, Rec.todo \ {v})]
    BY DEF RetryCleanup
  <2>2. place \in {"deleted", "purge_list"}
    OBVIOUS
  <2> HIDE DEF place
  <2> QED BY <2>1, <2>2, AtLoop
<1>3. Viewed'
  BY <1>1, <1>2, ViewStays
<1>4. RebuildSettles /\ Rec.pc \notin PurgePlaces \cup {"idle"}
  BY <1>1, <1>2 DEF RebuildSettles, Rebuilding, PurgePlaces
<1> QED BY <1>1, <1>2, <1>3, <1>4, PlanesStay, LoopSettled

\* Where documents are tightened nothing is missing; elsewhere the chunk rows have
\* the ACL of their row.
LEMMA ServeMissing ==
    ASSUME LifeInv, ServeInv, NEW v \in Versions, RepairMissing(v)
    PROVE  ServeInv'
<1>1. /\ Rec.pc = "missing" /\ v \in Rec.todo
      /\ UNCHANGED <<documents, points, parents, chunks, ingest, scenario, view>>
  BY DEF RepairMissing, Look, RecAt, OnlyData, storeVars, boundVars
<1>2. CASE LookedAt(v)
  BY <1>1, <1>2, LookedSettles, PlanesStay, LoopSettled
<1>3. CASE /\ v \notin view.present \/ parents[v].status = "none"
           /\ chunks[v] # None
           /\ task' = [task EXCEPT !["reconciler"] =
                          [LoopAt("rebuild_points", Rec.todo \ {v}) EXCEPT !.version = v,
                                                                          !.acl = chunks[v]]]
  <2>1. ~Tightens
    <3> SUFFICES ASSUME Tightens PROVE FALSE
      OBVIOUS
    <3>1. Released(v) /\ (v \notin view.present => chunks[v] = None)
      BY <1>1 DEF ServeInv, Viewed
    <3>2. ~Purging(v)
      BY <1>1, LoopsWithoutPurge DEF PurgePlaces
    <3> QED BY <1>3, <3>1, <3>2 DEF ServeInv, VersionAcl, Whole
  <2>2. /\ task'["reconciler"].pc = "rebuild_points" /\ task'["reconciler"].version = v
        /\ task'["reconciler"].acl = chunks[v] /\ task'["operator"] = task["operator"]
    <3> DEFINE u == LoopAt("rebuild_points", Rec.todo \ {v})
               t == [u EXCEPT !.version = v, !.acl = chunks[v]]
    <3>1. task' = [task EXCEPT !["reconciler"] = t]
      BY <1>3
    <3>2. t.pc = "rebuild_points" /\ t.version = v /\ t.acl = chunks[v]
      BY DEF LoopAt, NoTask
    <3> HIDE DEF t
    <3> QED BY <3>1, <3>2, OtherTask, ThreadsApart
  <2>3. Rebuilt'
    <3>1. ChunkAcl(v)
      BY DEF ServeInv
    <3>2. Rec' = task'["reconciler"] /\ UNCHANGED <<documents, scenario>>
      BY <1>1 DEF Rec
    <3> QED BY <1>3, <2>1, <2>2, <3>1, <3>2 DEF Rebuilt, ChunkAcl, Tightens
  <2>4. Viewed'
    BY <1>1, <2>1 DEF Viewed, Tightens
  <2>5. Op' = Op /\ Op.pc \notin AclPlaces
    BY <2>1, <2>2 DEF Op, ServeInv, Tightening
  <2>6. Alone' /\ Tightening'
    <3>1. Alone'
      BY <1>1, <2>1, <2>5 DEF ServeInv, Alone, Tightens, OpAt, RecAt, IngestAt
    <3>2. Tightening'
      BY <1>1, <2>5, TighteningStays DEF ServeInv, Op
    <3> QED BY <3>1, <3>2
  <2>7. OwnAcl' /\ StagedAcl' /\ \A w \in Versions : ChunkAcl(w)' /\ VersionAcl(w)'
    <3>1. \A w \in Versions : RowFades(w) /\ PlanesFade(w) /\ PurgingStays(w)
      BY <1>1, <2>1, RowsStay, PlanesStay DEF PurgingStays
    <3>2. OwnAcl'
      BY <1>1, <3>1, KnownParts, OwnAclStays DEF ServeInv, LifeInv, OthersOK
    <3>3. StagedAcl'
      BY <1>1, <3>1, StagedFades DEF ServeInv
    <3>4. ASSUME NEW w \in Versions PROVE ChunkAcl(w)' /\ VersionAcl(w)'
      <4>1. TighteningActive(w) => (TighteningActive(w))'
        BY <2>5 DEF TighteningActive
      <4> QED BY <1>1, <3>1, <4>1, ChunksFade, VersionFades DEF ServeInv, RowFades
    <3> QED BY <3>2, <3>3, <3>4
  <2> QED BY <2>3, <2>4, <2>6, <2>7 DEF ServeInv
<1> QED BY <1>2, <1>3 DEF RepairMissing

\* What is rebuilt has the ACL of its row.
LEMMA ServeRebuilt ==
    ASSUME Sheltered, LifeInv, ServeInv, rebuild_document
    PROVE  ServeInv'
<1>1. /\ Rec.pc \in Rebuilding /\ UNCHANGED <<documents, chunks, ingest, scenario, view>>
      /\ Rec.pc \notin PurgePlaces \cup {"idle"}
  BY DEF rebuild_document, RecAt, OnlyData, storeVars, boundVars, Rebuilding, PurgePlaces
<1>2. PICK v \in Versions, acl \in Acls : v = Rec.version /\ acl = Rec.acl
  BY <1>1, ThreadsApart DEF LifeInv, OthersOK, TasksOK, Sound, Rec
<1>3. /\ ~Tightens /\ acl \in scenario.acls
      /\ \/ documents[v].status = "absent" /\ "purge" \in scenario.calls
         \/ documents[v].status # "absent" /\ documents[v].acl = acl
  BY <1>1, <1>2 DEF ServeInv, Rebuilt
<1>4. Viewed'
  BY <1>1, <1>3 DEF Viewed, Tightens
<1>5. CASE Now("reconciler", "rebuild_parents") /\ UNCHANGED parents
  <2>1. /\ task'["reconciler"].pc = "rebuild_parents" /\ task'["operator"] = task["operator"]
        /\ task'["reconciler"].version = Rec.version /\ task'["reconciler"].acl = Rec.acl
    BY <1>5, TaskGoes, ThreadsApart DEF Rec
  <2>2. RebuildSettles
    BY <1>1, <2>1 DEF RebuildSettles, Rebuilding
  <2>3. \A w \in Versions : PlanesFade(w)
    BY <1>1, <1>3, <1>5 DEF PlanesFade
  <2> QED BY <1>1, <1>4, <2>1, <2>2, <2>3, LoopSettled
<1>6. CASE /\ Loop("missing", Rec.todo)
           /\ parents' = [parents EXCEPT ![v] = [status |-> "active", acl |-> acl]]
  <2>1. /\ task'["operator"] = task["operator"]
        /\ task'["reconciler"].pc \in {"missing", "deleted"}
    BY <1>6, LoopGoes
  <2>2. /\ parents'[v].status = "active" /\ parents'[v].acl = acl
        /\ \A w \in Versions : w # v => parents'[w] = parents[w]
    BY <1>6 DEF LifeInv, OthersOK, PlanesOK
  <2>3. Op' = Op /\ Op.pc \notin AclPlaces /\ ~Tightens'
    BY <1>1, <1>3, <2>1 DEF Op, ServeInv, Tightening, Tightens
  <2>4. Alone' /\ Tightening' /\ Rebuilt'
    <3>1. Alone'
      BY <1>1, <2>3 DEF ServeInv, Alone, OpAt, RecAt, IngestAt
    <3>2. Tightening'
      BY <1>1, <2>3, TighteningStays DEF ServeInv, Op
    <3>3. Rebuilt'
      BY <2>1 DEF Rebuilt, Rec, Rebuilding
    <3> QED BY <3>1, <3>2, <3>3
  <2>5. OwnAcl'
    BY <1>1, RowsStay, KnownParts, OwnAclStays DEF ServeInv, LifeInv, OthersOK
  <2>6. StagedAcl'
    <3> SUFFICES ASSUME ingest.pc \in Written, parents'[ingest.version].status # "none"
                 PROVE  parents'[ingest.version].acl = ingest.acl
      BY <1>1, <2>3 DEF StagedAcl
    <3>1. ingest.version \in Versions
      BY KnownParts DEF LifeInv, OthersOK, Written
    <3>2. CASE ingest.version = v
      <4>1. ingest.acl \in scenario.acls
        BY DEF ServeInv, OwnAcl, Written
      <4>2. CASE documents[v].status # "absent"
        <5>1. documents[v].acl = ingest.acl
          BY <3>2, <4>2 DEF ServeInv, OwnAcl, Staged
        <5> QED BY <1>3, <2>2, <3>2, <4>2, <5>1
      <4>3. CASE documents[v].status = "absent"
        <5>1. ~scenario.quiet
          BY <1>1 DEF ServeInv, Alone, RecAt, IngestAt, Written, Rebuilding
        <5>2. acl = ingest.acl
          BY <1>3, <4>1, <4>3, <5>1 DEF Sheltered, LifeInv, OthersOK, RestOK
        <5> QED BY <2>2, <3>2, <5>2
      <4> QED BY <4>2, <4>3
    <3>3. CASE ingest.version # v
      BY <2>2, <3>1, <3>3 DEF ServeInv, StagedAcl
    <3> QED BY <3>2, <3>3
  <2>7. ASSUME NEW w \in Versions PROVE ChunkAcl(w)' /\ VersionAcl(w)'
    <3>1. ChunkAcl(w)'
      BY <1>1 DEF ServeInv, ChunkAcl, Tightens
    <3>2. CASE w = v
      <4> SUFFICES ASSUME Released(v) PROVE VersionAcl(v)'
        BY <1>1, <3>1, <3>2 DEF VersionAcl, Released
      <4>1. documents[v].acl = acl
        BY <1>3 DEF Released
      <4> QED BY <1>1, <2>2, <2>3, <4>1 DEF VersionAcl, Within
    <3>3. CASE w # v
      <4>1. VersionAcl(w) /\ ~TighteningActive(w)
        BY <2>3 DEF ServeInv, TighteningActive, AclPlaces
      <4> QED BY <1>1, <2>2, <2>3, <3>1, <3>3, <4>1 DEF VersionAcl, Released, Within
    <3> QED BY <3>1, <3>2, <3>3
  <2> QED BY <1>4, <2>4, <2>5, <2>6, <2>7 DEF ServeInv
<1> QED BY <1>2, <1>5, <1>6 DEF rebuild_document

-----------------------------------------------------------------------------
(* Faults, a restart, and all steps together.                              *)

\* Who is interrupted is idle, and the others go on.
LEMMA Interrupted ==
    ASSUME LifeInv, CallFails \/ Restart
    PROVE  /\ task'["operator"] = task["operator"] \/ task'["operator"].pc = "idle"
           /\ task'["reconciler"] = task["reconciler"] \/ task'["reconciler"].pc = "idle"
           /\ ingest' = ingest \/ ingest'.pc = "idle"
<1>1. CASE task' = [t \in Threads |-> NoTask]
  BY <1>1, NothingUnderWay, ThreadsApart DEF CallFails, Restart
<1>2. CASE OpDone /\ CallFails
  BY <1>2, OperatorEnds DEF CallFails
<1>3. CASE RecDone /\ CallFails
  BY <1>3, NothingUnderWay, OtherTask, ThreadsApart DEF RecDone, CallFails
<1> QED BY <1>1, <1>2, <1>3 DEF CallFails, Restart

\* A call raises or the process ends, where no document is tightened.
LEMMA ServeTroubled ==
    ASSUME Sheltered, LifeInv, ServeInv, CallFails \/ Restart
    PROVE  ServeInv'
<1>1. ~Tightens /\ ~Tightens' /\ UNCHANGED <<documents, points, chunks, scenario>>
  <2>1. Trouble /\ UNCHANGED <<documents, points, chunks>>
    BY DEF CallFails, Restart, storeVars, planeVars
  <2>2. ~Tightens
    BY <2>1, TightenedScenario
  <2>3. UNCHANGED scenario
    BY <2>1 DEF Trouble
  <2> QED BY <2>1, <2>2, <2>3 DEF Tightens
<1>2. IngestSettles
  BY Interrupted DEF IngestSettles
<1>3. OperatorSettles
  <2>1. Op.pc \notin AclPlaces
    BY <1>1 DEF ServeInv, Tightening
  <2> QED BY <2>1, Interrupted DEF OperatorSettles, Op, AclPlaces, PurgePlaces
<1>4. RebuildSettles
  BY Interrupted DEF RebuildSettles, Rebuilding
<1>5. \A v \in Versions : PlanesFade(v)
  <2>1. CASE UNCHANGED parents
    BY <1>1, <2>1, PlanesStay
  <2>2. CASE parents' = [v \in Versions |-> Nowhere]
    <3>1. \A v \in Versions : parents'[v].status = "none"
      BY <2>2 DEF Nowhere
    <3> QED BY <1>1, <3>1 DEF PlanesFade
  <2> QED BY <2>1, <2>2 DEF CallFails, Restart, planeVars
<1>6. \A v \in Versions : RowFades(v) /\ PurgingStays(v)
  BY <1>1, RowsStay DEF PurgingStays
<1>7. Alone' /\ Viewed'
  <2>1. Alone'
    BY <1>1, Interrupted DEF ServeInv, Alone, OpAt, RecAt, IngestAt, Op, Rec
  <2> QED BY <1>1, <2>1 DEF Viewed
<1> QED
  BY <1>1, <1>2, <1>3, <1>4, <1>5, <1>6, <1>7, Settles DEF ServeInv

\* Nothing but the lease changes.
LEMMA ServeStutters ==
    ASSUME ServeInv, UNCHANGED <<storeVars, planeVars, ingest, task, view, scenario>>
    PROVE  ServeInv'
BY DEF ServeInv, Alone, Tightening, OwnAcl, StagedAcl, ChunkAcl, VersionAcl, Rebuilt, Viewed, Tightens,
       Within, Released, Whole, Purging, TighteningActive, RecAt, OpAt, IngestAt, Op, Rec, Rows,
       storeVars, planeVars

LEMMA ServeStep ==
    ASSUME Committed, Sheltered, Callers, OneTenant,
           LifeInv, RowAcl, FenceInv, ServeInv, [LifecycleNext]_lifecycleVars
    PROVE  ServeInv'
<1>1. CASE Ask
  <2>1. ASSUME NEW ctx \in Principals, NEW v \in Versions, NEW acl \in Acls \cup {None},
               update(ctx, v, acl)
        PROVE  ServeInv'
    BY <2>1, ServeDelivered DEF update
  <2> QED
    BY <1>1, <2>1, ServeDelivered, ServeCalled, ServeTightened, ServeRolledBack DEF Ask
<1>2. CASE Advance \/ IngestFails
  BY <1>2, ServeReadBase, ServeAcquired, ServeStaged, ServeVerified, ServeCommitted,
     ServePublished, ServeEnded, ServeCompensated DEF Advance
<1>3. CASE Operate
  <2>1. CASE ChangeRow
    BY <2>1, ServeRowDeleted, ServeRowTightened DEF ChangeRow
  <2>2. CASE PatchParents
    BY <2>2, ServeParentsPatched, ServeParentsTightened
  <2> QED
    BY <1>3, <2>1, <2>2, ServeResolved, ServePointsPatched, ServePurged, ThreadsApart DEF Operate
<1>4. CASE Reconcile
  BY <1>4, ServeRunStarted, ServeScrolled, ServeListed, ServeRepaired, ServeMissing, ServeRebuilt,
     ServeCleanup, ServePurged, ThreadsApart DEF Reconcile
<1>5. CASE CallFails \/ Restart
  BY <1>5, ServeTroubled
<1>6. CASE LeaseExpires
  BY <1>6, ServeStutters DEF LeaseExpires, boundVars
<1>7. CASE UNCHANGED lifecycleVars
  BY <1>7, ServeStutters DEF lifecycleVars, runVars, boundVars
<1> QED BY <1>1, <1>2, <1>3, <1>4, <1>5, <1>6, <1>7 DEF LifecycleNext

\* Nobody is served a version that its row denies him, except while a tightening
\* still has planes to patch: load_parent_for_hit decides on the ACL of the
\* parent, and no parent of a released version allows more than its row.
THEOREM ServedIsAllowedHolds ==
    ASSUME Stamps = Nat, Committed, Sheltered, Callers, OneTenant
    PROVE  LifecycleSpec => []ServedIsAllowed
<1>1. LifecycleInit => RowAcl /\ FenceInv /\ ServeInv
  <2> SUFFICES ASSUME LifecycleInit PROVE RowAcl /\ FenceInv
    BY ServeInit
  <2>1. ActiveVersions = {} /\ Rows = {}
    BY DEF LifecycleInit, Init, NoDocument, ActiveVersions, Rows
  <2>2. ingest.pc = "idle"
    BY NothingUnderWay DEF LifecycleInit
  <2> QED BY <2>1, <2>2 DEF RowAcl, FenceInv, ActiveCounted, OwnRow, OwnJob, Fence, Building
<1>2. LifeInv /\ RowAcl /\ FenceInv /\ ServeInv /\ [LifecycleNext]_lifecycleVars
        => (RowAcl /\ FenceInv /\ ServeInv)'
  <2> SUFFICES ASSUME LifeInv, RowAcl, FenceInv, ServeInv, [LifecycleNext]_lifecycleVars
               PROVE  RowAcl' /\ FenceInv' /\ ServeInv'
    OBVIOUS
  <2>1. RowAcl'
    BY LifeStep, RowAclKept DEF InOrder, LifeInv, IInv
  <2> QED BY <2>1, FenceStep, ServeStep
<1>3. LifeInv /\ ServeInv => ServedIsAllowed
  <2> SUFFICES ASSUME LifeInv, ServeInv, NEW ctx \in Principals, NEW v \in Versions,
                      Serves(ctx, v), ~TighteningActive(v)
               PROVE  evaluate_access(ctx, documents[v].acl)
    BY DEF ServedIsAllowed
  <2>1. get_active_version = v /\ parents[v].status = "active" /\ evaluate_access(ctx, parents[v].acl)
    BY DEF Serves, Retrieved, load_parent_for_hit, resource_passes_filter
  <2>2. v \in ActiveVersions
    BY <2>1, ActiveVersionType, NoneAssumption DEF LifeInv, IInv
  <2>3. Within(parents[v].acl, documents[v].acl)
    BY <2>1, <2>2 DEF ServeInv, VersionAcl, Released, ActiveVersions
  <2> QED BY <2>1, <2>3 DEF Within
<1> QED BY <1>1, <1>2, <1>3, LifeInvHolds, PTL DEF LifecycleSpec
=============================================================================
