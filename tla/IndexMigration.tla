--------------------------- MODULE IndexMigration ---------------------------
(***************************************************************************)
(* The index migration of one corpus: collections built beside the one in  *)
(* use, the pointer that says which one retrieval reads, and its two       *)
(* homes: the corpus_registry table, shared by all processes, and the      *)
(* registry in the memory of each.  A process does one thing at a time: it *)
(* builds, switches, rolls back or reconciles.  Ingestion writes to the    *)
(* collection named after the corpus, wherever the pointer is; of its      *)
(* versions only the active one matters here.                              *)
(***************************************************************************)
EXTENDS Integers, Sequences

CONSTANTS
    Procs,       \* processes with a registry of their own
    Corpus,      \* the collection named after the corpus
    Targets,     \* names of migrated collections
    Configured,  \* the pointer in the configuration file
    Versions,    \* versions of a document
    None,        \* SQL NULL
    MaxAsked,    \* bound on builds, switches and rollbacks
    MaxStarts,   \* bound on restarts of a process
    MaxFaults    \* bound on registries that refuse the new pointer

Collections == Targets \cup {Corpus}
Pointers == Collections \cup {None}

ASSUME CorpusAssumption == Corpus \notin Targets
ASSUME ConfiguredAssumption == Configured \in Pointers
ASSUME NoneAssumption == None \notin Collections \cup Versions
ASSUME BoundsAssumption == MaxAsked \in Nat /\ MaxStarts \in Nat /\ MaxFaults \in Nat

VARIABLES
    persisted,    \* corpus_registry.vector_collection
    live,         \* process -> vector_collection in its registry
    collections,  \* the collections that exist
    content,      \* collection -> versions whose points in it are active
    ledger,       \* index_builds, in the order of their started_at
    lease,        \* index_switch_leases
    op,           \* process -> the operation it is in
    rec,          \* process -> the reconciler's run it is in
    active,       \* the active version of the document
    published,    \* the versions that have been active
    asked, starts, faults

stores == <<persisted, collections, content, ledger, lease>>
bounds == <<asked, starts, faults>>
indexVars == <<stores, live, op, rec, active, published, bounds>>

Build == [collection : Collections, previous : Collections,
          status : {"building", "active", "switched"}]

\* An owner is a number, fresh for every operation; 0 is nobody.
Lease == [owner : Nat, expired : BOOLEAN]
NoLease == [owner |-> 0, expired |-> FALSE]

OpPlace == {"idle", "rows", "upsert", "begin", "complete",
            "previous", "lease", "flip", "mirror", "compensate", "release"}

\* `row` is the build's place in the ledger.  `failed` and `reset` are histories:
\* the live registry refused; a process registered the corpus since the flip.
Operation == [pc : OpPlace, owner : Nat, target : Pointers, previous : Pointers,
              rows : SUBSET Versions, row : Nat, failed : BOOLEAN, reset : BOOLEAN]
NoOperation == [pc |-> "idle", owner |-> 0, target |-> None, previous |-> None,
                rows |-> {}, row |-> 0, failed |-> FALSE, reset |-> FALSE]

Run == [pc : {"idle", "snapshot", "repair"}, collection : Pointers,
        seen : SUBSET Versions]
NoRun == [pc |-> "idle", collection |-> None, seen |-> {}]

-----------------------------------------------------------------------------
(* The pointer.                                                            *)

\* NULL falls back to the collection named after the corpus.
Effective(pointer) == IF pointer = None THEN Corpus ELSE pointer

resolve_collection_name(p) == Effective(live[p])

ActiveRows == {v \in Versions : v = active}

At(p, place) == op[p].pc = place
Goto(p, place) == op' = [op EXCEPT ![p].pc = place]
Idle(p) == At(p, "idle") /\ rec[p].pc = "idle"
OpDone(p) == op' = [op EXCEPT ![p] = NoOperation]

Ask(p, request) ==
    /\ Idle(p)
    /\ asked < MaxAsked
    /\ asked' = asked + 1
    /\ op' = [op EXCEPT ![p] = request]
    /\ UNCHANGED <<starts, faults, persisted, content, ledger, lease, live, rec,
                   active, published>>

-----------------------------------------------------------------------------
(* build_index_v2: a collection beside the one in use, never cleared.      *)

\* Mutant: the pointer is recorded as it is, NULL included.
Bug_build_index_v2_raw_pointer(p, c) ==
    /\ Ask(p, [NoOperation EXCEPT !.pc = "rows", !.target = c, !.previous = live[p]])
    /\ collections' = collections \cup {c}

build_index_v2(p, c) ==
    /\ Ask(p, [NoOperation EXCEPT !.pc = "rows", !.target = c,
                                  !.previous = resolve_collection_name(p)])
    /\ collections' = collections \cup {c}

iter_active_child_chunks(p) ==
    /\ At(p, "rows")
    /\ op' = [op EXCEPT ![p].pc = "upsert", ![p].rows = ActiveRows]
    /\ UNCHANGED <<stores, live, rec, active, published, bounds>>

\* Points are added; those of versions retired meanwhile stay.
UpsertRows(p) ==
    /\ At(p, "upsert")
    /\ content' = [content EXCEPT ![op[p].target] = @ \cup op[p].rows]
    /\ Goto(p, "begin")
    /\ UNCHANGED <<persisted, collections, ledger, lease, live, rec, active, published, bounds>>

begin_index_build(p) ==
    /\ At(p, "begin")
    /\ ledger' = Append(ledger, [collection |-> op[p].target, previous |-> op[p].previous,
                                 status |-> "building"])
    /\ op' = [op EXCEPT ![p].pc = "complete", ![p].row = Len(ledger) + 1]
    /\ UNCHANGED <<persisted, collections, content, lease, live, rec, active, published, bounds>>

complete_index_build(p) ==
    /\ At(p, "complete")
    /\ ledger' = [ledger EXCEPT ![op[p].row].status = "active"]
    /\ OpDone(p)
    /\ UNCHANGED <<persisted, collections, content, lease, live, rec, active, published, bounds>>

-----------------------------------------------------------------------------
(* _switch_pointer, for switch_index and rollback_index.                   *)

_switch_pointer(p, target) ==
    /\ target \in collections
    /\ Ask(p, [NoOperation EXCEPT !.pc = "previous", !.owner = asked + 1, !.target = target])
    /\ UNCHANGED collections

switch_index(p, c) == _switch_pointer(p, c)

\* The collection that was in use when the latest build started.
rollback_index(p) ==
    /\ ledger # <<>>
    /\ _switch_pointer(p, ledger[Len(ledger)].previous)

\* Before the lease: what a failed switch will put back.
ReadPrevious(p) ==
    /\ At(p, "previous")
    /\ op' = [op EXCEPT ![p].pc = "lease", ![p].previous = persisted]
    /\ UNCHANGED <<stores, live, rec, active, published, bounds>>

LeaseFree(owner) == lease.owner \in {0, owner} \/ lease.expired

acquire_index_switch_lease(p) ==
    /\ At(p, "lease")
    /\ \/ /\ LeaseFree(op[p].owner)
          /\ lease' = [owner |-> op[p].owner, expired |-> FALSE]
          /\ Goto(p, "flip")
       \/ /\ ~LeaseFree(op[p].owner)              \* IndexSwitchConflict
          /\ OpDone(p)
          /\ UNCHANGED lease
    /\ UNCHANGED <<persisted, collections, content, ledger, live, rec, active, published, bounds>>

\* Mutant: the owner of the lease is not compared.
Bug_Holds_not_compared(p) == TRUE

Holds(p) == lease.owner = op[p].owner

\* The pointer and the builds of its collection change together.
set_active_collection_atomic(pointer) ==
    /\ persisted' = pointer
    /\ ledger' = [k \in DOMAIN ledger |->
                    IF ledger[k].collection = pointer
                    THEN [ledger[k] EXCEPT !.status = "switched"] ELSE ledger[k]]

\* A lease that was taken over meanwhile makes the flip, or the compensation,
\* raise; the operation then gives up what it still has.
Flip(p) ==
    /\ At(p, "flip")
    /\ \/ /\ Holds(p)
          /\ set_active_collection_atomic(op[p].target)
          /\ Goto(p, "mirror")
       \/ /\ ~Holds(p)
          /\ op' = [op EXCEPT ![p].pc = "release", ![p].failed = TRUE]
          /\ UNCHANGED <<persisted, ledger>>
    /\ UNCHANGED <<collections, content, lease, live, rec, active, published, bounds>>

Mirror(p) ==
    /\ At(p, "mirror")
    /\ \/ /\ live' = [live EXCEPT ![p] = op[p].target]
          /\ Goto(p, "release")
          /\ UNCHANGED faults
       \/ /\ faults < MaxFaults
          /\ faults' = faults + 1
          /\ op' = [op EXCEPT ![p].pc = "compensate", ![p].failed = TRUE]
          /\ UNCHANGED live
    /\ UNCHANGED <<stores, rec, active, published, asked, starts>>

Compensate(p) ==
    /\ At(p, "compensate")
    /\ IF Holds(p) THEN set_active_collection_atomic(op[p].previous)
       ELSE UNCHANGED <<persisted, ledger>>
    /\ Goto(p, "release")
    /\ UNCHANGED <<collections, content, lease, live, rec, active, published, bounds>>

release_index_switch_lease(p) ==
    /\ At(p, "release")
    /\ lease' = IF Holds(p) THEN NoLease ELSE lease
    /\ OpDone(p)
    /\ UNCHANGED <<persisted, collections, content, ledger, live, rec, active, published, bounds>>

\* The lease's time is over, whatever its owner is doing.
LeaseExpires ==
    /\ lease.owner # 0 /\ ~lease.expired
    /\ lease' = [lease EXCEPT !.expired = TRUE]
    /\ UNCHANGED <<persisted, collections, content, ledger, live, op, rec, active,
                   published, bounds>>

-----------------------------------------------------------------------------
(* Processes that start, ingestion and the reconciler.                     *)

\* A process starts anew: the configured corpora are registered in the table
\* and in its own registry.  What it was doing, its lease included, is left.
register_corpus(p) ==
    /\ starts < MaxStarts
    /\ starts' = starts + 1
    /\ persisted' = Configured
    /\ live' = [live EXCEPT ![p] = Configured]
    /\ op' = [q \in Procs |-> IF q = p THEN NoOperation ELSE [op[q] EXCEPT !.reset = TRUE]]
    /\ rec' = [rec EXCEPT ![p] = NoRun]
    /\ UNCHANGED <<collections, content, ledger, lease, active, published, asked, faults>>

\* A version is ingested: it replaces the active one, in the control plane and
\* in the collection named after the corpus.
Publish(v) ==
    /\ v \notin published
    /\ published' = published \cup {v}
    /\ active' = v
    /\ content' = [content EXCEPT ![Corpus] = {v}]
    /\ UNCHANGED <<persisted, collections, ledger, lease, live, op, rec, bounds>>

\* Mutant: a pointer that was reset to NULL is no reason to realign.
Bug_Realign_ignores_null(p) ==
    /\ Idle(p)
    /\ live' = [live EXCEPT ![p] = IF persisted = None THEN @ ELSE persisted]
    /\ rec' = [rec EXCEPT ![p] = [NoRun EXCEPT !.pc = "snapshot",
                                     !.collection = Effective(live'[p])]]
    /\ UNCHANGED <<stores, op, active, published, bounds>>

\* The reconciler's run starts with the pointer of its own process.  Runs of
\* several processes may overlap: the reconciler's lease is not renewed.
Realign(p) ==
    /\ Idle(p)
    /\ live' = [live EXCEPT ![p] = IF Effective(@) = Effective(persisted) THEN @
                                   ELSE Effective(persisted)]
    /\ rec' = [rec EXCEPT ![p] = [NoRun EXCEPT !.pc = "snapshot",
                                     !.collection = Effective(persisted)]]
    /\ UNCHANGED <<stores, op, active, published, bounds>>

Snapshot(p) ==
    /\ rec[p].pc = "snapshot"
    /\ rec' = [rec EXCEPT ![p].pc = "repair", ![p].seen = ActiveRows]
    /\ UNCHANGED <<stores, live, op, active, published, bounds>>

\* Mutant: what is missing is rebuilt in the collection named after the corpus.
Bug_Repair_rebuilds_in_corpus(p) ==
    /\ rec[p].pc = "repair"
    /\ content' = IF rec[p].collection \notin collections THEN content
                  ELSE [content EXCEPT ![Corpus] = @ \cup rec[p].seen,
                                       ![rec[p].collection] = @ \cap rec[p].seen]
    /\ rec' = [rec EXCEPT ![p] = NoRun]
    /\ UNCHANGED <<persisted, collections, ledger, lease, live, op, active, published, bounds>>

\* Of the versions seen active those without points are rebuilt in the collection
\* of the run; the points of all others are hidden.
Repair(p) ==
    /\ rec[p].pc = "repair"
    /\ content' = [content EXCEPT ![rec[p].collection] = rec[p].seen]
    /\ rec' = [rec EXCEPT ![p] = NoRun]
    /\ UNCHANGED <<persisted, collections, ledger, lease, live, op, active, published, bounds>>

-----------------------------------------------------------------------------
IndexInit ==
    /\ persisted = Configured
    /\ live = [p \in Procs |-> Configured]
    /\ collections = {Corpus}
    /\ content = [c \in Collections |-> {}]
    /\ ledger = <<>>
    /\ lease = NoLease
    /\ op = [p \in Procs |-> NoOperation]
    /\ rec = [p \in Procs |-> NoRun]
    /\ active = None
    /\ published = {}
    /\ asked = 0 /\ starts = 0 /\ faults = 0

Request(p) ==
    \/ \E c \in Targets : build_index_v2(p, c)
    \/ \E c \in Collections : switch_index(p, c)
    \/ rollback_index(p)

Operate(p) ==
    \/ iter_active_child_chunks(p) \/ UpsertRows(p)
    \/ begin_index_build(p) \/ complete_index_build(p)
    \/ ReadPrevious(p) \/ acquire_index_switch_lease(p) \/ Flip(p)
    \/ Mirror(p) \/ Compensate(p) \/ release_index_switch_lease(p)

Reconcile(p) == Realign(p) \/ Snapshot(p) \/ Repair(p)

IndexNext ==
    \/ \E p \in Procs : Request(p) \/ Operate(p) \/ Reconcile(p) \/ register_corpus(p)
    \/ \E v \in Versions : Publish(v)
    \/ LeaseExpires

IndexSpec == IndexInit /\ [][IndexNext]_indexVars

\* An operation goes on, and the reconciler is run in every process again and
\* again.
FairIndexSpec ==
    /\ IndexSpec
    /\ \A p \in Procs : WF_indexVars(Operate(p)) /\ WF_indexVars(Reconcile(p))

-----------------------------------------------------------------------------
(* Properties.                                                             *)

\* The tables and registries hold what their writers put there, and a build's
\* row is in the ledger when its status is set.
IndexTypeOK ==
    /\ persisted \in Pointers
    /\ live \in [Procs -> Pointers]
    /\ collections \subseteq Collections
    /\ content \in [Collections -> SUBSET Versions]
    /\ ledger \in Seq(Build)
    /\ lease \in Lease
    /\ op \in [Procs -> Operation]
    /\ rec \in [Procs -> Run]
    /\ active \in Versions \cup {None}
    /\ published \subseteq Versions
    /\ \A p \in Procs : At(p, "complete") => op[p].row \in 1 .. Len(ledger)
    /\ asked \in 0 .. MaxAsked /\ starts \in 0 .. MaxStarts /\ faults \in 0 .. MaxFaults

\* Between its flip and its release a switch that still has the lease finds the
\* pointer where it put it: no other switch, rollback or compensation moves it,
\* though leases expire and are taken over (index_migration.py: _switch_pointer).
SwitchIsKept ==
    \A p \in Procs :
        /\ At(p, "mirror") \/ At(p, "release")
        /\ lease.owner = op[p].owner
        /\ ~op[p].failed /\ ~op[p].reset
        => persisted = op[p].target

\* Once nobody switches any more the registries of all processes agree with the
\* table, after takeovers, compensations and restarts (reconciler.py, realign).
PointersConverge ==
    <>[](\A p \in Procs : resolve_collection_name(p) = Effective(persisted))

\* And the active version is found in the collection that retrieval reads, though
\* ingestion never writes there.
ActiveIsSearchable ==
    <>[](\A p \in Procs : ActiveRows \subseteq content[resolve_collection_name(p)])
=============================================================================
