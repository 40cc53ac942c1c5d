# A verification of the agentic RAG service

These modules describe the parts of `src/agentic_rag_enterprise` whose
correctness rests on the order of events: the ingestion of documents by several
workers over a shared metadata database, the control plane that decides which
version of a document readers may see, the operations and the reconciler that keep
the derived stores in agreement with it, the migration of an index, the execution of
a query plan on threads, the loop that answers a question in rounds over a
checkpoint, and the selection of evidence from several corpora. They are written
in TLA+, model-checked with TLC on small instances and, where it says so below, proved
with TLAPS for every value of their constants.

Paths below are relative to the repository. `MS` is
`src/agentic_rag_enterprise/storage/metadata_store.py`, `JB` is
`src/agentic_rag_enterprise/ingestion/job.py`, `EX` is
`src/agentic_rag_enterprise/planner/executor.py`, `CS` is
`src/agentic_rag_enterprise/services/chat_service.py`, `RC` is
`src/agentic_rag_enterprise/ingestion/reconciler.py` and `IM` is
`src/agentic_rag_enterprise/ingestion/index_migration.py`. `PROJECT.json` names, for every
definition, the lines it translates.

## 1. The system

The service answers questions over corpora of documents. Documents are ingested
by jobs: parsed, cut into parents and chunks, encoded, written to three stores,
verified, committed and published. Questions are answered by retrieving chunks
that the caller may read, judging whether they suffice, retrieving again for
the gaps, and composing an answer from verified claims.

| Component | State | Operations | Interacts with |
|---|---|---|---|
| Metadata store (`storage/metadata_store.py`) | SQLite tables: documents, chunks, ingestion_jobs, job_steps, document_builds, reconciler and index tables, run checkpoints | acquire_job, commit, rollback, logical delete, ACL change, purge, terminal job, markers, leases | every other component; one database file for all processes, one connection per process |
| Ingestion job (`ingestion/job.py`, class IngestionJob) | the instance (attempt, fencing generation, `_commit_performed`), the build guard of the process | run: check, acquire, write parents, write points and chunk rows, verify, commit, publish, finalize, compensate | metadata store, vector store, parent store |
| Document lifecycle (`ingestion/job.py`, class DocumentManager) | none of its own | ingest, delete, purge, tighten_acl, rollback, rebuild | the three stores |
| Vector store (`storage/vector_store.py`) | Qdrant collections and aliases, on a server shared by all processes | upsert, update payload, delete, search | ingestion, lifecycle, reconciler, migration, retrieval |
| Parent store (`storage/parent_store.py`) | parents in the memory of one process | put, deprecate, delete, read with authorization | ingestion, lifecycle, retrieval |
| Reconciler (`ingestion/reconciler.py`) | a lease with an expiry, findings | snapshot the stores, repair or report | all stores, a purge callback |
| Index migration (`ingestion/index_migration.py`) | index builds, the active collection of a corpus, a switch lease | build, validate, switch, roll back | metadata store, registry, vector store |
| Plan executor (`planner/executor.py`, `budget.py`, `binding.py`) | completed steps, the shared budget | run a plan layer by layer on threads, with retries, timeouts and dependencies | tool registry, tools |
| Plan validator and repair | none | reject or repair a plan before it runs | tool registry |
| Iteration loop (`services/chat_service.py`) | evidence, coverage, counters; one checkpoint row per run | rounds of retrieve, judge, stop or go on; resume after a crash | retrieval, judge, metadata store |
| Judge and stop policy (`judge/`) | the number of rounds without gain | coverage verdict, stop decision, gap queries | iteration loop |
| Evidence store (`storage/evidence_store.py`) | immutable snapshots | save once, read with authorization | metadata store |
| Retrieval (`retrieval/`) | none | search, gate on active version and ACL, parents, merge of corpora | vector store, metadata store, parent store |
| Security policy (`security/`) | none | access decision, vector filter | retrieval, evidence, checkpoints |
| Conflict resolver, answer builder, corpus router | none | pure functions of their inputs | iteration loop, chat service |
| API, UI, providers, evaluation, configuration | none that the protocols depend on | request mapping, external calls, measurements | services |

### What is hard here

* **Interleavings.** Deliveries of one document run on several threads and in
  several processes. The build guard (JB:84-106) excludes only within a process;
  between processes there is only the lease in the database.
* **Writes to stores without transactions.** Points, chunk rows, parents and
  control-plane rows change one after the other; any call may raise, and a
  process may end between any two of them.
* **Tokens, stamps and markers.** A lease generation fences stale attempts, a
  revision stamps what is visible, and step markers tell a resumed job what it
  can skip. Each is read at one moment and used at another.
* **Retries, budgets and abandoned calls** in the plan executor, and
  **checkpoints** of a loop whose counters live partly in memory.

What must hold, per component:

* control plane: one active version at any time; a compare-and-swap that no
  visible change can pass by; leases and jobs that agree;
* ingestion: one build of a version at a time; a commit only of complete data;
  nothing undone that is visible; a committed version becomes visible in the
  end and the one it replaced is retired;
* lifecycle, reconciler, migration: control plane and data planes converge, and
  what was deleted or narrowed stays so;
* executor: the budget is never exceeded, a step runs only after what it
  depends on, a late answer is never used;
* iteration: it ends; a resumed run uses only evidence that is authorized at
  that time and never undoes a decision to stop;
* evidence and retrieval: what is returned was authorized when it was read.

The hazards in `PROJECT.json` list these points line by line.

## 2. Modules

| Module | What it models |
|---|---|
| `ActiveVersion` | the abstract register: what is visible of a document, and a revision that grows by one whenever it changes |
| `MetadataStore` | the tables documents, document_builds and ingestion_jobs for one document; one action per public method |
| `MetadataStoreProofs` | theorems about it |
| `MCMetadataStore` | its bounds for TLC |
| `IngestionJob` | `IngestionJob.run` by workers of several processes over `MetadataStore` (EXTENDS) and the data planes |
| `IngestionJobProofs` | theorems about it |
| `MCIngestionJob` | its small instances |
| `PlanExecutor` | `PlanExecutor.execute`: validation, layers, threads, budget, retries, timeouts |
| `PlanExecutorProofs` | theorems about it |
| `MCPlanExecutor` | its plans for TLC |
| `ChatIteration` | `ChatService.answer_with_iteration` and `resume_run`: rounds, stop policy, checkpoint row, crash and resume, changes of access |
| `ChatIterationProofs` | theorems about it |
| `MCChatIteration` | its worlds for TLC |
| `AccessPolicy` | the access decision, the tightening test and the vector filter, as operators |
| `AccessPolicyProofs` | theorems about them |
| `DocumentLifecycle` | DocumentManager's operations and the Reconciler over `MetadataStore` and `AccessPolicy` (EXTENDS) and the data planes |
| `DocumentLifecycleProofs` | theorems about it |
| `MCDocumentLifecycle` | its scenarios for TLC |
| `IndexMigration` | build, switch and rollback of a corpus's collection, in several processes |
| `IndexMigrationProofs` | theorems about it |
| `MCIndexMigration` | its instance for TLC |
| `EvidenceSelection` | `ChatService.answer_multi_corpus`: routing, searches, merge, temporal filter, conflict resolver, refusal or answer |
| `EvidenceSelectionProofs` | theorems about it |
| `MCEvidenceSelection` | its snapshots for TLC |

### MetadataStore

`documents`, `builds` and `jobs` are functions from versions and job ids to
rows. A row keeps the columns that a guard or a write of the code reads: the
status, the lifecycle revision, the content hash and the ACL of a version; the
owner, the generation, the attempt and the replaced version of a lease; the
bound request, the base revision and the replaced version of a job. Status
`"absent"` is "no such row". All statements of the store are keyed by tenant,
corpus and document, so one document is the whole of what they touch.

A method that runs in `BEGIN IMMEDIATE ... COMMIT` is one action. Where it
raises, the transaction is rolled back; the action is then disabled, and the
condition has a name (`LeaseGranted`, `IdentityMatches`, `CommitAccepted`) that
callers test. `delete_document` runs autocommitted statements and is therefore
several actions; the last one is refused by the foreign key while job rows are
left (the foreign key of the chunk rows, which are no table here, is a guard of
`DocumentLifecycle`). `rollback_active_version` takes any target that the code accepts.

### IngestionJob

`worker[w]` is the execution a thread is in: where it is (`pc`), its request,
attempt, base revision and fencing generation, and the flag `_commit_performed`.
Everything in it is lost when run() ends or the process crashes. `points[v]` and
`chunks[v]` are the Qdrant points and the chunk rows of a version, `parents[p][v]`
the parents in the memory of process p, `steps[j]` the markers of job j.

A step of the code that makes several calls is several places of `pc`; one action
is one call. The methods of the code keep their names. `publish` is fence,
promote the points, promote the parents, retire the parents of the replaced
version, retire its points. `_compensate` is its test and five calls.

`Raise` is an exception of a call: in the try block it leads to the handler,
inside the handler it escapes and leaves job and lease as they are. `Crash` ends
a process at any point. `Deliver` is a call of run() with or without `recover`.

Abstractions, each a merge of reads that cannot see different values in between,
or data that no property tells apart:

* `Precheck` merges the read of the job row and of the version row. The binding of
  a job never changes, and both are checked again by acquire.
* `OwnerCheck` merges the read of the owner and of the owner's status; the fence
  merges the reads of owner and generation (a generation only grows).
* Parsing and chunking recompute what is deterministic and leave no state.
* A version has one content and the identifiers of its artifacts are derived from
  it (content-addressed), so each plane has one value per version.
* An attempt id is fresh; there are finitely many, and ids of ended attempts that
  appear on no lease may be used again.

### PlanExecutor

`plan` is chosen once from `Plans`; of a step it keeps the required and optional
dependencies, the number of corpora and the calls it may make. `task[s]` is where
the thread of step s is and how many attempts it made, `result[s]` what it
returned, `results` the dictionary that later layers read (EX:124), filled a layer
at a time. `used` is the counter of `AtomicToolBudget`, `late[s]` the number of
abandoned calls of s that still run.

One action is what a thread does between two things that others can see: taking a
step from the queue of the pool and checking it (`_execute_single_step`), one
reservation under the lock (`try_reserve`), the return of a call (`Answer`), its
deadline (`Timeout`). `_execute_layer` is the end of a layer: the pool is left when
all threads are over, then an error that fails closed is raised or the results
become visible and the next layer is submitted; after the last one it includes
`_build_result`, which raises without evidence.

Which error a lookup, a binding or a tool produces is a choice. The checks of the
validator that concern single fields and authorizations reject a plan before
anything runs; `Plans` holds the plans that pass them.

### ChatIteration

`row` is the row of `run_checkpoints` for one run: status, round index and the
state that is stored. `mem` is the request in progress, all of it lost when the
request ends: its place, the working state, the count of rounds without gain (kept
by the stop policy, CS:1205 makes a new one), and what a resume still has to
re-authorize. `answer` is the envelope last returned. `authorized` is what the
principal may read now; it changes at any moment by `Revoke` and `Restore`.
`searches` is a history: the retrievals that the requests of the run have really made,
those included whose round ended before its checkpoint was written.

One round is one action, since nothing else writes what it reads: `NoneKept`,
`Contradiction`, `Judged` and `JudgeFault` are its outcomes after the retrieval and
the conflict stage, `Exhausted` is a round without a pending gap query, `LoopOver`
the end of the range. The writes of the row are actions of their own, so that a crash
falls before, between and after them: `save_run_checkpoint`, and the mark as done in
`MarkStop`, `MarkLast` and `MarkRefuse`. After a stop the mark precedes the answer,
after the last round it follows it, as in the code. `Resume` re-authorizes one
piece of evidence after the other and then takes the branch of resume_run: all
lost, some lost (rebuild and recompute), completed (repeat the answer), or
go on.

Retrieval, the conflict stage and the judge are functions of what they are given; a
`World` is one choice of them, made once. What the code guarantees of them is in
`WorldAssumption`. The judge's matching and the model's texts are not in it: a fact
has any status of the enumeration. Left out are Stage B of the answer (claims), the
accounting of refusals, and the gates on principal, policy and corpus, which refuse
a request without an effect. The retrieval of a round is filtered by the access of
that moment.

`ReuseRunId` says whether a run id that has a checkpoint may be started again, which
a request without `resume` can do. The store then updates the row and keeps
its status (MS:1748-1763), so a completed run gets a state of round 0; the contract
(docs/issue-e023-contract.md:49-52) gives a run to one execution. All instances, and
the theorems that say so, have it FALSE. One request of a run is active at a time: the
contract leaves concurrent writers out of its scope.

### AccessPolicy

A principal and an ACL are records; lists are read as sets. `build_access_filter`
is a set of conditions and `Accepts` what Qdrant makes of them: a field, scalar or
list, matches if one of its values is among those of the condition, an alternative
is a `should`. `resource_passes_filter` is the projection that the Parent Store uses.

### DocumentLifecycle

A step is one call that writes, together with the reads that directly precede it; this
holds of the ingestion, of its publication and its compensation, of the operations, of a
purge and of the reconciler's rebuild. Merged are the deletion of a job and of its step
markers, which are no variable here, and the calls for the single parents and points of
a version: a store takes all of a version at once. A loop of the reconciler that has
nothing left to look at is followed at once by the next one, and the entries of a loop
come in any order. The job rows, leases and compare-and-swap of the ingestion are those
of `MetadataStore`, which this module extends. `task["operator"]` is the DocumentManager
call under way, `task["reconciler"]` the run of the Reconciler, `view` the snapshot that
the run took; `points`, `parents` and `chunks` are status and ACL of the three planes of
a version, `inserted` the order of the rowids, which decides between rows of one
revision. The reconciler's lease belongs to one process at a time and expires when the
process ends in a run. `Restart` loses everything a process keeps in memory, the parents
included.

A chunk row refers to its document (migrations/001_initial_schema.sql:130), which
is a guard on both sides: a build writes none without the row of its version,
and the last statement of a purge fails while there are any (`Referenced`).

`Serves` is a retrieval in one glance: the corpus gate, the filtered search, the gate
on the active version, and the second authorization of the parent.

A `Scenario` says how many deliveries and calls a behaviour has, of which kinds,
under which ACLs, and with how many faults; the reconciler is never counted. `first`
names the version that may be delivered first, since the names mean nothing. In a
`quiet` scenario its runs do not overlap with anything else, which keeps two of the
scenarios small; the other two let it run at any time.

### IndexMigration

The pointer to a corpus's collection has two homes: the table `corpus_registry`
(`persisted`), shared, and the registry in the memory of each process (`live`). A
process does one operation at a time (`op[p]`), a step per call: build_index_v2
(create, read the rows, upsert, two writes of the ledger), and `_switch_pointer`
(read the old pointer, take the lease, flip, mirror, compensate, release) for switch
and rollback. Owners of a lease are numbers, fresh for each operation. A lease may
expire at any moment. `register_corpus` is the start of a process, which writes the
configured pointer into the table. `Publish` stands for an ingestion, which writes to
the collection named after the corpus; `Realign`, `Snapshot` and `Repair` are the
reconciler's run of a process.

### EvidenceSelection

One request from the choice of corpora to the envelope. Evidence is a function from
places (corpus, position) to snapshots, so that a snapshot keeps its identity when
others are dropped and the order of the places is the order of the code's lists. The
router's scores, the hits of a search (any list the constants allow, authorized
already), the assertion in a text and the days of a query are inputs; what the code
does with them (how many corpora, the widening, deduplication, folding of copies,
the window test, the groups and the pairs of the resolver, the completeness) is
modelled. The caller may name corpora in any order and one of them twice, as
`answer_multi_corpus` takes `corpus_ids` (CS:389-391); `per_corpus` is the dictionary of
retrieve(), in which a later result of a corpus replaces an earlier one, and `failed`
counts the searches that failed, which is what retrieve() compares with their number.
`resolve` forms its pairs once, over what the version phase left.
Evidence ids are fresh uuids, so the deduplication by id never fires and is left out;
so is the flag `deprecated`, which EvidenceBuilder always writes as False.

## 3. Runs

TLC checks deadlock nowhere: a store whose callers stop, and workers without
further deliveries, may rest.

| Run | Question | Bounds |
|---|---|---|
| `store` | schema; one active version with the maximal revision; leases that agree with jobs; implementation of `ActiveVersion` | 2 versions, 2 jobs, revisions and generations up to 2 |
| `job_duplicates` | one build of a version before its commit; one execution passes the fence | 2 processes, 2 jobs for 1 version, a fault in any step or in the compensation, a crash |
| `job_versions` | only complete data is committed; a commit replaces what its job row names; what is reported as done is visible | 2 workers of 1 process, 2 versions with a job each, a fault in any step |
| `job_liveness` | a committed version becomes visible | 1 worker, 2 versions, a fault anywhere, a crash, generations up to 4 |
| `plan_executor` | the budget suffices and is accounted for; order of dependencies; complete reports; failing closed; termination | plans of 3 steps: 27 graphs in declaration order, a join declared first, 2 cycles; 3 budgets; 2 threads |
| `chat` | fresh evidence; a verdict that fits it; no query or round recorded twice, no search made without being recorded but one for each failure; revoked runs stay refused; completion | 15 worlds of 3 pieces of evidence, 3 facts, 3 rounds; 2 revocable; a crash, a judge fault |
| `lifecycle` | nobody is served what the row denies him; a stale build never commits; the planes converge to the rows | 2 versions, 2 ACLs, 2 principals, four scenarios of 2 to 5 deliveries and calls |
| `index_migration` | a switch is kept while its lease lasts; registries agree with the table; the active version is searchable | 2 processes, 2 collections, 1 version, 3 operations, a restart, a registry that refuses |
| `evidence_selection` | a refusal means that nothing was found or that a strongest copy of everything is out of force; every drop has a reason or is one of three known divergences; an answer of one conclusion is consistent | 3 corpora, one of them twice included, 9 snapshots of 3 documents, 2 hits a search, 3 times asked about |

Two versions are enough for a switch, a rollback and a lost compare-and-swap
(the version, the one it replaces, and "none"); two jobs for a duplicate and a
takeover; two generations for a claim and a takeover, or a recovery. Faults and
crashes are bounded by one each because every error path of the code ends an
execution and returns to the same persistent states, from which the model goes
on. The bounds of `store` are small because its actions take every argument; its
five properties are also proved without bounds (section 4).
`MaxGeneration` bounds the deliveries: a version whose lease has that generation
gets no more of them.

Three steps are enough for a chain, a fork, a join and two kinds of edges into one
step; two threads leave one step of a full layer in the queue. The three budgets
are one that leaves room for retries, one with a step without a corpus and a step
whose calls end between one attempt and two, and one below the sum of the calls,
which must be rejected.

The three pieces of evidence of `chat` are two of one document version and two with
one text, so that the third is new without new content. The worlds combine three
indexes, three conflict stages (nothing dropped, one source superseding another, one
out of the time asked for) and three judges, with and without a contradiction and a
fact that cannot be retrieved. Three rounds are a first round, one that gap queries
start from a stored verdict, and one that such a round hands its counters to. One
crash suffices since a request leaves only the row, from which the next
one starts; access may change without a bound.

The scenarios of `lifecycle` are: deletes, purges and rollbacks beside a reconciler
that runs at any time; a delete with a fault or a restart, likewise; rollbacks with a
fault or a restart, the reconciler in between; and tightenings and rollbacks over two
ACLs, five calls, the reconciler in between. Five calls are two deliveries, a
tightening, a rollback and one more, which is what it takes for an ACL to travel from
one version's copies to another's. In all of them a rollback goes to a version that
was active before.

Three operations of `index_migration` are a build, a switch to it and a rollback or a
second switch that takes over the first one's lease; one version suffices since only
the active one matters to the collections. The nine snapshots of `evidence_selection`
hold two copies under one key that differ in authority or in validity, two versions of a
document in one corpus and in two, a temporary version, clashing assertions within and
beyond the margin of authority, a text that differs only in case, and a free text; two
hits a search put any two of them side by side. A caller names at most three corpora,
repeated ones included: one that answers and then fails, or the reverse, takes two.

In the liveness run of the job `MaxGeneration` is large enough that the bound never
stops a resume that is needed: at most one crash and one fault can end an execution, so
at most two claims are spent before one that runs to its end.

### Runs that end in a counterexample

Three runs check a statement of the repository that TLC refutes. Each is a finding in
`PROJECT.json`.

| Run | Statement | What happens |
|---|---|---|
| `resumed_fault` | never touch the existing active version (JB:814-816) | the flag that guards the compensation is per instance: commit, crash, resume, fault in publish: the active version's data is deleted |
| `rebuilt_acl` | reconciler and rollback respect the ACL (docs/issue-e022-contract.md:225) | a tightening leaves the chunk rows as they were; after a restart the reconciler rebuilds points and parents from them, with the wider ACL |
| `outage` | evidence and a fault: the envelope carries a limitation (docs/issue-e016-contract.md:241, CS:430-434) | the temporal filter drops the evidence of the corpora that answered; the refusal has no place for limitations |

### Divergences without a run

Met while modelling; each is outside the bounds or the statements of the passing runs,
at the place named here.

Ingestion. The bounds of the passing runs leave out three situations in which the same
properties do not hold of the code:

* a fault of acquire itself, or one job id used for two versions: the refusal or
  the fault reaches the handler (JB:385-407), whose `mark_job_terminal` is not
  fenced and fails the job and the lease of a live build (against MS:154-156 and
  MS:195-197), so `OneBuildBeforeCommit` fails; `job_duplicates` has no fault at
  `base` and `acquire`, and every job id belongs to one version;
* a second fault inside the compensation, before `clear_steps` (JB:842): the
  markers of deleted data stay and the recovery commits without data, so
  `CommitOnlyComplete` fails; `job_versions` has one fault, in a step;
* a crash: the parents are in memory, so a job resumed behind its verify marker
  commits without them; `job_versions` has no crash.

Two statements of JB do not hold and are not among the properties: "deprecate ONLY the
version this commit actually replaced" (JB:746), because a takeover inherits the
replaced version from the first claim of the lease (MS:377) although another commit
may lie in between; and "no data-plane rewrite" of a known artifact (JB:297-299),
because the check precedes the lease (JB:303).

Lifecycle. The cleanup that the reconciler retries purges the whole document (RC:286,
JB:1176-1192), a version that was ingested after the row was deleted included.
Publishing rewrites the points of the replaced version with the ACL of the request
(JB:759-783), so that a later rollback shows them with that ACL; `ServedIsAllowed` holds
because the parents keep their own and are authorized again. Without a target, rollback
takes the newest row that is not deleted (MS:1650), which may be one that was never
committed. A fault of tighten_acl between the row and the points leaves the points with
the wider ACL until the call is repeated; the scenario with two ACLs has no faults. A
rebuild of the reconciler that has read the chunk rows (JB:1216-1220) before a purge,
and writes after the version was ingested again under another ACL, puts the old ACL on
the points and the parents of the new row; the scenarios with a purge have one ACL, and
the theorem about `ServedIsAllowed` assumes as much or a reconciler run alone. A purge
resets revisions and removes job rows, and a job without a row reads its base revision
as 0 (MS:636-639). When an operator's purge and the reconciler's overlap, a build that
read its base before a delete may start after the one has emptied the tables and lose
its job row to the other; 0 is then the current revision, and the stale version becomes
active (against JB:1066-1069). `StaleIsFenced` names this exception; it takes four
calls, one more than `lifecycle` has beside a reconciler that runs at any time.

Index migration. A restart registers the configured corpora and overwrites the
persisted pointer (MS:787-842), although corpus/registry.py:115-117 says that a switch
survives it; `SwitchIsKept` is about switches during which no process registers.
`scripts/rebuild_index.py` switches the registry of its own process only; the others
follow when their reconciler runs. The single-corpus paths of the service resolve the
collection from the configuration (services/composition.py:55-72) and not from the
registry.

Evidence. In three cases the resolver drops a snapshot that docs/issue-e021-contract.md
keeps, and `EveryDropIsExplained` names each of them. It keeps one snapshot of the
newest version and drops its siblings of the same version
(evidence/conflict_resolver.py:184-196), where lines 301-306 of the contract say that
older versions are dropped (`LosesToSibling`). Temporary versions take part in
superseding if all of a group are temporary or a range is asked about, where lines
316-322 say that temporary evidence is never resolved as superseded
(`LosesAsTemporary`). In a range, authority decides between statements whose windows do
not overlap, where lines 272-274 and 291-292, like the header of the resolver (lines
8-12), want overlapping windows for a clash (`LosesElsewhen`). A snapshot dropped by one
pair takes part in others, so an unresolved finding may name a source that is not in the
evidence and is rendered as "(evidence text unavailable)" (answer/builder.py:105-137),
where the contract (lines 399-402) wants both presented. Folding precedes the temporal
filter (retrieval/multi_corpus.py:147-153), so a copy in force may be lost to one of
higher authority that is not; `RefusalIsAbsence` and `EveryDropIsExplained` are
therefore about a strongest copy of each snapshot. A corpus that the caller names twice
is searched twice (CS:389-391), and may answer once and fail once: it is then in
`corpora_used` and among the faults, although "the faulted corpora are excluded from
``corpora_used``" (retrieval/multi_corpus.py:189). The widening looks at the evidence
before that filter, so a first choice that is entirely out of force is not widened.

Iteration. A search is lost when a request ends between it (CS:870-883) and the next
checkpoint (CS:722, CS:1336): the resumed run makes the same search again, and the row
counts it once. `CallsAreBounded` allows one such search for each failure. A judge
fault's checkpoint keeps the evidence that passed the conflict stage, so that a resume
of it calls the model (CS:976, CS:1287), against
tests/integration/test_e023_checkpoint_resume.py:799; a recomputation that ends a run
marks its row without saving it (CS:1272-1280), against CS:1300-1301; a resumed run
starts the count of rounds without gain again (CS:1205), against
docs/issue-e023-contract.md:119. A crash between the save of a final state and its mark
leaves a running row with a decision to stop, which the next resume does not read.

Plan executor. After a timeout the abandoned call runs beside its retry or the next
step, so that more than one tool is in flight at a concurrency of one
(docs/issue-e018-contract.md:510 says "at most one Tool"); a timeout that the tool
declares as retryable ends as failed and not as timed_out (EX:335 catches it before
EX:341); and after an authorization error the queued steps of the layer still run
(line 408 of the contract says "the Executor stops").

### Fairness

`JobFairness` has two parts. A call that was made goes on: weak fairness of each
worker's `Advance`, the action of a running thread. The caller delivers again
what is not done: strong fairness of `Redeliver`, since the guard of a process
and a lease may make a delivery impossible for a time. It is a recovery when a
crash or an escaped exception left the lease running, which is what the
`recover` argument of DocumentManager.ingest (JB:968-984) is for; nothing in the
code recovers by itself, so without this caller a committed version may stay
invisible. Faults and crashes have no fairness and are bounded.

`RecoverAllowed` is the discipline of that argument (JB:226-229): a lease left
running and no execution of the version alive. `RecoverLive` drops
it; the theorem about the fencing token holds for both values.

`ChatFairness`: a request that runs goes on (weak fairness of `Work`), and the client
resumes a run whose row is running (weak fairness of `ResumeUnfinished`), which
is the request with `resume` of api/routes/chat.py:54-63; nothing in the service
resumes a run by itself. Failures and judge faults have no fairness and are bounded.

`ExecFairness`: threads of the pool run, and the deadline of a call passes
(`future.result(timeout=...)`, EX:399). No fairness is assumed of `Answer` or
`LateAnswer`: a tool may hang for ever.

`FairLifecycleSpec`: an ingestion and an operation that were started go on, a reconciler
lease whose holder died expires (MS:1258-1287), and the reconciler is run again and
again, as `scripts/reconcile.py` is meant to be; nothing in the service runs it, and
without it a failed call leaves the planes as they are. Calls, faults and restarts have
no fairness.

`FairIndexSpec`: an operation goes on, and the reconciler is run in every process
again and again. No fairness of requests, restarts or the expiry of a lease: an
operation that finds it taken ends.

## 4. Proofs

All proofs hold for any sets of versions, jobs, hashes, ACLs, attempts, workers
and processes, under the assumptions named in the modules (NULL is no version,
job or ACL; a worker has a process; a request has the types of a job row) and,
where theorems speak of the ingestion job or the lifecycle, `Stamps = Nat`: the
revisions that a caller may present are all numbers and not a bounded sample.

`MetadataStoreProofs`:

* `TypeCorrect`, `UniqueActiveHolds`, `ActiveHasMaxRevisionHolds` and
  `StoreImplementsRegister` rest on `IInv == TypeOK /\ RowsInv`. Uniqueness of the
  active version is not inductive by itself, nor is the maximality of its
  revision: logical_delete adds one to the revision of the active ROW, which
  exceeds all others only because that row had the maximum. `RowsInv` adds that a
  maximum exists (no finiteness of the versions is needed) and that absent rows
  have revision 0. The refinement takes a step of the store to a `Change`, a
  `Forget` or a stutter of `ActiveVersion`.
* `LeaseAgreesWithJobHolds`: inductive together with the type invariant.

`IngestionJobProofs`:

* `JobImplementsStore`: every step of the ingestion job is a step of the store or
  leaves its tables alone, so the theorems about the store hold while jobs run.
* `FencingTokenUniqueHolds`: the invariant `Tokens` says that a worker's generation
  is at most that of the lease, that two workers with the same positive generation
  of a version are the same, and that a lease of generation 0 has no owner. The
  property alone is not inductive: a stale worker must be known to stay behind.
* `JobTypeCorrect`: the types of all stores and executions.
* `CommitReplacesPreviousHolds`, where a job id and a version come together
  (`Paired`): the lease keeps the `previous` of its first claim, and a second job id
  that takes the version over later carries a base of its own, so that the commit
  would pass for a `previous` that is no longer active. `PairedInv` says that rows
  and leases come in pairs (`RowsPaired`), that no base is ahead of the document
  (`Bases`), and that the `previous` of job and lease agree and name the active
  version unless the document has moved past the job's base (`Replaces`); in that
  case the commit is refused.
* `OneBuildBeforeCommitHolds`, where a job id means one version and one content
  (`Pinned`) and neither an error before the lease nor the recovery of a live attempt
  ends the job under an execution that builds (`Undisturbed`; these are the cases of
  the first and the third hazard without a property). `BuildInv` says that attempt ids
  belong to one execution and a version has one recovery at a time (`Attempted`); that
  until the commit, whoever has acquired the lease holds it as its latest attempt
  (`Holders`), so that it goes to nobody else but a recovery, which finds nobody alive
  on it (`Recoveries`); that job rows and leases carry the deliveries they were made for
  (`Bindings`); that an execution is behind its acquire exactly when it has a token
  (`InPlace`); and that nothing behind the commit of an uncommitted version is worked on or
  marked (`Unswitched`).
* `CommitOnlyCompleteHolds` assumes besides that no process crashes and no compensation
  raises (`Compensated`): either leaves the markers of artifacts that are gone, or that
  another process holds, and the next attempt skips their steps. `CompleteInv`: the
  markers of an uncommitted version belong to an execution under way (`Cleared`), which
  has done what they say (`Builds`); what is retired has been committed (`Retirable`);
  and a version that was replaced is not switched on again by a job that verified it
  before, since the base of that job is of the past (`Overtaken`).
* `SucceededIsPublishedHolds`, for the executions of one process (`OneProcessOnly`),
  under `Paired`, `Pinned` and `Undisturbed`, where either nothing fails but processes,
  or calls of the steps raise, and at most one if those that mark a step may
  (`Contained`). An execution that resumes the job of a version that an earlier one
  committed does not know of the commit (`_commit_performed` is a flag of the instance,
  JB:215, JB:394): when it has finalized the job and marking that step raises, its
  compensation takes the points of the succeeded job back. A second execution in another
  process, a crash before the fault, or two faults lead there; TLC shows each when the
  hypothesis is dropped from `job_versions`. `VisibleInv` says that a version has one
  execution at a time (`Sole`), which keeps its lease (`Owned`); that markers are set in
  their order (`Ordered`) and an execution works on the first one missing (`Working`);
  that the row of the job runs until the finalization (`Busy`), so that success means a
  finished publication; that the base of a committed job is of the past (`Based`), hence
  no version is switched on twice, and what a commit has replaced is not active again,
  so that its late retirement takes nothing visible away (`Replaced`); and, for the
  active version, that its publication marker and its success stand for visible points
  but while a compensation is under way that is about to clear the markers (`Served`),
  with what its execution knows (`Serving`).

`PlanExecutorProofs`, for all sets of steps, plans, numbers of threads and sets of
retryable timeouts:

* `ExecTypeCorrect`, `CalledAfterDependenciesHolds`, `StepWithinItsCallsHolds` and
  `FailedClosedIsRaisedHolds` rest on one invariant, `IInv`: a thread exists only for
  a step whose dependencies are in layers that are over; the steps of such layers
  have finished and their results are visible; whoever passed the check of the
  required dependencies passes it for good; the attempts and the abandoned calls
  are bounded by `max_attempts`. None of the four properties is inductive without
  it. `ThreadKeepsIInv` is the step that all actions of threads share.
* `EveryStepAnsweredHolds`, `NeverExhaustedHolds` and `BudgetAccountedHolds` rest on
  `ReportInv`: what is used is the cost of the attempts of all steps, within the plan's
  budget (`Spent`); a thread that is over has the result that its attempts cost, and
  publishes it with its layer (`Answers`); only a plan that passed the static checks
  gets to its layers, and when they end every step has been placed (`Vetted`). Since a
  step makes no more attempts than its calls pay for, there is always room for one more
  (`RoomForAttempt`). Sums and rounds are defined over sets of unknown size, so the
  proofs need inductions. They take the form of a smallest counterexample: a set of
  numbers that is not empty has a least element (`LeastNumber`, from the
  well-foundedness of `<`), hence what holds of the empty set and survives the addition
  of one element holds of all finite sets (`SubsetInduction`, stated about a set of
  subsets). From it follow `SumMonotone`, `SumUpdate` and `SumZero` about `SumFunction`,
  and `NothingLeftOver`: where some round of the cycle check leaves no step out, no set
  of steps waits for itself.

`ChatIterationProofs`, for all sets of evidence, facts, queries and worlds, any
`MaxRounds` and any number of failures:

* `ChatTypeCorrect`: the types of row, request and answer.
* `OnlyFreshEvidenceHolds` adds that a request that re-authorizes has asked for
  every piece of stored evidence or has yet to (`FreshInv`).
* `VerdictFitsEvidenceHolds`: `VerdictInv` says of the row and of the request (but
  for the moment a verdict is computed again) that the verdict of a state was given
  on its final evidence, that there is none, or that the service made it itself, and
  that a state that is not refused has evidence. The property itself speaks of the
  answer only and says nothing of the row a resume starts from.
* `RoundNeverBackHolds` (`AheadInv`: a request is never behind the row it will write)
  and `AllRevokedIsFinalHolds` (`RevokedInv`: the row of a run that lost everything
  has no evidence, so that every resume is refused) assume `~ReuseRunId`.
* `CallsAreBoundedHolds`, with `~ReuseRunId`: calls are the number of queries, and those
  are at most the round index (one while it is 0), in the row and in memory
  (`CallsInv`); and the searches really made are at most the calls of the request under
  way, or of the row while there is none, and one for each failure so far
  (`SearchesInv`), because a request makes one search between two saves, and only a
  failure takes it from a search to its end without a save in between.
* `VerdictBeforeGapsHolds`: `JudgedInv` says of the row and of the request that a
  state at a later round than the first has a verdict, except in a request that has
  cleared it and is about to compute it again.

`DocumentLifecycleProofs`, for all sets of versions, jobs, ACLs, principals and
scenarios:

* `LifecycleImplementsStore`: every step of an ingestion, an operation or the
  reconciler is a step of the store or leaves its tables alone. It needs `LifeInv`: the
  invariant of the store, the types of the planes, that every row has a rowid, so that
  the newest of several exists (`Listed`), and that an ingestion and a thread know what
  their next call needs (`Known`, `Sound`). `LifecycleUniqueActive` and
  `LifecycleTypeCorrect` follow.
* `StaleIsFencedHolds`, for scenarios that roll back to versions once committed
  (`Committed`). From the moment of a delete or a tightening, the base revision of a
  build under way is behind that of the document, or a purge has taken that below the
  base and nothing is active; this is `FenceInv`, and it survives because a step of the
  store keeps the highest revision, makes it grow, or takes it to 0 with the active
  version (`RevisionStep` of `MetadataStoreProofs`). It needs that the job row holds the
  base the build works with as long as there is a row, and that the build's own version
  is not active. That the bump of one row outruns the maximum of all is
  `ActiveHasMaxRevision`.

* `ServedIsAllowedHolds`, where the document has one tenant (`OneTenant`: what a request
  of `tighten_acl` can change leaves the tenant alone, JB:1136-1143), callers are typed
  and their clearances go downwards (`Callers`), under `Committed`, and where a scenario
  that tightens has no fault and runs the reconciler alone (`Sheltered`). The property
  looks at the active version and its parents; `ServeInv` follows the ACL to there from
  all the copies the planes keep. A build stages the ACL that its row gets (`OwnAcl`,
  `StagedAcl`); of a version that was committed, the parents, and the chunk rows from
  which the reconciler writes the parents anew, allow no more than the row unless a
  tightening is on its way to them (`VersionAcl`), which itself takes away from what the
  row allows (`Tightening`, by `TighteningNeverWidens`); chunk rows refer to a row and
  are not tightened (`ChunkAcl`), so a tightened version that has them must have its
  points and parents, or lose them in a purge that comes to the chunk rows next, or the
  reconciler would rebuild them; what it rebuilds where nothing is tightened has the ACL
  of the row, or the row was purged since (`Rebuilt`); and what the reconciler remembers
  of the row and of the planes while it runs is still so (`Viewed`, since it runs alone:
  `Alone`). Points may be wider: the second authorization, on the parents, is what the
  theorem rests on. `Sheltered` also says that a scenario with purges runs the
  reconciler alone or has one ACL; without it, a rebuild that read the chunk rows before
  a purge writes their ACL to the version that was ingested again. Nor can the rest of
  it be dropped: parents lost in a restart are rebuilt from the chunk rows
  (`rebuilt_acl`), and a reconciler run that listed the rows before a new ingestion
  inserted its own removes what that one stages as orphans; the version is committed and
  tightened, and the next run rebuilds it with the ACL it was ingested with.

`AccessPolicyProofs`, for all principals and ACLs whose fields have their types:
`FilterIsPolicy` goes through the conditions of the filter one by one;
`TighteningNeverWidens` needs that clearances go downwards, because
is_acl_tightening compares ranks of levels where the policy looks a level up in a
list.

`IndexMigrationProofs`, for all sets of processes, collections and versions and any
numbers of operations, restarts and faults: `IndexInv` adds to the types that a build
in progress names collections (`Building`), that two operations of one owner are the same
and no owner is larger than the number of requests, so that a new one is fresh
(`Owners`), and that what is compensated has failed (`Undone`). `SwitchIsKept` is not
inductive without the second part: the lease names an owner, and only its uniqueness
says that nobody else passes the check of the flip.

`EvidenceSelectionProofs`, for any number of corpora, any results, faults and times:
`SelectionInv` says at each place of the request what the earlier ones have
established: nothing is searched before it begins (`Fresh`), what a later stage sets is
untouched before it (`Staged`), what is resolved is the merge of what was found, which is
empty only without a fault or a widening left (`Gathered`), and the envelope rests on the
resolver's report about what of it is in scope, or on nothing found (`Decided`). No part
of it needs the corpora to be distinct. On it rest
`SelectionTypeCorrect`, `RefusalIsAbsenceHolds`, `EveryDropIsExplainedHolds` and
`AnswerIsConsistentHolds`. The lemmas below them are about the algorithms: every
snapshot has a survivor of no less authority among its copies (`Survivor` exists,
since a finite set of places has a first one of highest authority), a group of versions
keeps its last one, and whoever overrides is not below the one it overrides by less
than the margin, so that the resolver never drops everything.

Every invariant that the passing runs check is stated by a theorem, under the hypotheses
named above; the runs check them on the scenarios of their configurations. Liveness
under fairness (`CommittedEventuallyPublished`, `Terminates`, `RunCompletes`,
`Converges`, `PointersConverge`, `ActiveIsSearchable`) is out of the prover's reach and
stays with TLC, as does ENABLED.

## 5. Not modelled

`PROJECT.json` lists every component. Left out on purpose:

* the evidence store: snapshots are inserted once under a fresh id and never updated,
  and a read is one query and one decision of `AccessPolicy`;
* threads of one process inside a transaction of the shared connection (MS:57-110): the
  modules take a transaction as one step, as SQLite makes it for processes;
* applying the schema migrations, which happens before anything else runs;
* parsing, chunking and scoring of text, extraction of assertions and facts, prompts and
  model calls, the HTTP layer, the user interface, the evaluation harness and the
  configuration. They are pure functions or I/O whose failures appear as faults of
  the modelled calls, and whose results are inputs.

Further theorems worth proving: the safety part of `Converges` and `PointersConverge`,
which is that a reconciler run that ends undisturbed leaves the planes (a switch that ends,
the pointers) in agreement with the rows.
