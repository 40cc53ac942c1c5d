--------------------------- MODULE ChatIteration ---------------------------
(* ChatService.answer_with_iteration and resume_run: rounds of retrieval,   *)
(* conflict stage and judge, the stop policy, and the checkpoint row of the *)
(* run, over which a request may crash and be resumed while access to its   *)
(* evidence is revoked and restored.  One run id, one request at a time:    *)
(* the contract leaves several writers of a checkpoint out of its scope.    *)
EXTENDS Integers, FiniteSets

CONSTANTS
    Evidence,        \* what retrieval may return: a chunk of a document version
    Text,            \* [Evidence -> text hash]
    DocVersion,      \* [Evidence -> document and version]
    Facts,           \* the required facts of the query
    First,           \* of some facts the first one, in the judge's order
    Required,        \* those with required=True
    Queries,         \* what may be retrieved for
    Question,        \* the user's query
    GapQuery,        \* [Facts -> Queries]: the query a fact is retrieved with
    Worlds,          \* names of what index, conflict stage and judge answer ...
    World,           \* ... and what they answer, [Worlds -> WorldType]
    MaxRounds,       \* max_rounds
    ReuseRunId,      \* may a run id that has a checkpoint be started again?
    Revocable,       \* evidence whose access may change
    MaxFailures,     \* bound on crashes and on exceptions that escape a request
    MaxJudgeFaults   \* bound on judge faults

FactStatus == {"supported", "partially_supported", "missing", "not_retrievable",
               "contradicted", "ambiguous", "policy_blocked"}

\* Retrieval, the conflict stage and the judge are functions: of a query, of
\* the evidence gathered, of the evidence kept.
WorldType ==
    [hits : [Queries -> SUBSET Evidence],
     kept : [SUBSET Evidence -> SUBSET Evidence],
     contradicted : SUBSET SUBSET Evidence,
     assess : [SUBSET Evidence -> [Facts -> FactStatus]]]

ASSUME ChatAssumption ==
    /\ Required \subseteq Facts
    /\ \A S \in (SUBSET Facts) \ {{}} : First[S] \in S
    /\ Question \in Queries /\ GapQuery \in [Facts -> Queries]
    /\ MaxRounds \in Nat \ {0} /\ MaxFailures \in Nat /\ MaxJudgeFaults \in Nat
    /\ ReuseRunId \in BOOLEAN /\ Revocable \subseteq Evidence

\* The conflict stage keeps a part of what it is given, and of sources that
\* contradict each other at least one.
ASSUME WorldAssumption ==
    /\ World \in [Worlds -> WorldType]
    /\ \A w \in Worlds : \A S \in SUBSET Evidence :
        /\ World[w].kept[S] \subseteq S
        /\ S \in World[w].contradicted => World[w].kept[S] # {}

VARIABLES
    world,        \* chosen once
    authorized,   \* the evidence the principal may read now
    row,          \* the row of run_checkpoints
    mem,          \* the request in progress; lost when it ends
    answer,       \* the envelope last returned
    fresh,        \* evidence authorized at some time since the request began
    failures,
    judgeFaults,
    searches      \* history: the searches that requests of the run have made,
                  \* whether a row records them or not

vars == <<world, authorized, row, mem, answer, fresh, failures, judgeFaults, searches>>

-----------------------------------------------------------------------------
(* The judge and the stop policy                                            *)

Overalls == {"none", "policy_blocked", "ambiguous", "contradicted", "sufficient",
             "partially_sufficient", "insufficient"}

\* A verdict that names no facts: none yet, or one the service makes itself.
Forced(overall) == [overall |-> overall, facts |-> [f \in {} |-> "missing"]]
Unjudged == Forced("none")

derive_overall_status(status) ==
    LET found == {status[f] : f \in IF Required = {} THEN Facts ELSE Required}
    IN  IF "policy_blocked" \in found THEN "policy_blocked"
        ELSE IF "ambiguous" \in found THEN "ambiguous"
        ELSE IF "contradicted" \in found THEN "contradicted"
        ELSE IF found \subseteq {"supported"} THEN "sufficient"
        ELSE IF "supported" \in found THEN "partially_sufficient"
        ELSE "insufficient"

Verdict(K) == [overall |-> derive_overall_status(World[world].assess[K]), facts |-> World[world].assess[K]]

Open(c) == {f \in DOMAIN c.facts : c.facts[f] \in {"missing", "partially_supported"}}
Covered(c) == {f \in DOMAIN c.facts : c.facts[f] = "supported"}

CanContinue(c) ==
    c.overall \in {"partially_sufficient", "insufficient"} /\ Open(c) # {}

\* StopPolicy.decide after round r, noGain rounds without gain in a row.
decide(c, r, noGain) ==
    IF c.overall = "sufficient" THEN "sufficient"
    ELSE IF ~CanContinue(c) THEN "all_sources_exhausted"
    ELSE IF noGain >= 2 THEN "no_new_evidence"
    ELSE IF r + 1 >= MaxRounds THEN "max_rounds"
    ELSE "continue"

\* GapPlanner.plan, less the queries that were made; the first one is taken.
Pending(st) == {f \in Open(st.coverage) : GapQuery[f] \notin st.queries}

NextQuery(st) == GapQuery[First[Pending(st)]]

-----------------------------------------------------------------------------
(* The working state of the loop, which is also what a checkpoint stores    *)

Reasons == {"none", "evidence_found", "continue", "sufficient", "max_rounds",
            "all_sources_exhausted", "no_new_evidence", "conflict_detected",
            "no_evidence", "judge_fault", "all_evidence_revoked",
            "temporal_no_evidence"}

CoverageType ==
    [overall : Overalls, facts : [Facts -> FactStatus]] \cup {Forced(o) : o \in Overalls}

StateType ==
    [evidence : SUBSET Evidence, queries : SUBSET Queries, calls : Nat,
     reason : Reasons, conflict_stop : BOOLEAN, coverage : CoverageType,
     contradicted : BOOLEAN,     \* the conflict status of final_report
     final : SUBSET Evidence]    \* final_evidence

InitialState(found) ==
    [evidence |-> found, queries |-> {Question}, calls |-> 1, reason |-> "evidence_found",
     conflict_stop |-> FALSE, coverage |-> Unjudged, contradicted |-> FALSE,
     final |-> found]

\* A terminal state without an answer.
Refused(st, reason) ==
    [st EXCEPT !.final = {}, !.contradicted = FALSE, !.conflict_stop = FALSE,
               !.coverage = Forced("insufficient"), !.reason = reason]

Retrieve(q) == World[world].hits[q] \cap authorized

\* Novelty by content: a new text or a new document version.
IsNew(e, S) ==
    \/ \A x \in S : Text[x] # Text[e]
    \/ \A x \in S : DocVersion[x] # DocVersion[e]

\* The state after the retrieval of the round: nothing in round 0, whose
\* evidence is there, and one gap query in any other.
Gathered(m) ==
    IF m.round = 0 THEN m.state
    ELSE [m.state EXCEPT !.evidence = @ \cup Retrieve(NextQuery(m.state)),
                         !.queries = @ \cup {NextQuery(m.state)},
                         !.calls = @ + 1]

FoundNew(m) ==
    \/ m.round = 0
    \/ \E e \in Retrieve(NextQuery(m.state)) : IsNew(e, m.state.evidence)

Kept(st) == World[world].kept[st.evidence]
Contradicts(st) == st.evidence \in World[world].contradicted

\* The conflict stage puts what it kept and its report into the state.
Filtered(st) == [st EXCEPT !.final = Kept(st), !.contradicted = Contradicts(st)]

\* A contradiction ends the iteration with a verdict of its own.
Conflicting(st) ==
    [Filtered(st) EXCEPT !.conflict_stop = TRUE, !.coverage = Forced("contradicted"),
                         !.reason = "conflict_detected"]

-----------------------------------------------------------------------------
(* Answers                                                                  *)

NoAnswer == [completeness |-> "none", used |-> {}, coverage |-> Unjudged,
             reason |-> "none", calls |-> 0]

\* The accounting and the coverage attached to a refusal are left out.
Refusal == [NoAnswer EXCEPT !.completeness = "insufficient", !.reason = "no_evidence"]

\* _map_coverage_to_completeness; without a verdict the claims decide, and
\* supported claims make the answer complete.
Completeness(overall) ==
    CASE overall \in {"none", "sufficient"} -> "complete"
      [] overall \in {"partially_sufficient", "ambiguous"} -> "partial"
      [] overall = "contradicted" -> "conflicted"
      [] overall \in {"insufficient", "policy_blocked"} -> "insufficient"

\* _finalize_iteration with the envelope builder, before Stage B.
Envelope(st) ==
    LET completeness == IF st.contradicted THEN "conflicted"
                        ELSE Completeness(st.coverage.overall)
    IN  IF completeness = "insufficient" THEN Refusal
        ELSE [completeness |-> completeness, used |-> st.final, coverage |-> st.coverage,
              reason |-> IF st.reason = "none" THEN "evidence_found" ELSE st.reason,
              calls |-> st.calls]

-----------------------------------------------------------------------------
(* Requests and their places                                                *)

\* Where a save goes on.
AfterSave == [save_first |-> "round", save_round |-> "round",
              save_stop |-> "mark_stop", save_refuse |-> "mark_refuse"]

Places == {"idle", "reauthorize", "recompute", "round", "mark_stop", "mark_refuse",
           "mark_last", "finalize"} \cup DOMAIN AfterSave

NoRow == [status |-> "absent", round |-> 0, state |-> InitialState({})]

Request(pc, round, st) ==
    [pc |-> pc, round |-> round, state |-> st, noGain |-> 0,
     todo |-> {}, lost |-> {}, completed |-> FALSE]

Idle == Request("idle", 0, InitialState({}))

ChatInit ==
    /\ world \in Worlds
    /\ authorized = Evidence
    /\ row = NoRow
    /\ mem = Idle
    /\ answer = NoAnswer
    /\ fresh = Evidence
    /\ failures = 0 /\ judgeFaults = 0 /\ searches = 0

Begin(m) ==
    /\ mem.pc = "idle"
    /\ mem' = m
    /\ answer' = NoAnswer
    /\ fresh' = authorized
    /\ UNCHANGED <<world, authorized, row, failures, judgeFaults>>

\* Round 0 is the retrieval of the fast path.  Without evidence the request
\* is refused and leaves nothing behind.
Start ==
    /\ row = NoRow \/ ReuseRunId
    /\ Retrieve(Question) # {}
    /\ Begin(Request("save_first", 0, InitialState(Retrieve(Question))))
    /\ searches' = searches + 1

StartWithoutEvidence ==
    /\ mem.pc = "idle"
    /\ row = NoRow \/ ReuseRunId
    /\ Retrieve(Question) = {}
    /\ answer' = Refusal
    /\ fresh' = authorized
    /\ UNCHANGED <<world, authorized, row, mem, failures, judgeFaults, searches>>

\* Mutant: a resumed run starts at round 0, with its evidence.
Bug_Resume_from_round_zero ==
    /\ row # NoRow
    /\ Begin([Request("reauthorize", 0, row.state) EXCEPT
                !.todo = row.state.evidence, !.completed = (row.status = "completed")])
    /\ UNCHANGED searches

\* The gates on principal, policy and corpus refuse without any effect.
Resume ==
    /\ row # NoRow
    /\ Begin([Request("reauthorize", row.round, row.state) EXCEPT
                !.todo = row.state.evidence, !.completed = (row.status = "completed")])
    /\ UNCHANGED searches

-----------------------------------------------------------------------------
(* One round                                                                *)

EndOfRound(pc, st, noGain) ==
    [mem EXCEPT !.pc = pc, !.round = @ + 1, !.state = st, !.noGain = noGain]

\* Mutant: the bound on rounds is passed by one.
Bug_InRound_inclusive ==
    /\ mem.pc = "round" /\ mem.round <= MaxRounds
    /\ mem.round = 0 \/ Pending(mem.state) # {}

InRound ==
    /\ mem.pc = "round" /\ mem.round < MaxRounds
    /\ mem.round = 0 \/ Pending(mem.state) # {}

\* The rounds that retrieve are searches; no other step is one.
Searched == IF InRound /\ mem.round # 0 THEN 1 ELSE 0

Step(m) ==
    /\ mem' = m
    /\ searches' = searches + Searched
    /\ UNCHANGED <<world, authorized, row, answer, fresh, failures, judgeFaults>>

Exhausted ==
    /\ mem.pc = "round" /\ mem.round < MaxRounds
    /\ mem.round # 0 /\ Pending(mem.state) = {}
    /\ Step(EndOfRound("save_stop",
                       [mem.state EXCEPT !.reason = "all_sources_exhausted"], mem.noGain))

NoneKept ==
    /\ InRound
    /\ Kept(Gathered(mem)) = {}
    /\ Step(EndOfRound("save_refuse", Refused(Gathered(mem), "no_evidence"), mem.noGain))

Contradiction ==
    /\ InRound
    /\ Kept(Gathered(mem)) # {} /\ Contradicts(Gathered(mem))
    /\ Step(EndOfRound("save_stop", Conflicting(Gathered(mem)), mem.noGain))

ReachesJudge == InRound /\ Kept(Gathered(mem)) # {} /\ ~Contradicts(Gathered(mem))

Judged ==
    /\ ReachesJudge
    /\ LET st == Filtered(Gathered(mem))
           coverage == Verdict(st.final)
           gained == FoundNew(mem) \/ Covered(coverage) \ Covered(mem.state.coverage) # {}
           noGain == IF gained THEN 0 ELSE mem.noGain + 1
           reason == decide(coverage, mem.round, noGain)
       IN  Step(EndOfRound(IF reason = "continue" THEN "save_round" ELSE "save_stop",
                           [st EXCEPT !.coverage = coverage, !.reason = reason], noGain))

\* The judge times out or fails: a refusal, over the evidence that was kept.
JudgeFault ==
    /\ ReachesJudge
    /\ judgeFaults < MaxJudgeFaults
    /\ judgeFaults' = judgeFaults + 1
    /\ searches' = searches + Searched
    /\ mem' = EndOfRound("save_refuse",
                  [Refused(Gathered(mem), "judge_fault") EXCEPT !.final = Kept(Gathered(mem))],
                  mem.noGain)
    /\ UNCHANGED <<world, authorized, row, answer, fresh, failures>>

LoopOver ==
    /\ mem.pc = "round" /\ mem.round >= MaxRounds
    /\ Step([mem EXCEPT !.pc = "mark_last"])

-----------------------------------------------------------------------------
(* The checkpoint row                                                       *)

\* Mutant: only the first and the last state of a run are saved.
Bug_save_run_checkpoint_not_rounds ==
    /\ mem.pc \in DOMAIN AfterSave
    /\ row' = IF mem.pc = "save_round" THEN row
              ELSE [status |-> IF row = NoRow THEN "running" ELSE row.status,
                    round |-> mem.round, state |-> mem.state]
    /\ mem' = [mem EXCEPT !.pc = AfterSave[mem.pc]]
    /\ UNCHANGED <<world, authorized, answer, fresh, failures, judgeFaults, searches>>

\* An insert is running, an update keeps the status.
save_run_checkpoint ==
    /\ mem.pc \in DOMAIN AfterSave
    /\ row' = [status |-> IF row = NoRow THEN "running" ELSE row.status,
               round |-> mem.round, state |-> mem.state]
    /\ mem' = [mem EXCEPT !.pc = AfterSave[mem.pc]]
    /\ UNCHANGED <<world, authorized, answer, fresh, failures, judgeFaults, searches>>

mark_run_checkpoint_done == row' = [row EXCEPT !.status = "completed"]

\* The decision to stop is marked before the model writes the answer ...
MarkStop ==
    /\ mem.pc = "mark_stop"
    /\ mark_run_checkpoint_done
    /\ mem' = [mem EXCEPT !.pc = "finalize"]
    /\ UNCHANGED <<world, authorized, answer, fresh, failures, judgeFaults, searches>>

Return(envelope) ==
    /\ answer' = envelope
    /\ mem' = Idle
    /\ UNCHANGED <<world, authorized, fresh, failures, judgeFaults, searches>>

Finalize ==
    /\ mem.pc = "finalize"
    /\ Return(Envelope(mem.state))
    /\ UNCHANGED row

\* ... but after the last round the answer is written first.
MarkLast ==
    /\ mem.pc = "mark_last"
    /\ mark_run_checkpoint_done
    /\ Return(Envelope(mem.state))

\* Mutant: a refusal does not complete the run.
Bug_MarkRefuse_leaves_running ==
    /\ mem.pc = "mark_refuse"
    /\ UNCHANGED row
    /\ Return(Refusal)

MarkRefuse ==
    /\ mem.pc = "mark_refuse"
    /\ mark_run_checkpoint_done
    /\ Return(Refusal)

-----------------------------------------------------------------------------
(* Resuming                                                                 *)

reauthorize_evidence(e) ==
    /\ mem.pc = "reauthorize" /\ e \in mem.todo
    /\ Step([mem EXCEPT !.todo = @ \ {e},
                        !.lost = IF e \in authorized THEN @ ELSE @ \cup {e}])

Reauthorized == mem.pc = "reauthorize" /\ mem.todo = {}

\* Mutant: the evidence of the checkpoint is taken as it is.
Bug_Rebuilt_keeps_dropped(m) ==
    [m.state EXCEPT !.final = IF @ = {} /\ ~m.completed THEN m.state.evidence ELSE @]

\* _build_state_from_checkpoint over the evidence that survived.
Rebuilt(m) ==
    LET surviving == m.state.evidence \ m.lost
    IN  [m.state EXCEPT
          !.evidence = surviving,
          !.final = IF @ # {} THEN @ \cap surviving
                    ELSE IF m.completed THEN {} ELSE surviving]

\* Mutant: the refusal is saved over the evidence that was revoked.
Bug_AllRevoked_keeps_evidence ==
    /\ Reauthorized /\ Rebuilt(mem).evidence = {}
    /\ Step([mem EXCEPT !.pc = "save_refuse",
                        !.state = Refused(mem.state, "all_evidence_revoked")])

AllRevoked ==
    /\ Reauthorized /\ Rebuilt(mem).evidence = {}
    /\ Step([mem EXCEPT !.pc = "save_refuse",
                        !.state = Refused(Rebuilt(mem), "all_evidence_revoked")])

\* Mutant: a completed run is answered from its stored verdict although
\* evidence was lost.
Bug_Rebuild_keeps_verdict ==
    /\ Reauthorized /\ Rebuilt(mem).evidence # {} /\ mem.lost # {}
    /\ Step([mem EXCEPT !.pc = IF mem.completed THEN "mark_stop" ELSE "recompute",
                        !.state = Rebuilt(mem)])

\* Mutant: a completed run that lost evidence goes on without a new verdict.
Bug_Rebuild_goes_on ==
    /\ Reauthorized /\ Rebuilt(mem).evidence # {} /\ mem.lost # {}
    /\ row' = IF mem.completed THEN [row EXCEPT !.status = "running"] ELSE row
    /\ mem' = [mem EXCEPT
                !.pc = IF mem.completed THEN "round" ELSE "recompute",
                !.state = IF mem.completed
                          THEN [Refused(Rebuilt(mem), "none") EXCEPT !.coverage = Unjudged]
                          ELSE Rebuilt(mem)]
    /\ UNCHANGED <<world, authorized, answer, fresh, failures, judgeFaults, searches>>

\* What was derived from lost evidence is computed again; a completed run is
\* running again.
Rebuild ==
    /\ Reauthorized /\ Rebuilt(mem).evidence # {} /\ mem.lost # {}
    /\ row' = IF mem.completed THEN [row EXCEPT !.status = "running"] ELSE row
    /\ mem' = [mem EXCEPT
                !.pc = "recompute",
                !.state = IF mem.completed
                          THEN [Refused(Rebuilt(mem), "none") EXCEPT !.coverage = Unjudged]
                          ELSE Rebuilt(mem)]
    /\ UNCHANGED <<world, authorized, answer, fresh, failures, judgeFaults, searches>>

RecomputeNoneKept ==
    /\ mem.pc = "recompute"
    /\ Kept(mem.state) = {}
    /\ Step([mem EXCEPT !.pc = "save_refuse",
                        !.state = Refused(mem.state, "temporal_no_evidence")])

\* A contradiction or a sufficient verdict ends the run here; the row is
\* marked and not saved.
Recompute ==
    /\ mem.pc = "recompute"
    /\ Kept(mem.state) # {}
    /\ LET st == Filtered(mem.state)
           stop == st.contradicted \/ Verdict(st.final).overall = "sufficient"
       IN  Step([mem EXCEPT
                  !.pc = IF stop THEN "mark_stop" ELSE "round",
                  !.state = [st EXCEPT
                      !.conflict_stop = st.contradicted,
                      !.coverage = IF st.contradicted THEN Forced("contradicted")
                                   ELSE Verdict(st.final)]])

\* A completed run is answered again, without the model when it kept nothing.
RepeatRefusal ==
    /\ Reauthorized /\ Rebuilt(mem).evidence # {} /\ mem.lost = {}
    /\ mem.completed /\ Rebuilt(mem).final = {}
    /\ Return(Refusal)
    /\ UNCHANGED row

RepeatAnswer ==
    /\ Reauthorized /\ Rebuilt(mem).evidence # {} /\ mem.lost = {}
    /\ mem.completed /\ Rebuilt(mem).final # {}
    /\ Step([mem EXCEPT !.pc = "mark_stop", !.state = Rebuilt(mem)])

\* Only what a checkpoint stores is restored: the count of rounds without
\* gain starts again.
Continue ==
    /\ Reauthorized /\ Rebuilt(mem).evidence # {} /\ mem.lost = {}
    /\ ~mem.completed
    /\ Step([mem EXCEPT !.pc = "round", !.state = Rebuilt(mem)])

-----------------------------------------------------------------------------
(* The environment                                                          *)

\* A crash, or an exception of a store, a retriever, the model or (when a
\* verdict is computed again) the judge: the request ends, the row stays.  In
\* a round that retrieves it comes before or after the search, which then no
\* row records.
Fail ==
    /\ mem.pc # "idle"
    /\ failures < MaxFailures
    /\ failures' = failures + 1
    /\ searches' \in {searches, searches + Searched}
    /\ mem' = Idle
    /\ UNCHANGED <<world, authorized, row, answer, fresh, judgeFaults>>

\* A document is deleted, superseded or its ACL narrowed; or the reverse.
Revoke(e) ==
    /\ authorized' = authorized \ {e}
    /\ UNCHANGED <<world, row, mem, answer, fresh, failures, judgeFaults, searches>>

Restore(e) ==
    /\ authorized' = authorized \cup {e}
    /\ fresh' = fresh \cup {e}
    /\ UNCHANGED <<world, row, mem, answer, failures, judgeFaults, searches>>

-----------------------------------------------------------------------------
RunRound == \/ Exhausted \/ NoneKept \/ Contradiction \/ Judged \/ JudgeFault \/ LoopOver
Write == save_run_checkpoint \/ MarkStop \/ Finalize \/ MarkLast \/ MarkRefuse
Recover ==
    \/ \E e \in Evidence : reauthorize_evidence(e)
    \/ AllRevoked \/ Rebuild \/ RecomputeNoneKept \/ Recompute
    \/ RepeatRefusal \/ RepeatAnswer \/ Continue
Work == RunRound \/ Write \/ Recover

ChatNext ==
    \/ Start \/ StartWithoutEvidence \/ Resume
    \/ Work
    \/ Fail
    \/ \E e \in Revocable : Revoke(e) \/ Restore(e)

ChatSpec == ChatInit /\ [][ChatNext]_vars

\* A request that runs goes on; the client resumes a run that has no result.
ResumeUnfinished == row.status = "running" /\ Resume
ChatFairness == WF_vars(Work) /\ WF_vars(ResumeUnfinished)
FairChatSpec == ChatSpec /\ ChatFairness

-----------------------------------------------------------------------------
(* Properties                                                               *)

RowType == [status : {"absent", "running", "completed"}, round : 0 .. MaxRounds,
            state : StateType]

RequestType ==
    [pc : Places, round : 0 .. MaxRounds, state : StateType, noGain : Nat,
     todo : SUBSET Evidence, lost : SUBSET Evidence, completed : BOOLEAN]

AnswerType ==
    [completeness : {"none", "complete", "partial", "conflicted", "insufficient"},
     used : SUBSET Evidence, coverage : CoverageType, reason : Reasons, calls : Nat]

\* The types of the row, of the request and of the answer: a checkpoint that
\* is read has the fields and the values resume_run relies on.
ChatTypeOK ==
    /\ world \in Worlds
    /\ authorized \subseteq Evidence /\ fresh \subseteq Evidence
    /\ row \in RowType /\ mem \in RequestType /\ answer \in AnswerType
    /\ failures \in 0 .. MaxFailures /\ judgeFaults \in 0 .. MaxJudgeFaults
    /\ searches \in Nat

\* An answer uses, and a request works with, only evidence that the principal
\* could read at some time since the request began, whatever the checkpoint
\* holds (resume_run: dropped evidence never returns).
OnlyFreshEvidence ==
    /\ answer.used \subseteq fresh
    /\ mem.pc \notin {"idle", "reauthorize"} => mem.state.evidence \subseteq fresh

\* The verdict an answer carries was given on exactly the evidence it uses, or
\* its evidence is what the conflict stage kept of contradicting sources: no
\* verdict outlives the evidence it was made of (resume_run: a stored verdict
\* over evidence that was revoked must be computed again).
VerdictFitsEvidence ==
    answer.coverage # Unjudged =>
        \/ answer.coverage = Verdict(answer.used)
        \/ /\ answer.coverage = Forced("contradicted")
           /\ \E S \in World[world].contradicted : World[world].kept[S] = answer.used

\* A round that retrieves for gaps has a verdict to take them from, however the
\* run got there (the assertion of _run_round, which resume_run must not meet
\* with a state it has cleared).
VerdictBeforeGaps ==
    mem.pc = "round" /\ mem.round # 0 => mem.state.coverage # Unjudged

\* A resumed run goes on where it was: no round is recorded twice, and what
\* was asked stays asked (round_index and prior_queries of the row).
RoundNeverBack ==
    [][row # NoRow => /\ row'.round >= row.round
                      /\ row.state.queries \subseteq row'.state.queries]_vars

\* The queries that the run knows to have been made: those of the request in
\* progress, else those of the row.
KnownQueries ==
    IF mem.pc # "idle" THEN mem.state.queries
    ELSE IF row = NoRow THEN {} ELSE row.state.queries

\* The loop is bounded over all requests of a run together: what a row counts
\* as calls are its queries, each once and at most max_rounds, and of the
\* searches really made only one for each crash or fault is missing there.  The
\* search of a round that ended before _save_checkpoint is made again
\* (_run_round, resume_run); no other search is.
CallsAreBounded ==
    /\ row # NoRow => /\ row.state.calls = Cardinality(row.state.queries)
                      /\ row.state.calls <= MaxRounds
    /\ searches <= Cardinality(KnownQueries) + failures

\* A run that lost all its evidence is over: no later request answers from
\* it, whether the evidence is restored or not (resume_run: resume is
\* idempotent and never enters the loop again).
AllRevokedIsFinal ==
    row.state.reason = "all_evidence_revoked" =>
        answer.completeness \in {"none", "insufficient"}

\* A run that left a checkpoint is completed in the end, if crashes stop and
\* its client resumes it.
RunCompletes == row.status = "running" ~> row.status = "completed"
=============================================================================
