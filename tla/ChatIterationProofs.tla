------------------------ MODULE ChatIterationProofs ------------------------
(***************************************************************************)
(* Theorems about the iteration loop and its checkpoints, for every        *)
(* evidence, every retriever, conflict stage and judge, and every number   *)
(* of rounds, crashes and changes of access.                               *)
(***************************************************************************)
EXTENDS ChatIteration, FiniteSetTheorems, TLAPS

-----------------------------------------------------------------------------
(* Types                                                                    *)

LEMMA VerdictType ==
    ASSUME ChatTypeOK, NEW K \in SUBSET Evidence
    PROVE  Verdict(K) \in CoverageType
<1>1. World[world].assess[K] \in [Facts -> FactStatus]
  BY WorldAssumption DEF ChatTypeOK, WorldType
<1>2. derive_overall_status(World[world].assess[K]) \in Overalls
  BY DEF derive_overall_status, Overalls
<1> QED
  BY <1>1, <1>2 DEF Verdict, CoverageType

LEMMA ForcedType == \A o \in Overalls : Forced(o) \in CoverageType
  BY DEF CoverageType

LEMMA KeptType ==
    ASSUME ChatTypeOK, NEW st \in StateType
    PROVE  /\ Kept(st) \subseteq st.evidence
           /\ st.evidence \subseteq Evidence
           /\ Contradicts(st) \in BOOLEAN
           /\ Contradicts(st) => Kept(st) # {}
  BY WorldAssumption DEF ChatTypeOK, StateType, Kept, Contradicts

LEMMA RefusedType ==
    ASSUME NEW st \in StateType, NEW reason \in Reasons
    PROVE  Refused(st, reason) \in StateType
  BY ForcedType DEF Refused, StateType, Overalls

LEMMA InitialType ==
    \A S \in SUBSET Evidence : InitialState(S) \in StateType
  BY ForcedType, ChatAssumption DEF InitialState, StateType, Reasons, Unjudged, Overalls

\* The retrieval of a round adds evidence that may be read and one query.
LEMMA GatheredType ==
    ASSUME ChatTypeOK, InRound
    PROVE  /\ Gathered(mem) \in StateType
           /\ mem.state.evidence \subseteq Gathered(mem).evidence
           /\ Gathered(mem).evidence \subseteq mem.state.evidence \cup authorized
           /\ mem.state.queries \subseteq Gathered(mem).queries
           /\ Gathered(mem).reason = mem.state.reason
<1>1. mem.state \in StateType
  BY DEF ChatTypeOK, RequestType
<1>2. CASE mem.round = 0
  BY <1>1, <1>2 DEF Gathered
<1>3. CASE mem.round # 0
  <2>1. Pending(mem.state) # {}
    BY <1>3 DEF InRound
  <2>2. Pending(mem.state) \subseteq Facts
    BY <1>1 DEF Pending, Open, StateType, CoverageType, Forced
  <2>3. NextQuery(mem.state) \in Queries
    BY <2>1, <2>2, ChatAssumption DEF NextQuery
  <2>4. Retrieve(NextQuery(mem.state)) \subseteq Evidence \cap authorized
    BY <2>3, WorldAssumption DEF ChatTypeOK, WorldType, Retrieve
  <2>5. Gathered(mem) =
            [mem.state EXCEPT !.evidence = @ \cup Retrieve(NextQuery(mem.state)),
                              !.queries = @ \cup {NextQuery(mem.state)},
                              !.calls = @ + 1]
    BY <1>3 DEF Gathered
  <2>6. /\ mem.state.evidence \cup Retrieve(NextQuery(mem.state)) \subseteq Evidence
        /\ mem.state.queries \cup {NextQuery(mem.state)} \subseteq Queries
        /\ mem.state.calls + 1 \in Nat
    BY <1>1, <2>3, <2>4 DEF StateType
  <2>7. Gathered(mem) \in StateType
    BY <1>1, <2>5, <2>6 DEF StateType
  <2> QED
    BY <1>1, <2>4, <2>5, <2>7 DEF StateType
<1> QED
  BY <1>2, <1>3

LEMMA RebuiltType ==
    ASSUME ChatTypeOK
    PROVE  /\ Rebuilt(mem) \in StateType
           /\ Rebuilt(mem).evidence = mem.state.evidence \ mem.lost
  BY DEF ChatTypeOK, RequestType, Rebuilt, StateType

LEMMA EnvelopeType ==
    ASSUME NEW st \in StateType
    PROVE  Envelope(st) \in AnswerType
<1>1. st.coverage.overall \in Overalls
  BY DEF StateType, CoverageType, Forced
<1>2. Completeness(st.coverage.overall) \in {"complete", "partial", "conflicted", "insufficient"}
  BY <1>1 DEF Completeness, Overalls
<1>3. Refusal \in AnswerType
  BY ForcedType DEF Refusal, NoAnswer, AnswerType, Unjudged, Overalls, Reasons
<1> QED
  BY <1>2, <1>3 DEF Envelope, AnswerType, StateType, Reasons

LEMMA IdleType == NoRow \in RowType /\ Idle \in RequestType /\ NoAnswer \in AnswerType
<1>1. InitialState({}) \in StateType
  BY InitialType
<1>2. 0 \in 0 .. MaxRounds
  BY ChatAssumption
<1>3. NoAnswer \in AnswerType
  BY ForcedType DEF NoAnswer, AnswerType, Unjudged, Overalls, Reasons
<1> QED
  BY <1>1, <1>2, <1>3 DEF NoRow, RowType, Idle, Request, RequestType, Places

\* A request in another place, with another state.
LEMMA MovedType ==
    ASSUME ChatTypeOK, NEW pc \in Places, NEW st \in StateType
    PROVE  [mem EXCEPT !.pc = pc, !.state = st] \in RequestType
  BY DEF ChatTypeOK, RequestType

\* The types of what one round leaves.
LEMMA EndOfRoundType ==
    ASSUME ChatTypeOK, mem.round < MaxRounds, NEW pc \in Places, NEW st \in StateType,
           NEW n \in Nat
    PROVE  EndOfRound(pc, st, n) \in RequestType
<1>1. mem.round + 1 \in 0 .. MaxRounds
  BY ChatAssumption DEF ChatTypeOK, RequestType
<1> QED
  BY <1>1 DEF ChatTypeOK, RequestType, EndOfRound

LEMMA FilteredType ==
    ASSUME ChatTypeOK, NEW st \in StateType
    PROVE  /\ Filtered(st) \in StateType
           /\ Conflicting(st) \in StateType
           /\ \A c \in CoverageType, r \in Reasons :
                 [Filtered(st) EXCEPT !.coverage = c, !.reason = r] \in StateType
           /\ \A c \in CoverageType, b \in BOOLEAN :
                 [Filtered(st) EXCEPT !.conflict_stop = b, !.coverage = c] \in StateType
<1>1. Filtered(st) \in StateType
  BY KeptType DEF Filtered, StateType
<1>2. Forced("contradicted") \in CoverageType
  BY ForcedType DEF Overalls
<1> QED
  BY <1>1, <1>2 DEF Conflicting, StateType, Reasons

\* A step makes one search at most, and only a round that retrieves makes one.
LEMMA SearchedValue ==
    /\ Searched \in {0, 1}
    /\ ~(InRound /\ mem.round # 0) => Searched = 0
    /\ InRound /\ mem.round # 0 => Searched = 1
  BY DEF Searched

LEMMA SearchesType ==
    ASSUME ChatTypeOK
    PROVE  searches \in Nat /\ searches + Searched \in Nat /\ searches + 1 \in Nat
<1>1. searches \in Nat
  BY DEF ChatTypeOK
<1> QED
  BY <1>1, SearchedValue

LEMMA StepType ==
    ASSUME ChatTypeOK, NEW m \in RequestType, Step(m)
    PROVE  ChatTypeOK'
  BY SearchesType DEF Step, ChatTypeOK

LEMMA ReturnType ==
    ASSUME ChatTypeOK, NEW a \in AnswerType, Return(a), row' \in RowType
    PROVE  ChatTypeOK'
  BY IdleType DEF Return, ChatTypeOK

\* What a round decides is a stop reason or "continue".
LEMMA DecideType ==
    \A c, r, n : decide(c, r, n) \in Reasons
  BY DEF decide, Reasons

-----------------------------------------------------------------------------
(* Each action keeps the types.                                             *)

LEMMA RunRoundType ==
    ASSUME ChatTypeOK, RunRound
    PROVE  ChatTypeOK'
<1>1. mem.state \in StateType /\ mem.noGain \in Nat
  BY DEF ChatTypeOK, RequestType
<1>2. CASE Exhausted
  <2>1. [mem.state EXCEPT !.reason = "all_sources_exhausted"] \in StateType
    BY <1>1 DEF StateType, Reasons
  <2> QED
    BY <1>1, <1>2, <2>1, EndOfRoundType, StepType DEF Exhausted, Places, AfterSave
<1>3. CASE NoneKept
  <2>1. Refused(Gathered(mem), "no_evidence") \in StateType
    BY <1>3, GatheredType, RefusedType DEF NoneKept, Reasons
  <2> QED
    BY <1>1, <1>3, <2>1, EndOfRoundType, StepType DEF NoneKept, InRound, Places, AfterSave
<1>4. CASE Contradiction
  <2>1. Conflicting(Gathered(mem)) \in StateType
    BY <1>4, GatheredType, FilteredType DEF Contradiction
  <2> QED
    BY <1>1, <1>4, <2>1, EndOfRoundType, StepType DEF Contradiction, InRound, Places, AfterSave
<1>5. CASE Judged
  <2> DEFINE st == Filtered(Gathered(mem))
             coverage == Verdict(st.final)
             gained == FoundNew(mem) \/ Covered(coverage) \ Covered(mem.state.coverage) # {}
             noGain == IF gained THEN 0 ELSE mem.noGain + 1
             reason == decide(coverage, mem.round, noGain)
             pc == IF reason = "continue" THEN "save_round" ELSE "save_stop"
             after == [st EXCEPT !.coverage = coverage, !.reason = reason]
  <2>1. InRound
    BY <1>5 DEF Judged, ReachesJudge
  <2>2. Gathered(mem) \in StateType /\ st \in StateType
    BY <2>1, GatheredType, FilteredType
  <2>3. coverage \in CoverageType
    BY <2>2, VerdictType DEF StateType
  <2>4. after \in StateType
    BY <2>2, <2>3, FilteredType, DecideType
  <2>5. noGain \in Nat /\ pc \in Places
    BY <1>1 DEF Places, AfterSave
  <2>6. Step(EndOfRound(pc, after, noGain))
    BY <1>5 DEF Judged
  <2>7. EndOfRound(pc, after, noGain) \in RequestType
    BY <2>1, <2>4, <2>5, EndOfRoundType DEF InRound
  <2> QED
    BY <2>6, <2>7, StepType
<1>6. CASE JudgeFault
  <2> DEFINE after == [Refused(Gathered(mem), "judge_fault") EXCEPT !.final = Kept(Gathered(mem))]
  <2>1. InRound
    BY <1>6 DEF JudgeFault, ReachesJudge
  <2>2. Refused(Gathered(mem), "judge_fault") \in StateType
    BY <2>1, GatheredType, RefusedType DEF Reasons
  <2>3. Kept(Gathered(mem)) \subseteq Evidence
    BY <2>1, GatheredType, KeptType
  <2>4. after \in StateType
    BY <2>2, <2>3 DEF StateType
  <2>5. EndOfRound("save_refuse", after, mem.noGain) \in RequestType
    BY <1>1, <2>1, <2>4, EndOfRoundType DEF InRound, Places, AfterSave
  <2>6. judgeFaults' \in 0 .. MaxJudgeFaults
    BY <1>6, ChatAssumption DEF JudgeFault, ChatTypeOK
  <2> QED
    BY <1>6, <2>5, <2>6, SearchesType DEF JudgeFault, ChatTypeOK
<1>7. CASE LoopOver
  <2>1. [mem EXCEPT !.pc = "mark_last"] \in RequestType
    BY DEF ChatTypeOK, RequestType, Places
  <2> QED
    BY <1>7, <2>1, StepType DEF LoopOver
<1> QED
  BY <1>2, <1>3, <1>4, <1>5, <1>6, <1>7 DEF RunRound

LEMMA WriteType ==
    ASSUME ChatTypeOK, Write
    PROVE  ChatTypeOK'
<1>1. /\ mem.state \in StateType
      /\ [row EXCEPT !.status = "completed"] \in RowType
  BY DEF ChatTypeOK, RequestType, RowType
<1>2. Envelope(mem.state) \in AnswerType /\ Refusal \in AnswerType
  BY <1>1, EnvelopeType, ForcedType
  DEF Refusal, NoAnswer, AnswerType, Unjudged, Overalls, Reasons
<1>3. CASE save_run_checkpoint
  <2>1. row' \in RowType
    BY <1>3 DEF save_run_checkpoint, ChatTypeOK, RowType, RequestType
  <2>2. mem' \in RequestType
    BY <1>3 DEF save_run_checkpoint, ChatTypeOK, RequestType, AfterSave, Places
  <2> QED
    BY <1>3, <2>1, <2>2 DEF save_run_checkpoint, ChatTypeOK
<1>4. CASE MarkStop
  <2>1. mem' \in RequestType
    BY <1>4 DEF MarkStop, ChatTypeOK, RequestType, Places
  <2> QED
    BY <1>1, <1>4, <2>1 DEF MarkStop, mark_run_checkpoint_done, ChatTypeOK
<1>5. CASE Finalize
  BY <1>2, <1>5, ReturnType DEF Finalize, ChatTypeOK
<1>6. CASE MarkLast \/ MarkRefuse
  BY <1>1, <1>2, <1>6, ReturnType DEF MarkLast, MarkRefuse, mark_run_checkpoint_done
<1> QED
  BY <1>3, <1>4, <1>5, <1>6 DEF Write

LEMMA RecoverType ==
    ASSUME ChatTypeOK, Recover
    PROVE  ChatTypeOK'
<1>1. mem.state \in StateType /\ Rebuilt(mem) \in StateType
  BY RebuiltType DEF ChatTypeOK, RequestType
<1>2. ASSUME NEW e \in Evidence, reauthorize_evidence(e)
      PROVE  ChatTypeOK'
  <2> DEFINE m == [mem EXCEPT !.todo = @ \ {e},
                              !.lost = IF e \in authorized THEN @ ELSE @ \cup {e}]
  <2>1. m \in RequestType
    BY DEF ChatTypeOK, RequestType
  <2> QED
    BY <1>2, <2>1, StepType DEF reauthorize_evidence
<1>3. CASE AllRevoked
  BY <1>1, <1>3, RefusedType, MovedType, StepType DEF AllRevoked, Reasons, Places, AfterSave
<1>4. CASE Rebuild
  <2>1. [Refused(Rebuilt(mem), "none") EXCEPT !.coverage = Unjudged] \in StateType
    BY <1>1, RefusedType, ForcedType DEF StateType, Reasons, Unjudged, Overalls
  <2>2. mem' \in RequestType
    BY <1>1, <1>4, <2>1, MovedType DEF Rebuild, Places
  <2>3. row' \in RowType
    BY <1>4 DEF Rebuild, ChatTypeOK, RowType
  <2> QED
    BY <1>4, <2>2, <2>3 DEF Rebuild, ChatTypeOK
<1>5. CASE RecomputeNoneKept
  BY <1>1, <1>5, RefusedType, MovedType, StepType
  DEF RecomputeNoneKept, Reasons, Places, AfterSave
<1>6. CASE Recompute
  <2> DEFINE st == Filtered(mem.state)
             stop == st.contradicted \/ Verdict(st.final).overall = "sufficient"
             coverage == IF st.contradicted THEN Forced("contradicted") ELSE Verdict(st.final)
             after == [st EXCEPT !.conflict_stop = st.contradicted, !.coverage = coverage]
             pc == IF stop THEN "mark_stop" ELSE "round"
  <2>1. st \in StateType
    BY <1>1, FilteredType
  <2>2. coverage \in CoverageType /\ st.contradicted \in BOOLEAN
    BY <2>1, VerdictType, ForcedType DEF StateType, Overalls
  <2>3. after \in StateType
    BY <1>1, <2>2, FilteredType
  <2>4. Step([mem EXCEPT !.pc = pc, !.state = after])
    BY <1>6 DEF Recompute
  <2>5. pc \in Places
    BY DEF Places
  <2> QED
    BY <2>3, <2>4, <2>5, MovedType, StepType
<1>7. CASE RepeatRefusal
  BY <1>7, ReturnType, ForcedType
  DEF RepeatRefusal, ChatTypeOK, Refusal, NoAnswer, AnswerType, Unjudged, Overalls, Reasons
<1>8. CASE RepeatAnswer
  BY <1>1, <1>8, MovedType, StepType DEF RepeatAnswer, Places
<1>9. CASE Continue
  BY <1>1, <1>9, MovedType, StepType DEF Continue, Places
<1> QED
  BY <1>2, <1>3, <1>4, <1>5, <1>6, <1>7, <1>8, <1>9 DEF Recover

LEMMA BeginType ==
    ASSUME ChatTypeOK, NEW m \in RequestType, Begin(m), searches' \in Nat
    PROVE  ChatTypeOK'
  BY IdleType DEF Begin, ChatTypeOK

LEMMA TypeStep == ChatTypeOK /\ [ChatNext]_vars => ChatTypeOK'
<1> SUFFICES ASSUME ChatTypeOK, [ChatNext]_vars PROVE ChatTypeOK'
  OBVIOUS
<1>1. CASE Start
  <2>1. Retrieve(Question) \subseteq Evidence
    BY ChatAssumption, WorldAssumption DEF ChatTypeOK, WorldType, Retrieve
  <2>2. Request("save_first", 0, InitialState(Retrieve(Question))) \in RequestType
    BY <2>1, InitialType, ChatAssumption DEF Request, RequestType, Places, AfterSave
  <2> QED
    BY <1>1, <2>2, BeginType, SearchesType DEF Start
<1>2. CASE StartWithoutEvidence
  BY <1>2, ForcedType
  DEF StartWithoutEvidence, ChatTypeOK, Refusal, NoAnswer, AnswerType, Unjudged, Overalls,
      Reasons
<1>3. CASE Resume
  <2> DEFINE m == [Request("reauthorize", row.round, row.state) EXCEPT
                    !.todo = row.state.evidence, !.completed = (row.status = "completed")]
  <2>1. m \in RequestType
    BY DEF ChatTypeOK, RowType, StateType, Request, RequestType, Places
  <2> QED
    BY <1>3, <2>1, BeginType, SearchesType DEF Resume
<1>4. CASE Work
  BY <1>4, RunRoundType, WriteType, RecoverType DEF Work
<1>5. CASE Fail
  <2>1. failures' \in 0 .. MaxFailures
    BY <1>5, ChatAssumption DEF Fail, ChatTypeOK
  <2> QED
    BY <1>5, <2>1, IdleType, SearchesType DEF Fail, ChatTypeOK
<1>6. ASSUME NEW e \in Revocable, Revoke(e) \/ Restore(e)
      PROVE  ChatTypeOK'
  BY <1>6, ChatAssumption DEF Revoke, Restore, ChatTypeOK
<1>7. CASE UNCHANGED vars
  BY <1>7 DEF vars, ChatTypeOK
<1> QED
  BY <1>1, <1>2, <1>3, <1>4, <1>5, <1>6, <1>7 DEF ChatNext

LEMMA TypeInit == ChatInit => ChatTypeOK
  BY IdleType, ChatAssumption DEF ChatInit, ChatTypeOK

\* The types of the row, of the request and of the answer, in every state.
THEOREM ChatTypeCorrect == ChatSpec => []ChatTypeOK
  BY TypeInit, TypeStep, PTL DEF ChatSpec

-----------------------------------------------------------------------------
(* Evidence                                                                 *)

\* While evidence is reauthorized, what is neither waiting nor lost was found
\* readable; from then on all of it was, and what is final is a part of it.
FreshInv ==
    /\ authorized \subseteq fresh
    /\ answer.used \subseteq fresh
    /\ mem.pc = "reauthorize" => mem.state.evidence \ (mem.todo \cup mem.lost) \subseteq fresh
    /\ mem.pc \notin {"idle", "reauthorize"} =>
          /\ mem.state.evidence \subseteq fresh
          /\ mem.state.final \subseteq mem.state.evidence

LEMMA FreshStepTo ==
    ASSUME FreshInv, NEW m, Step(m), m.pc \notin {"idle", "reauthorize"},
           m.state.evidence \subseteq fresh, m.state.final \subseteq m.state.evidence
    PROVE  FreshInv'
  BY DEF Step, FreshInv

\* What a round makes of the evidence it gathered.
LEMMA FreshRound ==
    ASSUME ChatTypeOK, FreshInv, InRound
    PROVE  /\ Gathered(mem).evidence \subseteq fresh
           /\ Kept(Gathered(mem)) \subseteq Gathered(mem).evidence
           /\ Gathered(mem) \in StateType
  BY GatheredType, KeptType DEF InRound, FreshInv

\* What evidence is final stays a part of the evidence that was kept.
LEMMA FreshRebuilt ==
    ASSUME ChatTypeOK, FreshInv, Reauthorized
    PROVE  /\ Rebuilt(mem) \in StateType
           /\ Rebuilt(mem).evidence \subseteq fresh
           /\ Rebuilt(mem).final \subseteq Rebuilt(mem).evidence
<1>1. mem.state \in StateType
  BY DEF ChatTypeOK, RequestType
<1>2. Rebuilt(mem).evidence = mem.state.evidence \ mem.lost
  BY RebuiltType
<1>3. Rebuilt(mem).final \subseteq mem.state.evidence \ mem.lost
  BY <1>1 DEF Rebuilt, StateType
<1> QED
  BY <1>2, <1>3, RebuiltType DEF Reauthorized, FreshInv

LEMMA FreshRunRound ==
    ASSUME ChatTypeOK, FreshInv, RunRound
    PROVE  FreshInv'
<1>1. mem.state \in StateType /\ mem \in RequestType
  BY DEF ChatTypeOK, RequestType
<1>2. CASE Exhausted
  BY <1>1, <1>2 DEF Exhausted, Step, EndOfRound, FreshInv, RequestType, StateType
<1>3. CASE NoneKept
  <2> DEFINE after == Refused(Gathered(mem), "no_evidence")
  <2>1. Gathered(mem).evidence \subseteq fresh /\ Gathered(mem) \in StateType
    BY <1>3, FreshRound DEF NoneKept
  <2>2. after.evidence \subseteq fresh /\ after.final \subseteq after.evidence
    BY <2>1 DEF Refused, StateType
  <2>3. /\ EndOfRound("save_refuse", after, mem.noGain).state = after
        /\ EndOfRound("save_refuse", after, mem.noGain).pc = "save_refuse"
    BY <1>1 DEF EndOfRound, RequestType
  <2> QED
    BY <1>3, <2>2, <2>3, FreshStepTo DEF NoneKept
<1>4. CASE Contradiction
  <2> DEFINE after == Conflicting(Gathered(mem))
  <2>1. /\ Gathered(mem).evidence \subseteq fresh /\ Gathered(mem) \in StateType
        /\ Kept(Gathered(mem)) \subseteq Gathered(mem).evidence
    BY <1>4, FreshRound DEF Contradiction
  <2>2. after.evidence \subseteq fresh /\ after.final \subseteq after.evidence
    BY <2>1 DEF Conflicting, Filtered, StateType
  <2>3. /\ EndOfRound("save_stop", after, mem.noGain).state = after
        /\ EndOfRound("save_stop", after, mem.noGain).pc = "save_stop"
    BY <1>1 DEF EndOfRound, RequestType
  <2> QED
    BY <1>4, <2>2, <2>3, FreshStepTo DEF Contradiction
<1>5. CASE Judged
  <2>1. PICK pc \in {"save_round", "save_stop"}, c \in CoverageType, r \in Reasons, n \in Nat :
          Step(EndOfRound(pc, [Filtered(Gathered(mem)) EXCEPT !.coverage = c, !.reason = r], n))
    <3> DEFINE st == Filtered(Gathered(mem))
               coverage == Verdict(st.final)
               gained == FoundNew(mem) \/ Covered(coverage) \ Covered(mem.state.coverage) # {}
               noGain == IF gained THEN 0 ELSE mem.noGain + 1
               reason == decide(coverage, mem.round, noGain)
    <3>1. Gathered(mem) \in StateType
      BY <1>5, FreshRound DEF Judged, ReachesJudge
    <3>2. st \in StateType
      BY <3>1, FilteredType
    <3>3. coverage \in CoverageType
      BY <3>2, VerdictType DEF StateType
    <3>4. reason \in Reasons
      BY DecideType
    <3>5. noGain \in Nat
      BY <1>1 DEF RequestType
    <3>6. Step(EndOfRound(IF reason = "continue" THEN "save_round" ELSE "save_stop",
                          [st EXCEPT !.coverage = coverage, !.reason = reason], noGain))
      BY <1>5 DEF Judged
    <3> HIDE DEF coverage, reason, noGain
    <3> QED
      BY <3>3, <3>4, <3>5, <3>6
  <2> DEFINE after == [Filtered(Gathered(mem)) EXCEPT !.coverage = c, !.reason = r]
  <2>2. /\ Gathered(mem).evidence \subseteq fresh /\ Gathered(mem) \in StateType
        /\ Kept(Gathered(mem)) \subseteq Gathered(mem).evidence
    BY <1>5, FreshRound DEF Judged, ReachesJudge
  <2>3. after.evidence \subseteq fresh /\ after.final \subseteq after.evidence
    BY <2>2 DEF Filtered, StateType
  <2>4. EndOfRound(pc, after, n).state = after /\ EndOfRound(pc, after, n).pc = pc
    BY <1>1 DEF EndOfRound, RequestType
  <2> QED
    BY <2>1, <2>3, <2>4, FreshStepTo
<1>6. CASE JudgeFault
  <2> DEFINE after == [Refused(Gathered(mem), "judge_fault") EXCEPT !.final = Kept(Gathered(mem))]
  <2>1. /\ Gathered(mem).evidence \subseteq fresh /\ Gathered(mem) \in StateType
        /\ Kept(Gathered(mem)) \subseteq Gathered(mem).evidence
    BY <1>6, FreshRound DEF JudgeFault, ReachesJudge
  <2>2. after.evidence \subseteq fresh /\ after.final \subseteq after.evidence
    BY <2>1 DEF Refused, StateType
  <2>3. mem'.state = after /\ mem'.pc = "save_refuse"
    BY <1>1, <1>6 DEF JudgeFault, EndOfRound, RequestType
  <2> QED
    BY <1>6, <2>2, <2>3 DEF JudgeFault, FreshInv
<1>7. CASE LoopOver
  BY <1>1, <1>7 DEF LoopOver, Step, FreshInv, RequestType
<1> QED
  BY <1>2, <1>3, <1>4, <1>5, <1>6, <1>7 DEF RunRound

LEMMA FreshWrite ==
    ASSUME ChatTypeOK, FreshInv, Write
    PROVE  FreshInv'
<1>1. mem \in RequestType
  BY DEF ChatTypeOK
<1>2. Idle.pc = "idle" /\ Refusal.used = {}
  BY DEF Idle, Request, Refusal, NoAnswer
<1>3. Envelope(mem.state).used \in {{}, mem.state.final}
  BY <1>2 DEF Envelope
<1>4. CASE save_run_checkpoint
  BY <1>1, <1>4 DEF save_run_checkpoint, AfterSave, FreshInv, RequestType
<1>5. CASE MarkStop
  BY <1>1, <1>5 DEF MarkStop, FreshInv, RequestType
<1>6. CASE Finalize
  BY <1>2, <1>3, <1>6 DEF Finalize, Return, FreshInv
<1>7. CASE MarkLast
  BY <1>2, <1>3, <1>7 DEF MarkLast, Return, FreshInv
<1>8. CASE MarkRefuse
  BY <1>2, <1>8 DEF MarkRefuse, Return, FreshInv
<1> QED
  BY <1>4, <1>5, <1>6, <1>7, <1>8 DEF Write

LEMMA FreshRecover ==
    ASSUME ChatTypeOK, FreshInv, Recover
    PROVE  FreshInv'
<1>1. mem.state \in StateType /\ mem \in RequestType
  BY DEF ChatTypeOK, RequestType
<1>2. Idle.pc = "idle" /\ Refusal.used = {}
  BY DEF Idle, Request, Refusal, NoAnswer
<1>3. ASSUME NEW e \in Evidence, reauthorize_evidence(e)
      PROVE  FreshInv'
  BY <1>1, <1>3 DEF reauthorize_evidence, Step, FreshInv, RequestType
<1>4. CASE AllRevoked
  <2>1. Refused(Rebuilt(mem), "all_evidence_revoked").evidence = {}
    BY <1>4, FreshRebuilt DEF AllRevoked, Refused, StateType
  <2>2. Refused(Rebuilt(mem), "all_evidence_revoked").final = {}
    BY <1>4, FreshRebuilt DEF AllRevoked, Refused, StateType
  <2> QED
    BY <1>1, <1>4, <2>1, <2>2 DEF AllRevoked, Step, FreshInv, RequestType
<1>5. CASE Rebuild
  <2> DEFINE after == IF mem.completed
                      THEN [Refused(Rebuilt(mem), "none") EXCEPT !.coverage = Unjudged]
                      ELSE Rebuilt(mem)
  <2>1. after.evidence \subseteq fresh /\ after.final \subseteq after.evidence
    BY <1>5, FreshRebuilt DEF Rebuild, Refused, StateType
  <2>2. mem'.state = after /\ mem'.pc = "recompute"
    BY <1>1, <1>5 DEF Rebuild, RequestType
  <2> QED
    BY <1>5, <2>1, <2>2 DEF Rebuild, FreshInv
<1>6. CASE RecomputeNoneKept
  <2> DEFINE after == Refused(mem.state, "temporal_no_evidence")
  <2>1. after.evidence \subseteq fresh /\ after.final \subseteq after.evidence
    BY <1>1, <1>6 DEF RecomputeNoneKept, Refused, StateType, FreshInv
  <2> QED
    BY <1>1, <1>6, <2>1 DEF RecomputeNoneKept, Step, FreshInv, RequestType
<1>7. CASE Recompute
  <2>1. Kept(mem.state) \subseteq mem.state.evidence
    BY <1>1, KeptType
  <2>2. /\ mem'.state.evidence = mem.state.evidence
        /\ mem'.state.final = Kept(mem.state)
        /\ mem'.pc \in {"mark_stop", "round"}
    BY <1>1, <1>7 DEF Recompute, Step, Filtered, RequestType, StateType
  <2> QED
    BY <1>7, <2>1, <2>2 DEF Recompute, Step, FreshInv
<1>8. CASE RepeatRefusal
  BY <1>2, <1>8 DEF RepeatRefusal, Return, FreshInv
<1>9. CASE RepeatAnswer
  BY <1>1, <1>9, FreshRebuilt DEF RepeatAnswer, Step, FreshInv, RequestType
<1>10. CASE Continue
  BY <1>1, <1>10, FreshRebuilt DEF Continue, Step, FreshInv, RequestType
<1> QED
  BY <1>3, <1>4, <1>5, <1>6, <1>7, <1>8, <1>9, <1>10 DEF Recover

LEMMA FreshInit == ChatInit => FreshInv
  BY DEF ChatInit, FreshInv, Idle, Request, NoAnswer

LEMMA FreshStep == ChatTypeOK /\ FreshInv /\ [ChatNext]_vars => FreshInv'
<1> SUFFICES ASSUME ChatTypeOK, FreshInv, [ChatNext]_vars PROVE FreshInv'
  OBVIOUS
<1>1. CASE Start
  <2> DEFINE m == Request("save_first", 0, InitialState(Retrieve(Question)))
  <2>1. /\ m.state.evidence \subseteq authorized /\ m.pc = "save_first"
        /\ m.state.final \subseteq m.state.evidence
    BY DEF Request, InitialState, Retrieve
  <2> QED
    BY <1>1, <2>1 DEF Start, Begin, FreshInv, NoAnswer
<1>2. CASE StartWithoutEvidence
  BY <1>2 DEF StartWithoutEvidence, FreshInv, Refusal, NoAnswer
<1>3. CASE Resume
  <2> DEFINE m == [Request("reauthorize", row.round, row.state) EXCEPT
                    !.todo = row.state.evidence, !.completed = (row.status = "completed")]
  <2>1. m.pc = "reauthorize" /\ m.state.evidence \ (m.todo \cup m.lost) = {}
    BY DEF Request
  <2> QED
    BY <1>3, <2>1 DEF Resume, Begin, FreshInv, NoAnswer
<1>4. CASE Work
  BY <1>4, FreshRunRound, FreshWrite, FreshRecover DEF Work
<1>5. CASE Fail
  BY <1>5 DEF Fail, FreshInv, Idle, Request
<1>6. ASSUME NEW e \in Revocable, Revoke(e) \/ Restore(e)
      PROVE  FreshInv'
  BY <1>6 DEF Revoke, Restore, FreshInv
<1>7. CASE UNCHANGED vars
  BY <1>7 DEF vars, FreshInv
<1> QED
  BY <1>1, <1>2, <1>3, <1>4, <1>5, <1>6, <1>7 DEF ChatNext

\* No answer uses, and no request works with, evidence that the principal could
\* not read at some time since the request began, whatever its checkpoint holds.
THEOREM OnlyFreshEvidenceHolds == ChatSpec => []OnlyFreshEvidence
<1>1. ChatInit => ChatTypeOK /\ FreshInv
  BY TypeInit, FreshInit
<1>2. ChatTypeOK /\ FreshInv /\ [ChatNext]_vars => ChatTypeOK' /\ FreshInv'
  BY TypeStep, FreshStep
<1>3. FreshInv => OnlyFreshEvidence
  BY DEF FreshInv, OnlyFreshEvidence
<1> QED
  BY <1>1, <1>2, <1>3, PTL DEF ChatSpec

-----------------------------------------------------------------------------
(* Verdicts                                                                 *)

\* The verdict of a state was given on its final evidence, or there is none,
\* or the service made it itself: a refusal, or a contradiction over what was
\* kept of contradicting sources.  A state that is not refused has evidence,
\* so that restoring a row never puts other evidence under its verdict.
Sound(st) ==
    /\ st.final \subseteq st.evidence
    /\ \/ st.coverage = Unjudged
       \/ st.coverage = Forced("insufficient") /\ ~st.contradicted
       \/ /\ st.coverage = Forced("contradicted")
          /\ st.final # {}
          /\ \E S \in World[world].contradicted : World[world].kept[S] = st.final
       \/ /\ st.coverage = Verdict(st.final)
          /\ st.final # {}

VerdictInv ==
    /\ VerdictFitsEvidence
    /\ Sound(row.state)
    /\ mem.pc # "recompute" => Sound(mem.state)

LEMMA SoundStepTo ==
    ASSUME VerdictInv, NEW m, Step(m), m.pc # "recompute" => Sound(m.state)
    PROVE  VerdictInv'
  BY DEF Step, VerdictInv, Sound, Verdict, VerdictFitsEvidence

\* A request that returns leaves an answer that fits, and an idle request.
LEMMA SoundReturn ==
    ASSUME VerdictInv, NEW a, Return(a), row'.state = row.state,
           \/ a.coverage = Unjudged
           \/ a.coverage = Verdict(a.used)
           \/ /\ a.coverage = Forced("contradicted")
              /\ \E S \in World[world].contradicted : World[world].kept[S] = a.used
    PROVE  VerdictInv'
<1>1. Idle.state.coverage = Unjudged /\ Idle.state.final = {}
  BY DEF Idle, Request, InitialState
<1> QED
  BY <1>1 DEF Return, VerdictInv, Sound, Verdict, VerdictFitsEvidence

LEMMA SoundRefused ==
    ASSUME NEW st \in StateType, NEW reason
    PROVE  Sound(Refused(st, reason))
  BY DEF Refused, StateType, Sound

LEMMA SoundInitial == \A S : Sound(InitialState(S))
  BY DEF InitialState, Sound

\* What the conflict stage and the judge make of gathered evidence.
LEMMA SoundFiltered ==
    ASSUME ChatTypeOK, NEW st \in StateType, Kept(st) # {}
    PROVE  /\ \A r : Sound([Filtered(st) EXCEPT !.coverage = Verdict(Filtered(st).final),
                                                !.reason = r])
           /\ \A b : Sound([Filtered(st) EXCEPT !.conflict_stop = b,
                                                !.coverage = Verdict(Filtered(st).final)])
           /\ Contradicts(st) => Sound(Conflicting(st))
           /\ Contradicts(st) =>
                \A b : Sound([Filtered(st) EXCEPT !.conflict_stop = b,
                                                  !.coverage = Forced("contradicted")])
           /\ Filtered(st).final = Kept(st) /\ Filtered(st).contradicted = Contradicts(st)
<1>1. Kept(st) \subseteq st.evidence
  BY KeptType
<1>2. /\ Filtered(st).final = Kept(st) /\ Filtered(st).contradicted = Contradicts(st)
      /\ Filtered(st).evidence = st.evidence
  BY DEF Filtered, StateType
<1>3. Filtered(st) \in StateType
  BY FilteredType
<1>4. Contradicts(st) =>
        \E S \in World[world].contradicted : World[world].kept[S] = Kept(st)
  BY DEF Contradicts, Kept
<1>5. ASSUME NEW r
      PROVE  Sound([Filtered(st) EXCEPT !.coverage = Verdict(Filtered(st).final), !.reason = r])
  BY <1>1, <1>2, <1>3 DEF Sound, StateType
<1>6. ASSUME NEW b
      PROVE  Sound([Filtered(st) EXCEPT !.conflict_stop = b,
                                        !.coverage = Verdict(Filtered(st).final)])
  BY <1>1, <1>2, <1>3 DEF Sound, StateType
<1>7. ASSUME NEW b, Contradicts(st)
      PROVE  Sound([Filtered(st) EXCEPT !.conflict_stop = b,
                                        !.coverage = Forced("contradicted")])
  BY <1>1, <1>2, <1>3, <1>4, <1>7 DEF Sound, StateType
<1>8. Contradicts(st) => Sound(Conflicting(st))
  BY <1>1, <1>2, <1>3, <1>4 DEF Sound, StateType, Conflicting
<1> QED
  BY <1>2, <1>5, <1>6, <1>7, <1>8

\* A row that is restored without loss keeps its verdict.
LEMMA SoundRebuilt ==
    ASSUME ChatTypeOK, VerdictInv, Reauthorized, mem.lost = {}
    PROVE  Sound(Rebuilt(mem))
<1>1. mem.state \in StateType /\ Sound(mem.state)
  BY DEF ChatTypeOK, RequestType, VerdictInv, Reauthorized
<1>2. CASE mem.state.final # {}
  <2>1. Rebuilt(mem).final = mem.state.final /\ Rebuilt(mem).evidence = mem.state.evidence
    BY <1>1, <1>2 DEF Rebuilt, StateType, Sound
  <2>2. /\ Rebuilt(mem).coverage = mem.state.coverage
        /\ Rebuilt(mem).contradicted = mem.state.contradicted
    BY <1>1 DEF Rebuilt, StateType
  <2> QED
    BY <1>1, <2>1, <2>2 DEF Sound
<1>3. CASE mem.state.final = {}
  <2>1. /\ Rebuilt(mem).final \subseteq Rebuilt(mem).evidence
        /\ Rebuilt(mem).coverage = mem.state.coverage
        /\ Rebuilt(mem).contradicted = mem.state.contradicted
    BY <1>1, <1>3 DEF Rebuilt, StateType
  <2> QED
    BY <1>1, <1>3, <2>1 DEF Sound
<1> QED
  BY <1>2, <1>3

\* The envelope of a sound state fits.
LEMMA SoundEnvelope ==
    ASSUME ChatTypeOK, Sound(mem.state)
    PROVE  \/ Envelope(mem.state).coverage = Unjudged
           \/ Envelope(mem.state).coverage = Verdict(Envelope(mem.state).used)
           \/ /\ Envelope(mem.state).coverage = Forced("contradicted")
              /\ \E S \in World[world].contradicted :
                    World[world].kept[S] = Envelope(mem.state).used
<1>1. Refusal.coverage = Unjudged
  BY DEF Refusal, NoAnswer
<1>2. CASE mem.state.coverage = Forced("insufficient") /\ ~mem.state.contradicted
  <2>1. Completeness(mem.state.coverage.overall) = "insufficient"
    BY <1>2 DEF Completeness, Forced
  <2> QED
    BY <1>1, <1>2, <2>1 DEF Envelope
<1>3. CASE ~(mem.state.coverage = Forced("insufficient") /\ ~mem.state.contradicted)
  <2>1. \/ Envelope(mem.state) = Refusal
        \/ /\ Envelope(mem.state).coverage = mem.state.coverage
           /\ Envelope(mem.state).used = mem.state.final
    BY DEF Envelope
  <2> QED
    BY <1>1, <1>3, <2>1 DEF Sound
<1> QED
  BY <1>2, <1>3

LEMMA SoundRunRound ==
    ASSUME ChatTypeOK, VerdictInv, RunRound
    PROVE  VerdictInv'
<1>1. mem.state \in StateType /\ mem \in RequestType
  BY DEF ChatTypeOK, RequestType
<1>2. \A pc, st, n : /\ EndOfRound(pc, st, n).state = st
                     /\ EndOfRound(pc, st, n).pc = pc
  BY <1>1 DEF EndOfRound, RequestType
<1>3. InRound => Gathered(mem) \in StateType
  BY GatheredType
<1>4. CASE Exhausted
  <2>1. Sound([mem.state EXCEPT !.reason = "all_sources_exhausted"])
    BY <1>1, <1>4 DEF Exhausted, VerdictInv, Sound, StateType
  <2> QED
    BY <1>2, <1>4, <2>1, SoundStepTo DEF Exhausted
<1>5. CASE NoneKept
  <2>1. Sound(Refused(Gathered(mem), "no_evidence"))
    BY <1>3, <1>5, SoundRefused DEF NoneKept
  <2> QED
    BY <1>2, <1>5, <2>1, SoundStepTo DEF NoneKept
<1>6. CASE Contradiction
  <2>1. Sound(Conflicting(Gathered(mem)))
    BY <1>3, <1>6, SoundFiltered DEF Contradiction
  <2> QED
    BY <1>2, <1>6, <2>1, SoundStepTo DEF Contradiction
<1>7. CASE Judged
  <2> DEFINE st == Filtered(Gathered(mem))
             coverage == Verdict(st.final)
             gained == FoundNew(mem) \/ Covered(coverage) \ Covered(mem.state.coverage) # {}
             noGain == IF gained THEN 0 ELSE mem.noGain + 1
             reason == decide(coverage, mem.round, noGain)
             after == [st EXCEPT !.coverage = coverage, !.reason = reason]
             pc == IF reason = "continue" THEN "save_round" ELSE "save_stop"
  <2>1. Sound(after)
    BY <1>3, <1>7, SoundFiltered DEF Judged, ReachesJudge
  <2>2. Step(EndOfRound(pc, after, noGain))
    BY <1>7 DEF Judged
  <2>3. EndOfRound(pc, after, noGain).state = after
    BY <1>2
  <2> HIDE DEF after, pc, noGain
  <2> QED
    BY <2>1, <2>2, <2>3, SoundStepTo
<1>8. CASE JudgeFault
  <2> DEFINE after == [Refused(Gathered(mem), "judge_fault") EXCEPT !.final = Kept(Gathered(mem))]
  <2>1. Gathered(mem) \in StateType /\ Kept(Gathered(mem)) \subseteq Gathered(mem).evidence
    BY <1>3, <1>8, KeptType DEF JudgeFault, ReachesJudge
  <2>2. Sound(after)
    BY <2>1 DEF Sound, Refused, StateType
  <2>3. mem'.state = after /\ mem'.pc = "save_refuse"
    BY <1>2, <1>8 DEF JudgeFault
  <2> HIDE DEF after
  <2> QED
    BY <1>8, <2>2, <2>3 DEF JudgeFault, VerdictInv, Sound, Verdict, VerdictFitsEvidence
<1>9. CASE LoopOver
  <2>1. /\ [mem EXCEPT !.pc = "mark_last"].state = mem.state
        /\ Sound(mem.state)
    BY <1>1, <1>9 DEF LoopOver, RequestType, VerdictInv
  <2> QED
    BY <1>9, <2>1, SoundStepTo DEF LoopOver
<1> QED
  BY <1>4, <1>5, <1>6, <1>7, <1>8, <1>9 DEF RunRound

LEMMA SoundWrite ==
    ASSUME ChatTypeOK, VerdictInv, Write
    PROVE  VerdictInv'
<1>1. mem \in RequestType /\ row \in RowType
  BY DEF ChatTypeOK
<1>2. Refusal.coverage = Unjudged
  BY DEF Refusal, NoAnswer
<1>3. mark_run_checkpoint_done => row'.state = row.state
  BY <1>1 DEF mark_run_checkpoint_done, RowType
<1>4. CASE save_run_checkpoint
  <2>1. mem.pc # "recompute" /\ mem'.pc # "recompute" /\ mem'.state = mem.state
    BY <1>1, <1>4 DEF save_run_checkpoint, AfterSave, RequestType
  <2>2. row'.state = mem.state
    BY <1>4 DEF save_run_checkpoint
  <2> QED
    BY <1>4, <2>1, <2>2 DEF save_run_checkpoint, VerdictInv, Sound, Verdict, VerdictFitsEvidence
<1>5. CASE MarkStop
  <2>1. mem.pc # "recompute" /\ mem'.state = mem.state
    BY <1>1, <1>5 DEF MarkStop, RequestType
  <2>2. row'.state = row.state
    BY <1>3, <1>5 DEF MarkStop
  <2> QED
    BY <1>5, <2>1, <2>2 DEF MarkStop, VerdictInv, Sound, Verdict, VerdictFitsEvidence
<1>6. CASE Finalize
  BY <1>6, SoundEnvelope, SoundReturn DEF Finalize, VerdictInv
<1>7. CASE MarkLast
  BY <1>3, <1>7, SoundEnvelope, SoundReturn DEF MarkLast, VerdictInv
<1>8. CASE MarkRefuse
  BY <1>2, <1>3, <1>8, SoundReturn DEF MarkRefuse
<1> QED
  BY <1>4, <1>5, <1>6, <1>7, <1>8 DEF Write

LEMMA SoundMove ==
    ASSUME ChatTypeOK, VerdictInv, NEW pc, NEW st,
           Step([mem EXCEPT !.pc = pc, !.state = st]), pc # "recompute", Sound(st)
    PROVE  VerdictInv'
<1> DEFINE m == [mem EXCEPT !.pc = pc, !.state = st]
<1>1. m.pc = pc /\ m.state = st
  BY DEF ChatTypeOK, RequestType
<1> HIDE DEF m
<1>2. m.pc # "recompute" => Sound(m.state)
  BY <1>1
<1>3. Step(m)
  BY DEF m
<1> QED
  BY <1>2, <1>3, SoundStepTo

LEMMA SoundRecover ==
    ASSUME ChatTypeOK, VerdictInv, Recover
    PROVE  VerdictInv'
<1>1. mem.state \in StateType /\ mem \in RequestType /\ row \in RowType
  BY DEF ChatTypeOK, RequestType
<1>2. Rebuilt(mem) \in StateType
  BY RebuiltType
<1>3. ASSUME NEW e \in Evidence, reauthorize_evidence(e)
      PROVE  VerdictInv'
  <2> DEFINE m == [mem EXCEPT !.todo = @ \ {e},
                              !.lost = IF e \in authorized THEN @ ELSE @ \cup {e}]
  <2>1. m.state = mem.state /\ Sound(mem.state)
    BY <1>1, <1>3 DEF RequestType, reauthorize_evidence, VerdictInv
  <2>2. Step(m)
    BY <1>3 DEF reauthorize_evidence
  <2> HIDE DEF m
  <2> QED
    BY <2>1, <2>2, SoundStepTo
<1>4. CASE AllRevoked
  <2>1. Sound(Refused(Rebuilt(mem), "all_evidence_revoked"))
    BY <1>2, SoundRefused
  <2> QED
    BY <1>4, <2>1, SoundMove DEF AllRevoked
<1>5. CASE Rebuild
  <2>1. row'.state = row.state /\ mem'.pc = "recompute"
    BY <1>1, <1>5 DEF Rebuild, RowType, RequestType
  <2> QED
    BY <1>5, <2>1 DEF Rebuild, VerdictInv, Sound, Verdict, VerdictFitsEvidence
<1>6. CASE RecomputeNoneKept
  <2>1. Sound(Refused(mem.state, "temporal_no_evidence"))
    BY <1>1, SoundRefused
  <2> QED
    BY <1>6, <2>1, SoundMove DEF RecomputeNoneKept
<1>7. CASE Recompute
  <2> DEFINE st == Filtered(mem.state)
             stop == st.contradicted \/ Verdict(st.final).overall = "sufficient"
             coverage == IF st.contradicted THEN Forced("contradicted") ELSE Verdict(st.final)
             after(c) == [st EXCEPT !.conflict_stop = st.contradicted, !.coverage = c]
             pc == IF stop THEN "mark_stop" ELSE "round"
  <2>1. Kept(mem.state) # {}
    BY <1>7 DEF Recompute
  <2>2. /\ Contradicts(mem.state) => Sound(after(Forced("contradicted")))
        /\ Sound(after(Verdict(st.final)))
        /\ st.contradicted = Contradicts(mem.state)
    BY <1>1, <2>1, SoundFiltered
  <2>3. Step([mem EXCEPT !.pc = pc, !.state = after(coverage)])
    BY <1>7 DEF Recompute
  <2>4. pc # "recompute"
    OBVIOUS
  <2>5. coverage = IF Contradicts(mem.state) THEN Forced("contradicted") ELSE Verdict(st.final)
    BY <2>2
  <2> HIDE DEF after, pc, coverage
  <2>6. CASE Contradicts(mem.state)
    <3>1. coverage = Forced("contradicted")
      BY <2>5, <2>6
    <3> QED
      BY <2>2, <2>3, <2>4, <2>6, <3>1, SoundMove
  <2>7. CASE ~Contradicts(mem.state)
    <3>1. coverage = Verdict(st.final)
      BY <2>5, <2>7
    <3> QED
      BY <2>2, <2>3, <2>4, <3>1, SoundMove
  <2> QED
    BY <2>6, <2>7
<1>8. CASE RepeatRefusal
  <2>1. Refusal.coverage = Unjudged
    BY DEF Refusal, NoAnswer
  <2> QED
    BY <1>8, <2>1, SoundReturn DEF RepeatRefusal
<1>9. CASE RepeatAnswer
  <2>1. Sound(Rebuilt(mem))
    BY <1>9, SoundRebuilt DEF RepeatAnswer
  <2> QED
    BY <1>9, <2>1, SoundMove DEF RepeatAnswer
<1>10. CASE Continue
  <2>1. Sound(Rebuilt(mem))
    BY <1>10, SoundRebuilt DEF Continue
  <2> QED
    BY <1>10, <2>1, SoundMove DEF Continue
<1> QED
  BY <1>3, <1>4, <1>5, <1>6, <1>7, <1>8, <1>9, <1>10 DEF Recover

LEMMA SoundInit == ChatInit => VerdictInv
  BY SoundInitial DEF ChatInit, VerdictInv, VerdictFitsEvidence, Idle, Request, NoRow, NoAnswer

LEMMA SoundBegin ==
    ASSUME VerdictInv, NEW m, Begin(m), m.pc # "recompute", Sound(m.state)
    PROVE  VerdictInv'
  BY DEF Begin, NoAnswer, VerdictInv, Sound, Verdict, VerdictFitsEvidence

LEMMA SoundStep == ChatTypeOK /\ VerdictInv /\ [ChatNext]_vars => VerdictInv'
<1> SUFFICES ASSUME ChatTypeOK, VerdictInv, [ChatNext]_vars PROVE VerdictInv'
  OBVIOUS
<1>1. CASE Start
  <2> DEFINE m == Request("save_first", 0, InitialState(Retrieve(Question)))
  <2>1. m.pc = "save_first" /\ Sound(m.state)
    BY SoundInitial DEF Request
  <2>2. Begin(m)
    BY <1>1 DEF Start
  <2> HIDE DEF m
  <2> QED
    BY <2>1, <2>2, SoundBegin
<1>2. CASE StartWithoutEvidence
  BY <1>2
  DEF StartWithoutEvidence, Refusal, NoAnswer, VerdictInv, Sound, Verdict, VerdictFitsEvidence
<1>3. CASE Resume
  <2> DEFINE m == [Request("reauthorize", row.round, row.state) EXCEPT
                    !.todo = row.state.evidence, !.completed = (row.status = "completed")]
  <2>1. m.pc = "reauthorize" /\ m.state = row.state
    BY DEF Request
  <2>2. Begin(m) /\ Sound(row.state)
    BY <1>3 DEF Resume, VerdictInv
  <2> HIDE DEF m
  <2> QED
    BY <2>1, <2>2, SoundBegin
<1>4. CASE Work
  BY <1>4, SoundRunRound, SoundWrite, SoundRecover DEF Work
<1>5. CASE Fail
  <2>1. Sound(Idle.state)
    BY SoundInitial DEF Idle, Request
  <2> QED
    BY <1>5, <2>1 DEF Fail, VerdictInv, Sound, Verdict, VerdictFitsEvidence
<1>6. ASSUME NEW e \in Revocable, Revoke(e) \/ Restore(e)
      PROVE  VerdictInv'
  BY <1>6 DEF Revoke, Restore, VerdictInv, Sound, Verdict, VerdictFitsEvidence
<1>7. CASE UNCHANGED vars
  BY <1>7 DEF vars, VerdictInv, Sound, Verdict, VerdictFitsEvidence
<1> QED
  BY <1>1, <1>2, <1>3, <1>4, <1>5, <1>6, <1>7 DEF ChatNext

\* No verdict outlives the evidence it was given on, through crashes, resumed
\* requests and every change of access.
THEOREM VerdictFitsEvidenceHolds == ChatSpec => []VerdictFitsEvidence
<1>1. ChatInit => ChatTypeOK /\ VerdictInv
  BY TypeInit, SoundInit
<1>2. ChatTypeOK /\ VerdictInv /\ [ChatNext]_vars => ChatTypeOK' /\ VerdictInv'
  BY TypeStep, SoundStep
<1>3. VerdictInv => VerdictFitsEvidence
  BY DEF VerdictInv
<1> QED
  BY <1>1, <1>2, <1>3, PTL DEF ChatSpec

-----------------------------------------------------------------------------
(* Progress of a run                                                        *)

\* A request is never behind its row, and but for the first save it has one.
AheadInv ==
    /\ row # NoRow => row.status # "absent"
    /\ mem.pc \notin {"idle", "save_first"} => row # NoRow
    /\ mem.pc = "save_first" => row = NoRow
    /\ mem.pc # "idle" /\ row # NoRow =>
          /\ row.round <= mem.round
          /\ row.state.queries \subseteq mem.state.queries

\* What a step does to the row when no run id is used again.
RowNeverBack ==
    row # NoRow => /\ row'.round >= row.round
                   /\ row.state.queries \subseteq row'.state.queries

\* A request that works without writing stays ahead of its row.
LEMMA AheadMove ==
    ASSUME ChatTypeOK, AheadInv, NEW m, Step(m),
           mem.pc \notin {"idle", "save_first"}, m.pc \notin {"idle", "save_first"},
           m.round >= mem.round, m.round \in Nat,
           mem.state.queries \subseteq m.state.queries
    PROVE  AheadInv' /\ RowNeverBack
<1>1. mem.round \in Nat /\ row.round \in Nat
  BY ChatAssumption DEF ChatTypeOK, RequestType, RowType
<1> QED
  BY <1>1 DEF Step, AheadInv, RowNeverBack, NoRow

LEMMA AheadRunRound ==
    ASSUME ChatTypeOK, AheadInv, RunRound
    PROVE  AheadInv' /\ RowNeverBack
<1>1. mem.state \in StateType /\ mem \in RequestType /\ mem.round \in Nat
  BY ChatAssumption DEF ChatTypeOK, RequestType
<1>2. \A pc, st, n : /\ EndOfRound(pc, st, n).state = st
                     /\ EndOfRound(pc, st, n).pc = pc
                     /\ EndOfRound(pc, st, n).round = mem.round + 1
  BY <1>1 DEF EndOfRound, RequestType
<1>3. InRound => /\ Gathered(mem) \in StateType
                 /\ mem.state.queries \subseteq Gathered(mem).queries
  BY GatheredType
<1>4. ASSUME NEW pc \in {"save_round", "save_stop", "save_refuse"}, NEW st, NEW n,
             mem.pc = "round", Step(EndOfRound(pc, st, n)),
             mem.state.queries \subseteq st.queries
      PROVE  AheadInv' /\ RowNeverBack
  <2> DEFINE m == EndOfRound(pc, st, n)
  <2>1. /\ m.round >= mem.round /\ m.round \in Nat
        /\ m.pc = pc /\ m.state = st
    BY <1>1, <1>2
  <2>2. Step(m)
    BY <1>4
  <2> HIDE DEF m
  <2> QED
    BY <1>4, <2>1, <2>2, AheadMove
<1>5. CASE Exhausted
  <2>1. mem.state.queries = [mem.state EXCEPT !.reason = "all_sources_exhausted"].queries
    BY <1>1 DEF StateType
  <2> QED
    BY <1>4, <1>5, <2>1 DEF Exhausted
<1>6. CASE NoneKept
  <2>1. mem.state.queries \subseteq Refused(Gathered(mem), "no_evidence").queries
    BY <1>3, <1>6 DEF NoneKept, Refused, StateType
  <2> QED
    BY <1>4, <1>6, <2>1 DEF NoneKept, InRound
<1>7. CASE Contradiction
  <2>1. mem.state.queries \subseteq Conflicting(Gathered(mem)).queries
    BY <1>3, <1>7 DEF Contradiction, Conflicting, Filtered, StateType
  <2> QED
    BY <1>4, <1>7, <2>1 DEF Contradiction, InRound
<1>8. CASE Judged
  <2> DEFINE st == Filtered(Gathered(mem))
             coverage == Verdict(st.final)
             gained == FoundNew(mem) \/ Covered(coverage) \ Covered(mem.state.coverage) # {}
             noGain == IF gained THEN 0 ELSE mem.noGain + 1
             reason == decide(coverage, mem.round, noGain)
             after == [st EXCEPT !.coverage = coverage, !.reason = reason]
             pc == IF reason = "continue" THEN "save_round" ELSE "save_stop"
  <2>1. mem.state.queries \subseteq after.queries
    BY <1>3, <1>8 DEF Judged, ReachesJudge, Filtered, StateType
  <2>2. Step(EndOfRound(pc, after, noGain))
    BY <1>8 DEF Judged
  <2>3. pc \in {"save_round", "save_stop", "save_refuse"} /\ mem.pc = "round"
    BY <1>8 DEF Judged, ReachesJudge, InRound
  <2> HIDE DEF after, pc, noGain
  <2> QED
    BY <1>4, <2>1, <2>2, <2>3
<1>9. CASE JudgeFault
  <2> DEFINE after == [Refused(Gathered(mem), "judge_fault") EXCEPT !.final = Kept(Gathered(mem))]
  <2>1. mem.pc = "round" /\ mem.state.queries \subseteq after.queries
    BY <1>3, <1>9 DEF JudgeFault, ReachesJudge, InRound, Refused, StateType
  <2>2. mem'.pc = "save_refuse" /\ mem'.round = mem.round + 1 /\ mem'.state = after
    BY <1>2, <1>9 DEF JudgeFault
  <2>3. row' = row /\ row.round \in Nat
    BY <1>9, ChatAssumption DEF JudgeFault, ChatTypeOK, RowType
  <2> HIDE DEF after
  <2> QED
    BY <1>1, <2>1, <2>2, <2>3 DEF AheadInv, RowNeverBack, NoRow
<1>10. CASE LoopOver
  <2> DEFINE m == [mem EXCEPT !.pc = "mark_last"]
  <2>1. /\ m.pc = "mark_last" /\ m.round = mem.round /\ m.state = mem.state
        /\ mem.pc = "round"
    BY <1>1, <1>10 DEF RequestType, LoopOver
  <2>2. Step(m)
    BY <1>10 DEF LoopOver
  <2> HIDE DEF m
  <2> QED
    BY <1>1, <2>1, <2>2, AheadMove
<1> QED
  BY <1>5, <1>6, <1>7, <1>8, <1>9, <1>10 DEF RunRound

LEMMA AheadWrite ==
    ASSUME ChatTypeOK, AheadInv, Write
    PROVE  AheadInv' /\ RowNeverBack
<1>1. /\ mem \in RequestType /\ row \in RowType
      /\ mem.round \in Nat /\ row.round \in Nat
  BY ChatAssumption DEF ChatTypeOK, RequestType, RowType
<1>2. Idle.pc = "idle" /\ NoRow.status = "absent"
  BY DEF Idle, Request, NoRow
<1>3. mark_run_checkpoint_done =>
        row'.status = "completed" /\ row'.round = row.round /\ row'.state = row.state
  BY <1>1 DEF mark_run_checkpoint_done, RowType
<1>4. CASE save_run_checkpoint
  <2>1. /\ mem'.pc \in {"round", "mark_stop", "mark_refuse"}
        /\ mem'.round = mem.round /\ mem'.state = mem.state
    BY <1>1, <1>4 DEF save_run_checkpoint, AfterSave, RequestType
  <2>2. row'.round = mem.round /\ row'.state = mem.state /\ row'.status # "absent"
    BY <1>4 DEF save_run_checkpoint, AheadInv
  <2>3. mem.pc # "idle"
    BY <1>4 DEF save_run_checkpoint, AfterSave
  <2> QED
    BY <1>1, <1>2, <2>1, <2>2, <2>3 DEF AheadInv, RowNeverBack
<1>5. CASE MarkStop
  <2>1. /\ mem.pc = "mark_stop" /\ mem'.pc = "finalize"
        /\ mem'.round = mem.round /\ mem'.state = mem.state
    BY <1>1, <1>5 DEF MarkStop, RequestType
  <2> QED
    BY <1>1, <1>2, <1>3, <1>5, <2>1 DEF MarkStop, AheadInv, RowNeverBack
<1>6. CASE Finalize
  BY <1>1, <1>2, <1>6 DEF Finalize, Return, AheadInv, RowNeverBack, NoRow
<1>7. CASE MarkLast \/ MarkRefuse
  BY <1>1, <1>2, <1>3, <1>7 DEF MarkLast, MarkRefuse, Return, AheadInv, RowNeverBack
<1> QED
  BY <1>4, <1>5, <1>6, <1>7 DEF Write

LEMMA AheadRecover ==
    ASSUME ChatTypeOK, AheadInv, Recover
    PROVE  AheadInv' /\ RowNeverBack
<1>1. /\ mem.state \in StateType /\ mem \in RequestType /\ row \in RowType
      /\ mem.round \in Nat /\ row.round \in Nat
  BY ChatAssumption DEF ChatTypeOK, RequestType, RowType
<1>2. /\ Idle.pc = "idle"
      /\ Rebuilt(mem) \in StateType
      /\ Rebuilt(mem).queries = mem.state.queries
  BY <1>1, RebuiltType DEF Idle, Request, Rebuilt, StateType
<1>3. \A st \in StateType : \A reason : Refused(st, reason).queries = st.queries
  BY DEF Refused, StateType
<1>4. ASSUME NEW pc \in Places \ {"idle", "save_first"}, NEW st,
             mem.pc \notin {"idle", "save_first"}, st.queries = mem.state.queries,
             Step([mem EXCEPT !.pc = pc, !.state = st])
      PROVE  AheadInv' /\ RowNeverBack
  <2> DEFINE m == [mem EXCEPT !.pc = pc, !.state = st]
  <2>1. m.pc = pc /\ m.state = st /\ m.round = mem.round
    BY <1>1 DEF RequestType
  <2>2. Step(m)
    BY <1>4
  <2> HIDE DEF m
  <2> QED
    BY <1>1, <1>4, <2>1, <2>2, AheadMove
<1>5. ASSUME NEW e \in Evidence, reauthorize_evidence(e)
      PROVE  AheadInv' /\ RowNeverBack
  <2> DEFINE m == [mem EXCEPT !.todo = @ \ {e},
                              !.lost = IF e \in authorized THEN @ ELSE @ \cup {e}]
  <2>1. /\ m.pc = mem.pc /\ m.state = mem.state /\ m.round = mem.round
        /\ mem.pc = "reauthorize"
    BY <1>1, <1>5 DEF RequestType, reauthorize_evidence
  <2>2. Step(m)
    BY <1>5 DEF reauthorize_evidence
  <2> HIDE DEF m
  <2> QED
    BY <1>1, <2>1, <2>2, AheadMove
<1>6. CASE AllRevoked
  BY <1>2, <1>3, <1>4, <1>6 DEF AllRevoked, Reauthorized, Places, AfterSave
<1>7. CASE Rebuild
  <2>1. /\ mem'.pc = "recompute" /\ mem'.round = mem.round
        /\ mem'.state.queries = mem.state.queries
    BY <1>1, <1>2, <1>3, <1>7 DEF Rebuild, RequestType, Refused, StateType
  <2>2. /\ row'.round = row.round /\ row'.state = row.state
        /\ row'.status \in {row.status, "running"}
    BY <1>1, <1>7 DEF Rebuild, RowType
  <2>3. mem.pc = "reauthorize" /\ row # NoRow /\ row'.status # "absent" /\ NoRow.status = "absent"
    BY <1>7, <2>2 DEF Rebuild, Reauthorized, AheadInv, NoRow
  <2> QED
    BY <1>1, <2>1, <2>2, <2>3 DEF AheadInv, RowNeverBack
<1>8. CASE RecomputeNoneKept
  BY <1>1, <1>3, <1>4, <1>8 DEF RecomputeNoneKept, Places, AfterSave
<1>9. CASE Recompute
  <2> DEFINE b == Filtered(mem.state).contradicted
             c == IF b THEN Forced("contradicted") ELSE Verdict(Filtered(mem.state).final)
             pc == IF b \/ Verdict(Filtered(mem.state).final).overall = "sufficient"
                   THEN "mark_stop" ELSE "round"
             st == [Filtered(mem.state) EXCEPT !.conflict_stop = b, !.coverage = c]
  <2>1. Step([mem EXCEPT !.pc = pc, !.state = st]) /\ mem.pc = "recompute"
    BY <1>9 DEF Recompute
  <2>2. pc \in {"mark_stop", "round"}
    OBVIOUS
  <2>3. st.queries = mem.state.queries
    BY <1>1 DEF Filtered, StateType
  <2> HIDE DEF pc, st
  <2> QED
    BY <1>4, <2>1, <2>2, <2>3 DEF Places
<1>10. CASE RepeatRefusal
  BY <1>1, <1>2, <1>10 DEF RepeatRefusal, Return, AheadInv, RowNeverBack, NoRow
<1>11. CASE RepeatAnswer \/ Continue
  BY <1>2, <1>4, <1>11 DEF RepeatAnswer, Continue, Reauthorized, Places
<1> QED
  BY <1>5, <1>6, <1>7, <1>8, <1>9, <1>10, <1>11 DEF Recover

LEMMA AheadInit == ChatInit => AheadInv
  BY DEF ChatInit, AheadInv, Idle, Request

LEMMA AheadStep ==
    ASSUME ~ReuseRunId
    PROVE  ChatTypeOK /\ AheadInv /\ [ChatNext]_vars => AheadInv' /\ (row' # row => RowNeverBack)
<1> SUFFICES ASSUME ChatTypeOK, AheadInv, [ChatNext]_vars
             PROVE  AheadInv' /\ (row' # row => RowNeverBack)
  OBVIOUS
<1>1. CASE Start
  <2>1. mem'.pc = "save_first" /\ row = NoRow /\ row' = row
    BY <1>1 DEF Start, Begin, Request
  <2> QED
    BY <2>1 DEF AheadInv
<1>2. CASE StartWithoutEvidence
  BY <1>2 DEF StartWithoutEvidence, AheadInv
<1>3. CASE Resume
  <2> DEFINE m == [Request("reauthorize", row.round, row.state) EXCEPT
                    !.todo = row.state.evidence, !.completed = (row.status = "completed")]
  <2>1. m.pc = "reauthorize" /\ m.round = row.round /\ m.state = row.state
    BY DEF Request
  <2>2. row # NoRow /\ row' = row /\ mem' = m
    BY <1>3 DEF Resume, Begin
  <2>3. row.round \in Nat
    BY ChatAssumption DEF ChatTypeOK, RowType
  <2> HIDE DEF m
  <2> QED
    BY <2>1, <2>2, <2>3 DEF AheadInv
<1>4. CASE Work
  BY <1>4, AheadRunRound, AheadWrite, AheadRecover DEF Work
<1>5. CASE Fail
  BY <1>5 DEF Fail, AheadInv, Idle, Request
<1>6. ASSUME NEW e \in Revocable, Revoke(e) \/ Restore(e)
      PROVE  AheadInv' /\ (row' # row => RowNeverBack)
  BY <1>6 DEF Revoke, Restore, AheadInv
<1>7. CASE UNCHANGED vars
  BY <1>7 DEF vars, AheadInv
<1> QED
  BY <1>1, <1>2, <1>3, <1>4, <1>5, <1>6, <1>7 DEF ChatNext

\* When no run id is used again, no request of a run records an earlier round
\* than one before it did, nor forgets a query that was made.
THEOREM RoundNeverBackHolds ==
    ASSUME ~ReuseRunId
    PROVE  ChatSpec => RoundNeverBack
<1>1. ChatInit => ChatTypeOK /\ AheadInv
  BY TypeInit, AheadInit
<1>2. ChatTypeOK /\ AheadInv /\ [ChatNext]_vars => ChatTypeOK' /\ AheadInv'
  BY TypeStep, AheadStep
<1>3. ChatTypeOK /\ AheadInv /\ [ChatNext]_vars =>
        [row # NoRow => /\ row'.round >= row.round
                        /\ row.state.queries \subseteq row'.state.queries]_vars
  <2> SUFFICES ASSUME ChatTypeOK, AheadInv, [ChatNext]_vars PROVE RowNeverBack
    BY DEF RowNeverBack
  <2>1. row.round \in Nat
    BY ChatAssumption DEF ChatTypeOK, RowType
  <2> QED
    BY <2>1, AheadStep DEF RowNeverBack
<1> QED
  BY <1>1, <1>2, <1>3, PTL DEF ChatSpec, RoundNeverBack

-----------------------------------------------------------------------------
(* A run that lost all its evidence                                         *)

Revoked(st) == st.reason = "all_evidence_revoked"

\* Nothing is answered while a request runs.  A row whose evidence was all
\* revoked has none, and a request that read or made such a state can only be
\* refused.
RevokedInv ==
    /\ mem.pc # "idle" => answer = NoAnswer
    /\ Revoked(row.state) =>
          /\ row.state.evidence = {}
          /\ row # NoRow
          /\ answer.completeness \in {"none", "insufficient"}
          /\ mem.pc # "idle" => Revoked(mem.state)
    /\ mem.pc # "idle" /\ Revoked(mem.state) =>
          /\ mem.pc \in {"reauthorize", "save_refuse", "mark_refuse"}
          /\ mem.state.evidence = {}

\* A request in another place is not one whose evidence was all revoked.
LEMMA RevokedMove ==
    ASSUME RevokedInv, NEW m, Step(m), mem.pc # "idle", m.pc # "idle",
           ~Revoked(mem.state), ~Revoked(m.state)
    PROVE  RevokedInv'
  BY DEF Step, RevokedInv, Revoked

LEMMA RevokedRunRound ==
    ASSUME ChatTypeOK, RevokedInv, RunRound
    PROVE  RevokedInv'
<1>1. mem.state \in StateType /\ mem \in RequestType
  BY DEF ChatTypeOK, RequestType
<1>2. \A pc, st, n : /\ EndOfRound(pc, st, n).state = st
                     /\ EndOfRound(pc, st, n).pc = pc
  BY <1>1 DEF EndOfRound, RequestType
<1>3. mem.pc = "round"
  BY DEF RunRound, Exhausted, NoneKept, Contradiction, Judged, JudgeFault, LoopOver,
         ReachesJudge, InRound
<1>4. ~Revoked(mem.state)
  BY <1>3 DEF RevokedInv
<1>5. InRound => Gathered(mem) \in StateType
  BY GatheredType
<1>6. ASSUME NEW pc \in Places \ {"idle"}, NEW st, NEW n,
             Step(EndOfRound(pc, st, n)), ~Revoked(st)
      PROVE  RevokedInv'
  <2> DEFINE m == EndOfRound(pc, st, n)
  <2>1. m.pc = pc /\ m.state = st /\ Step(m)
    BY <1>2, <1>6
  <2> HIDE DEF m
  <2> QED
    BY <1>3, <1>4, <1>6, <2>1, RevokedMove
<1>7. CASE Exhausted
  <2>1. ~Revoked([mem.state EXCEPT !.reason = "all_sources_exhausted"])
    BY <1>1 DEF Revoked, StateType
  <2> QED
    BY <1>6, <1>7, <2>1 DEF Exhausted, Places, AfterSave
<1>8. CASE NoneKept
  <2>1. ~Revoked(Refused(Gathered(mem), "no_evidence"))
    BY <1>5, <1>8 DEF NoneKept, Revoked, Refused, StateType
  <2> QED
    BY <1>6, <1>8, <2>1 DEF NoneKept, Places, AfterSave
<1>9. CASE Contradiction
  <2>1. ~Revoked(Conflicting(Gathered(mem)))
    BY <1>5, <1>9 DEF Contradiction, Revoked, Conflicting, Filtered, StateType
  <2> QED
    BY <1>6, <1>9, <2>1 DEF Contradiction, Places, AfterSave
<1>10. CASE Judged
  <2> DEFINE st == Filtered(Gathered(mem))
             coverage == Verdict(st.final)
             gained == FoundNew(mem) \/ Covered(coverage) \ Covered(mem.state.coverage) # {}
             noGain == IF gained THEN 0 ELSE mem.noGain + 1
             reason == decide(coverage, mem.round, noGain)
             after == [st EXCEPT !.coverage = coverage, !.reason = reason]
             pc == IF reason = "continue" THEN "save_round" ELSE "save_stop"
  <2>1. after.reason = reason
    BY <1>5, <1>10 DEF Judged, ReachesJudge, Filtered, StateType
  <2>2. ~Revoked(after)
    BY <2>1 DEF Revoked, decide
  <2>3. Step(EndOfRound(pc, after, noGain))
    BY <1>10 DEF Judged
  <2>4. pc \in Places \ {"idle"}
    BY DEF Places, AfterSave
  <2> HIDE DEF after, pc, noGain
  <2> QED
    BY <1>6, <2>2, <2>3, <2>4
<1>11. CASE JudgeFault
  <2> DEFINE after == [Refused(Gathered(mem), "judge_fault") EXCEPT !.final = Kept(Gathered(mem))]
  <2>1. ~Revoked(after)
    BY <1>5, <1>11 DEF JudgeFault, ReachesJudge, Revoked, Refused, StateType
  <2>2. mem'.pc = "save_refuse" /\ mem'.state = after
    BY <1>2, <1>11 DEF JudgeFault
  <2> HIDE DEF after
  <2> QED
    BY <1>3, <1>4, <1>11, <2>1, <2>2 DEF JudgeFault, RevokedInv, Revoked
<1>12. CASE LoopOver
  <2> DEFINE m == [mem EXCEPT !.pc = "mark_last"]
  <2>1. m.pc = "mark_last" /\ m.state = mem.state
    BY <1>1 DEF RequestType
  <2>2. Step(m)
    BY <1>12 DEF LoopOver
  <2> HIDE DEF m
  <2> QED
    BY <1>3, <1>4, <2>1, <2>2, RevokedMove
<1> QED
  BY <1>7, <1>8, <1>9, <1>10, <1>11, <1>12 DEF RunRound

LEMMA RevokedWrite ==
    ASSUME ChatTypeOK, RevokedInv, AheadInv, Write
    PROVE  RevokedInv'
<1>1. mem \in RequestType /\ row \in RowType
  BY DEF ChatTypeOK
<1>2. /\ Idle.pc = "idle" /\ NoRow.status = "absent"
      /\ Refusal.completeness = "insufficient"
  BY DEF Idle, Request, NoRow, Refusal, NoAnswer
<1>3. mark_run_checkpoint_done => row'.status = "completed" /\ row'.state = row.state
  BY <1>1 DEF mark_run_checkpoint_done, RowType
<1>4. CASE save_run_checkpoint
  <2>1. /\ mem.pc # "idle" /\ mem'.state = mem.state
        /\ mem.pc = "save_refuse" => mem'.pc = "mark_refuse"
        /\ mem'.pc # "idle"
    BY <1>1, <1>4 DEF save_run_checkpoint, AfterSave, RequestType
  <2>2. row'.state = mem.state /\ row'.status # "absent"
    BY <1>4 DEF save_run_checkpoint, AheadInv
  <2>3. answer' = answer /\ mem.pc \in DOMAIN AfterSave
    BY <1>4 DEF save_run_checkpoint
  <2> QED
    BY <1>2, <2>1, <2>2, <2>3 DEF RevokedInv, Revoked, AfterSave, NoAnswer
<1>5. CASE MarkStop
  <2>1. mem.pc = "mark_stop" /\ mem'.pc = "finalize" /\ mem'.state = mem.state
    BY <1>1, <1>5 DEF MarkStop, RequestType
  <2> QED
    BY <1>2, <1>3, <1>5, <2>1 DEF MarkStop, RevokedInv, Revoked
<1>6. CASE Finalize
  BY <1>2, <1>6 DEF Finalize, Return, RevokedInv, Revoked
<1>7. CASE MarkLast
  BY <1>2, <1>3, <1>7 DEF MarkLast, Return, RevokedInv, Revoked
<1>8. CASE MarkRefuse
  BY <1>2, <1>3, <1>8 DEF MarkRefuse, Return, RevokedInv, Revoked
<1> QED
  BY <1>4, <1>5, <1>6, <1>7, <1>8 DEF Write

LEMMA RevokedRecover ==
    ASSUME ChatTypeOK, RevokedInv, Recover
    PROVE  RevokedInv'
<1>1. mem.state \in StateType /\ mem \in RequestType /\ row \in RowType
  BY DEF ChatTypeOK, RequestType
<1>2. /\ Idle.pc = "idle" /\ NoRow.status = "absent"
      /\ Refusal.completeness = "insufficient"
  BY DEF Idle, Request, NoRow, Refusal, NoAnswer
<1>3. /\ Rebuilt(mem) \in StateType
      /\ Rebuilt(mem).evidence = mem.state.evidence \ mem.lost
      /\ Rebuilt(mem).reason = mem.state.reason
  BY <1>1, RebuiltType DEF Rebuilt, StateType
<1>4. \A st \in StateType : \A reason : /\ Refused(st, reason).reason = reason
                                    /\ Refused(st, reason).evidence = st.evidence
  BY DEF Refused, StateType
<1>5. Reauthorized /\ Rebuilt(mem).evidence # {} => ~Revoked(mem.state)
  BY <1>3 DEF RevokedInv, Reauthorized
<1>6. ASSUME NEW pc \in Places \ {"idle"}, NEW st, mem.pc # "idle",
             ~Revoked(mem.state), ~Revoked(st), Step([mem EXCEPT !.pc = pc, !.state = st])
      PROVE  RevokedInv'
  <2> DEFINE m == [mem EXCEPT !.pc = pc, !.state = st]
  <2>1. m.pc = pc /\ m.state = st
    BY <1>1 DEF RequestType
  <2>2. Step(m)
    BY <1>6
  <2> HIDE DEF m
  <2> QED
    BY <1>6, <2>1, <2>2, RevokedMove
<1>7. ASSUME NEW e \in Evidence, reauthorize_evidence(e)
      PROVE  RevokedInv'
  <2>1. mem'.pc = mem.pc /\ mem'.state = mem.state /\ row' = row /\ answer' = answer
    BY <1>1, <1>7 DEF RequestType, reauthorize_evidence, Step
  <2> QED
    BY <2>1 DEF RevokedInv, Revoked
<1>8. CASE AllRevoked
  <2> DEFINE after == Refused(Rebuilt(mem), "all_evidence_revoked")
  <2>1. after.reason = "all_evidence_revoked" /\ after.evidence = {}
    BY <1>3, <1>4, <1>8 DEF AllRevoked
  <2>2. mem'.pc = "save_refuse" /\ mem'.state = after /\ row' = row /\ answer' = answer
    BY <1>1, <1>8 DEF AllRevoked, Step, RequestType
  <2>3. mem.pc = "reauthorize"
    BY <1>8 DEF AllRevoked, Reauthorized
  <2> HIDE DEF after
  <2> QED
    BY <2>1, <2>2, <2>3 DEF RevokedInv, Revoked
<1>9. CASE Rebuild
  <2>1. mem.pc = "reauthorize" /\ ~Revoked(mem.state)
    BY <1>5, <1>9 DEF Rebuild, Reauthorized
  <2>2. mem'.pc = "recompute" /\ mem'.state.reason \in {"none", mem.state.reason}
    BY <1>1, <1>3, <1>4, <1>9 DEF Rebuild, RequestType, Refused, StateType
  <2>3. row'.state = row.state /\ answer' = answer
    BY <1>1, <1>9 DEF Rebuild, RowType
  <2> QED
    BY <2>1, <2>2, <2>3 DEF RevokedInv, Revoked
<1>10. CASE RecomputeNoneKept
  <2>1. mem.pc = "recompute" /\ ~Revoked(mem.state)
    BY <1>10 DEF RecomputeNoneKept, RevokedInv
  <2>2. ~Revoked(Refused(mem.state, "temporal_no_evidence"))
    BY <1>1, <1>4 DEF Revoked
  <2> QED
    BY <1>6, <1>10, <2>1, <2>2 DEF RecomputeNoneKept, Places, AfterSave
<1>11. CASE Recompute
  <2>1. mem.pc = "recompute" /\ ~Revoked(mem.state)
    BY <1>11 DEF Recompute, RevokedInv
  <2>2. mem'.pc # "idle" /\ mem'.state.reason = mem.state.reason
    BY <1>1, <1>11 DEF Recompute, Step, Filtered, RequestType, StateType
  <2>3. row' = row /\ answer' = answer
    BY <1>11 DEF Recompute, Step
  <2> QED
    BY <2>1, <2>2, <2>3 DEF RevokedInv, Revoked
<1>12. CASE RepeatRefusal
  BY <1>2, <1>12 DEF RepeatRefusal, Return, RevokedInv, Revoked
<1>13. CASE RepeatAnswer \/ Continue
  <2>1. mem.pc # "idle" /\ ~Revoked(mem.state) /\ ~Revoked(Rebuilt(mem))
    BY <1>3, <1>5, <1>13 DEF RepeatAnswer, Continue, Reauthorized, Revoked
  <2> QED
    BY <1>6, <1>13, <2>1 DEF RepeatAnswer, Continue, Places
<1> QED
  BY <1>7, <1>8, <1>9, <1>10, <1>11, <1>12, <1>13 DEF Recover

LEMMA RevokedInit == ChatInit => RevokedInv
  BY DEF ChatInit, RevokedInv, Revoked, Idle, Request, NoRow, InitialState

LEMMA RevokedStep ==
    ASSUME ~ReuseRunId
    PROVE  ChatTypeOK /\ AheadInv /\ RevokedInv /\ [ChatNext]_vars => RevokedInv'
<1> SUFFICES ASSUME ChatTypeOK, AheadInv, RevokedInv, [ChatNext]_vars PROVE RevokedInv'
  OBVIOUS
<1>1. CASE Start
  <2>1. row = NoRow /\ row' = row /\ answer' = NoAnswer
    BY <1>1 DEF Start, Begin
  <2>2. mem'.state.reason = "evidence_found"
    BY <1>1 DEF Start, Begin, Request, InitialState
  <2> QED
    BY <2>1, <2>2 DEF RevokedInv, Revoked
<1>2. CASE StartWithoutEvidence
  BY <1>2 DEF StartWithoutEvidence, RevokedInv, Revoked
<1>3. CASE Resume
  <2> DEFINE m == [Request("reauthorize", row.round, row.state) EXCEPT
                    !.todo = row.state.evidence, !.completed = (row.status = "completed")]
  <2>1. m.pc = "reauthorize" /\ m.state = row.state
    BY DEF Request
  <2>2. row' = row /\ mem' = m /\ answer' = NoAnswer
    BY <1>3 DEF Resume, Begin
  <2> HIDE DEF m
  <2> QED
    BY <2>1, <2>2 DEF RevokedInv, Revoked, NoAnswer
<1>4. CASE Work
  BY <1>4, RevokedRunRound, RevokedWrite, RevokedRecover DEF Work
<1>5. CASE Fail
  BY <1>5 DEF Fail, RevokedInv, Revoked, Idle, Request
<1>6. ASSUME NEW e \in Revocable, Revoke(e) \/ Restore(e)
      PROVE  RevokedInv'
  BY <1>6 DEF Revoke, Restore, RevokedInv, Revoked
<1>7. CASE UNCHANGED vars
  BY <1>7 DEF vars, RevokedInv, Revoked
<1> QED
  BY <1>1, <1>2, <1>3, <1>4, <1>5, <1>6, <1>7 DEF ChatNext

\* When no run id is used again, a run whose evidence was all revoked never
\* answers from it, in any later request and whatever is restored.
THEOREM AllRevokedIsFinalHolds ==
    ASSUME ~ReuseRunId
    PROVE  ChatSpec => []AllRevokedIsFinal
<1>1. ChatInit => ChatTypeOK /\ AheadInv /\ RevokedInv
  BY TypeInit, AheadInit, RevokedInit
<1>2. ChatTypeOK /\ AheadInv /\ RevokedInv /\ [ChatNext]_vars
        => ChatTypeOK' /\ AheadInv' /\ RevokedInv'
  BY TypeStep, AheadStep, RevokedStep
<1>3. RevokedInv => AllRevokedIsFinal
  BY DEF RevokedInv, Revoked, AllRevokedIsFinal
<1> QED
  BY <1>1, <1>2, <1>3, PTL DEF ChatSpec

-----------------------------------------------------------------------------
(* Calls                                                                    *)

\* Before round r a state has made at most r calls, one query each; round 0
\* has its call already.
Counted(r, st) ==
    /\ IsFiniteSet(st.queries)
    /\ st.calls = Cardinality(st.queries)
    /\ st.calls <= IF r = 0 THEN 1 ELSE r

CallsInv == Counted(row.round, row.state) /\ Counted(mem.round, mem.state)

LEMMA CountedInitial == \A S : Counted(0, InitialState(S))
<1>1. IsFiniteSet({Question}) /\ Cardinality({Question}) = 1
  BY FS_Singleton
<1>2. \A S : InitialState(S).queries = {Question} /\ InitialState(S).calls = 1
  BY DEF InitialState
<1> QED
  BY <1>1, <1>2 DEF Counted

LEMMA CountedStepTo ==
    ASSUME CallsInv, NEW m, Step(m), Counted(m.round, m.state)
    PROVE  CallsInv'
  BY DEF Step, CallsInv

\* The query of a round was not made before.
LEMMA CountedGathered ==
    ASSUME ChatTypeOK, CallsInv, InRound
    PROVE  Counted(mem.round + 1, Gathered(mem))
<1>1. mem.state \in StateType /\ mem.round \in Nat
  BY ChatAssumption DEF ChatTypeOK, RequestType
<1>2. CASE mem.round = 0
  BY <1>1, <1>2 DEF Gathered, Counted, CallsInv
<1>3. CASE mem.round # 0
  <2>1. Pending(mem.state) # {} /\ Pending(mem.state) \subseteq Facts
    BY <1>1, <1>3 DEF InRound, Pending, Open, StateType, CoverageType, Forced
  <2>2. First[Pending(mem.state)] \in Pending(mem.state)
    BY <2>1, ChatAssumption
  <2>3. NextQuery(mem.state) \notin mem.state.queries
    BY <2>2 DEF NextQuery, Pending
  <2>4. /\ Gathered(mem).queries = mem.state.queries \cup {NextQuery(mem.state)}
        /\ Gathered(mem).calls = mem.state.calls + 1
    BY <1>1, <1>3 DEF Gathered, StateType
  <2>5. /\ IsFiniteSet(mem.state.queries)
        /\ mem.state.calls = Cardinality(mem.state.queries)
        /\ mem.state.calls <= mem.round
    BY <1>3 DEF CallsInv, Counted
  <2>6. /\ IsFiniteSet(Gathered(mem).queries)
        /\ Cardinality(Gathered(mem).queries) = Cardinality(mem.state.queries) + 1
    BY <2>3, <2>4, <2>5, FS_AddElement
  <2>7. mem.state.calls \in Nat
    BY <1>1 DEF StateType
  <2> QED
    BY <1>1, <1>3, <2>4, <2>5, <2>6, <2>7 DEF Counted
<1> QED
  BY <1>2, <1>3

LEMMA CallsRunRound ==
    ASSUME ChatTypeOK, CallsInv, RunRound
    PROVE  CallsInv'
<1>1. mem.state \in StateType /\ mem \in RequestType /\ mem.round \in Nat
  BY ChatAssumption DEF ChatTypeOK, RequestType
<1>2. \A pc, st, n : /\ EndOfRound(pc, st, n).state = st
                     /\ EndOfRound(pc, st, n).round = mem.round + 1
  BY <1>1 DEF EndOfRound, RequestType
<1>3. InRound => /\ Gathered(mem) \in StateType
                 /\ Counted(mem.round + 1, Gathered(mem))
  BY GatheredType, CountedGathered
<1>4. ASSUME NEW pc, NEW st, NEW n, InRound, Step(EndOfRound(pc, st, n)),
             st.queries = Gathered(mem).queries, st.calls = Gathered(mem).calls
      PROVE  CallsInv'
  <2> DEFINE m == EndOfRound(pc, st, n)
  <2>1. Step(m) /\ m.state = st /\ m.round = mem.round + 1
    BY <1>2, <1>4
  <2>2. Counted(mem.round + 1, st)
    BY <1>3, <1>4 DEF Counted
  <2> HIDE DEF m
  <2> QED
    BY <2>1, <2>2, CountedStepTo
<1>5. CASE Exhausted
  <2> DEFINE after == [mem.state EXCEPT !.reason = "all_sources_exhausted"]
             m == EndOfRound("save_stop", after, mem.noGain)
  <2>1. after.queries = mem.state.queries /\ after.calls = mem.state.calls
    BY <1>1 DEF StateType
  <2>2. Counted(mem.round + 1, after)
    BY <1>1, <1>5, <2>1 DEF CallsInv, Counted, Exhausted, StateType
  <2>3. Step(m) /\ m.state = after /\ m.round = mem.round + 1
    BY <1>2, <1>5 DEF Exhausted
  <2> HIDE DEF m
  <2> QED
    BY <2>2, <2>3, CountedStepTo
<1>6. CASE NoneKept
  <2>1. /\ Refused(Gathered(mem), "no_evidence").queries = Gathered(mem).queries
        /\ Refused(Gathered(mem), "no_evidence").calls = Gathered(mem).calls
    BY <1>3, <1>6 DEF NoneKept, Refused, StateType
  <2> QED
    BY <1>4, <1>6, <2>1 DEF NoneKept
<1>7. CASE Contradiction
  <2>1. /\ Conflicting(Gathered(mem)).queries = Gathered(mem).queries
        /\ Conflicting(Gathered(mem)).calls = Gathered(mem).calls
    BY <1>3, <1>7 DEF Contradiction, Conflicting, Filtered, StateType
  <2> QED
    BY <1>4, <1>7, <2>1 DEF Contradiction
<1>8. CASE Judged
  <2> DEFINE st == Filtered(Gathered(mem))
             coverage == Verdict(st.final)
             gained == FoundNew(mem) \/ Covered(coverage) \ Covered(mem.state.coverage) # {}
             noGain == IF gained THEN 0 ELSE mem.noGain + 1
             reason == decide(coverage, mem.round, noGain)
             after == [st EXCEPT !.coverage = coverage, !.reason = reason]
             pc == IF reason = "continue" THEN "save_round" ELSE "save_stop"
  <2>1. InRound
    BY <1>8 DEF Judged, ReachesJudge
  <2>2. after.queries = Gathered(mem).queries /\ after.calls = Gathered(mem).calls
    BY <1>3, <2>1 DEF Filtered, StateType
  <2>3. Step(EndOfRound(pc, after, noGain))
    BY <1>8 DEF Judged
  <2> HIDE DEF after, pc, noGain
  <2> QED
    BY <1>4, <2>1, <2>2, <2>3
<1>9. CASE JudgeFault
  <2> DEFINE after == [Refused(Gathered(mem), "judge_fault") EXCEPT !.final = Kept(Gathered(mem))]
  <2>1. InRound
    BY <1>9 DEF JudgeFault, ReachesJudge
  <2>2. after.queries = Gathered(mem).queries /\ after.calls = Gathered(mem).calls
    BY <1>3, <2>1 DEF Refused, StateType
  <2>3. Counted(mem.round + 1, after)
    BY <1>3, <2>1, <2>2 DEF Counted
  <2>4. mem'.state = after /\ mem'.round = mem.round + 1 /\ row' = row
    BY <1>2, <1>9 DEF JudgeFault
  <2> HIDE DEF after
  <2> QED
    BY <2>3, <2>4 DEF CallsInv
<1>10. CASE LoopOver
  <2> DEFINE m == [mem EXCEPT !.pc = "mark_last"]
  <2>1. m.round = mem.round /\ m.state = mem.state
    BY <1>1 DEF RequestType
  <2>2. Step(m)
    BY <1>10 DEF LoopOver
  <2> HIDE DEF m
  <2> QED
    BY <2>1, <2>2, CountedStepTo DEF CallsInv
<1> QED
  BY <1>5, <1>6, <1>7, <1>8, <1>9, <1>10 DEF RunRound

LEMMA CallsWrite ==
    ASSUME ChatTypeOK, CallsInv, Write
    PROVE  CallsInv'
<1>1. mem \in RequestType /\ row \in RowType
  BY DEF ChatTypeOK
<1>2. Counted(Idle.round, Idle.state)
  BY CountedInitial DEF Idle, Request
<1>3. mark_run_checkpoint_done => row'.round = row.round /\ row'.state = row.state
  BY <1>1 DEF mark_run_checkpoint_done, RowType
<1>4. CASE save_run_checkpoint
  <2>1. mem'.round = mem.round /\ mem'.state = mem.state
    BY <1>1, <1>4 DEF save_run_checkpoint, RequestType
  <2>2. row'.round = mem.round /\ row'.state = mem.state
    BY <1>4 DEF save_run_checkpoint
  <2> QED
    BY <2>1, <2>2 DEF CallsInv
<1>5. CASE MarkStop
  <2>1. mem'.round = mem.round /\ mem'.state = mem.state
    BY <1>1, <1>5 DEF MarkStop, RequestType
  <2> QED
    BY <1>3, <1>5, <2>1 DEF MarkStop, CallsInv
<1>6. CASE Finalize
  BY <1>2, <1>6 DEF Finalize, Return, CallsInv
<1>7. CASE MarkLast
  BY <1>2, <1>3, <1>7 DEF MarkLast, Return, CallsInv
<1>8. CASE MarkRefuse
  BY <1>2, <1>3, <1>8 DEF MarkRefuse, Return, CallsInv
<1> QED
  BY <1>4, <1>5, <1>6, <1>7, <1>8 DEF Write

\* Resuming neither retrieves nor moves the round.
LEMMA CallsRecover ==
    ASSUME ChatTypeOK, CallsInv, Recover
    PROVE  CallsInv'
<1>1. mem.state \in StateType /\ mem \in RequestType /\ row \in RowType
  BY DEF ChatTypeOK, RequestType
<1>2. /\ Counted(Idle.round, Idle.state)
      /\ Rebuilt(mem) \in StateType
      /\ Rebuilt(mem).queries = mem.state.queries
      /\ Rebuilt(mem).calls = mem.state.calls
  BY <1>1, RebuiltType, CountedInitial DEF Idle, Request, Rebuilt, StateType
<1>3. \A st \in StateType : \A reason : /\ Refused(st, reason).queries = st.queries
                                    /\ Refused(st, reason).calls = st.calls
  BY DEF Refused, StateType
<1>4. ASSUME mem'.round = mem.round, mem'.state.queries = mem.state.queries,
             mem'.state.calls = mem.state.calls,
             row'.round = row.round, row'.state = row.state
      PROVE  CallsInv'
  BY <1>4 DEF CallsInv, Counted
<1>5. ASSUME NEW e \in Evidence, reauthorize_evidence(e)
      PROVE  CallsInv'
  <2>1. mem'.round = mem.round /\ mem'.state = mem.state /\ row' = row
    BY <1>1, <1>5 DEF RequestType, reauthorize_evidence, Step
  <2> QED
    BY <1>4, <2>1
<1>6. CASE AllRevoked
  <2>1. /\ mem'.round = mem.round /\ row' = row
        /\ mem'.state = Refused(Rebuilt(mem), "all_evidence_revoked")
    BY <1>1, <1>6 DEF AllRevoked, Step, RequestType
  <2> QED
    BY <1>2, <1>3, <1>4, <2>1
<1>7. CASE Rebuild
  <2>1. /\ mem'.round = mem.round
        /\ mem'.state.queries = mem.state.queries
        /\ mem'.state.calls = mem.state.calls
    BY <1>1, <1>2, <1>7 DEF Rebuild, RequestType, Refused, StateType
  <2>2. row'.round = row.round /\ row'.state = row.state
    BY <1>1, <1>7 DEF Rebuild, RowType
  <2> QED
    BY <1>4, <2>1, <2>2
<1>8. CASE RecomputeNoneKept
  <2>1. /\ mem'.round = mem.round /\ row' = row
        /\ mem'.state = Refused(mem.state, "temporal_no_evidence")
    BY <1>1, <1>8 DEF RecomputeNoneKept, Step, RequestType
  <2> QED
    BY <1>1, <1>3, <1>4, <2>1
<1>9. CASE Recompute
  <2>1. /\ mem'.round = mem.round /\ row' = row
        /\ mem'.state.queries = mem.state.queries
        /\ mem'.state.calls = mem.state.calls
    BY <1>1, <1>9 DEF Recompute, Step, Filtered, RequestType, StateType
  <2> QED
    BY <1>4, <2>1
<1>10. CASE RepeatRefusal
  BY <1>2, <1>10 DEF RepeatRefusal, Return, CallsInv
<1>11. CASE RepeatAnswer \/ Continue
  <2>1. mem'.round = mem.round /\ row' = row /\ mem'.state = Rebuilt(mem)
    BY <1>1, <1>11 DEF RepeatAnswer, Continue, Step, RequestType
  <2> QED
    BY <1>2, <1>4, <2>1
<1> QED
  BY <1>5, <1>6, <1>7, <1>8, <1>9, <1>10, <1>11 DEF Recover

LEMMA CallsInit == ChatInit => CallsInv
  BY CountedInitial DEF ChatInit, CallsInv, Idle, Request, NoRow

LEMMA CallsStep == ChatTypeOK /\ CallsInv /\ [ChatNext]_vars => CallsInv'
<1> SUFFICES ASSUME ChatTypeOK, CallsInv, [ChatNext]_vars PROVE CallsInv'
  OBVIOUS
<1>1. CASE Start
  <2>1. mem'.round = 0 /\ mem'.state = InitialState(Retrieve(Question)) /\ row' = row
    BY <1>1 DEF Start, Begin, Request
  <2> QED
    BY <2>1, CountedInitial DEF CallsInv
<1>2. CASE StartWithoutEvidence
  BY <1>2 DEF StartWithoutEvidence, CallsInv
<1>3. CASE Resume
  <2>1. mem'.round = row.round /\ mem'.state = row.state /\ row' = row
    BY <1>3 DEF Resume, Begin, Request
  <2> QED
    BY <2>1 DEF CallsInv
<1>4. CASE Work
  BY <1>4, CallsRunRound, CallsWrite, CallsRecover DEF Work
<1>5. CASE Fail
  <2>1. Counted(Idle.round, Idle.state)
    BY CountedInitial DEF Idle, Request
  <2> QED
    BY <1>5, <2>1 DEF Fail, CallsInv
<1>6. ASSUME NEW e \in Revocable, Revoke(e) \/ Restore(e)
      PROVE  CallsInv'
  BY <1>6 DEF Revoke, Restore, CallsInv
<1>7. CASE UNCHANGED vars
  BY <1>7 DEF vars, CallsInv
<1> QED
  BY <1>1, <1>2, <1>3, <1>4, <1>5, <1>6, <1>7 DEF ChatNext

\* The calls that the row records; a run without a row has none.
Recorded == IF row = NoRow THEN 0 ELSE row.state.calls

\* A request is ahead of its row by one search at most, between the round that
\* makes it and the save: a failure loses no more than that.
SearchesInv ==
    /\ searches <= failures + IF mem.pc = "idle" THEN Recorded ELSE mem.state.calls
    /\ mem.pc # "idle" =>
          mem.state.calls <= Recorded + IF mem.pc \in DOMAIN AfterSave THEN 1 ELSE 0

LEMMA CallTypes ==
    ASSUME ChatTypeOK
    PROVE  /\ searches \in Nat /\ failures \in Nat
           /\ mem \in RequestType /\ mem.state \in StateType /\ mem.state.calls \in Nat
           /\ row \in RowType /\ row.state \in StateType /\ Recorded \in Nat
  BY ChatAssumption DEF ChatTypeOK, RequestType, RowType, StateType, Recorded

\* A request that goes on without a save: d searches more.
LEMMA SearchesMove ==
    ASSUME ChatTypeOK, SearchesInv, NEW d \in {0, 1},
           mem.pc # "idle", mem'.pc # "idle", mem.pc \notin DOMAIN AfterSave,
           Recorded' = Recorded, failures' = failures,
           searches' = searches + d, mem'.state.calls = mem.state.calls + d,
           d = 1 => mem'.pc \in DOMAIN AfterSave
    PROVE  SearchesInv'
  BY CallTypes DEF SearchesInv

\* A request that ends has recorded what it did.
LEMMA SearchesReturn ==
    ASSUME ChatTypeOK, SearchesInv, mem.pc # "idle", mem.pc \notin DOMAIN AfterSave,
           mem' = Idle, Recorded' = Recorded, failures' = failures, searches' = searches
    PROVE  SearchesInv'
<1>1. Idle.pc = "idle"
  BY DEF Idle, Request
<1> QED
  BY <1>1, CallTypes DEF SearchesInv

LEMMA SearchesRunRound ==
    ASSUME ChatTypeOK, SearchesInv, RunRound
    PROVE  SearchesInv'
<1>1. mem \in RequestType /\ mem.state \in StateType /\ mem.state.calls \in Nat
  BY CallTypes
<1>2. \A pc, st, n : /\ EndOfRound(pc, st, n).state = st
                     /\ EndOfRound(pc, st, n).pc = pc
  BY <1>1 DEF EndOfRound, RequestType
<1>3. InRound => /\ Gathered(mem) \in StateType
                 /\ Gathered(mem).calls = mem.state.calls + Searched
  BY <1>1, GatheredType, SearchedValue DEF Gathered, StateType
<1>4. /\ mem.pc = "round" /\ mem.pc # "idle" /\ mem.pc \notin DOMAIN AfterSave
      /\ Recorded' = Recorded /\ failures' = failures
      /\ searches' = searches + Searched
  <2>1. mem.pc = "round"
    BY DEF RunRound, Exhausted, NoneKept, Contradiction, Judged, JudgeFault, LoopOver,
           ReachesJudge, InRound
  <2>2. row' = row /\ failures' = failures /\ searches' = searches + Searched
    BY DEF RunRound, Exhausted, NoneKept, Contradiction, Judged, JudgeFault, LoopOver, Step
  <2> QED
    BY <2>1, <2>2 DEF AfterSave, Recorded
<1>5. ASSUME NEW pc \in {"save_round", "save_stop", "save_refuse"}, NEW st, NEW n,
             mem' = EndOfRound(pc, st, n), st.calls = mem.state.calls + Searched
      PROVE  SearchesInv'
  <2>1. /\ mem'.pc \in DOMAIN AfterSave /\ mem'.pc # "idle"
        /\ mem'.state.calls = mem.state.calls + Searched
    BY <1>2, <1>5 DEF AfterSave
  <2> QED
    BY <1>4, <2>1, SearchedValue, SearchesMove
<1>6. CASE Exhausted
  <2> DEFINE after == [mem.state EXCEPT !.reason = "all_sources_exhausted"]
  <2>1. Searched = 0
    BY <1>6, SearchedValue DEF Exhausted, InRound
  <2>2. after.calls = mem.state.calls + Searched
    BY <1>1, <2>1 DEF StateType
  <2>3. mem' = EndOfRound("save_stop", after, mem.noGain)
    BY <1>6 DEF Exhausted, Step
  <2> HIDE DEF after
  <2> QED
    BY <1>5, <2>2, <2>3
<1>7. CASE NoneKept
  <2>1. Refused(Gathered(mem), "no_evidence").calls = mem.state.calls + Searched
    BY <1>3, <1>7 DEF NoneKept, Refused, StateType
  <2> QED
    BY <1>5, <1>7, <2>1 DEF NoneKept, Step
<1>8. CASE Contradiction
  <2>1. Conflicting(Gathered(mem)).calls = mem.state.calls + Searched
    BY <1>3, <1>8 DEF Contradiction, Conflicting, Filtered, StateType
  <2> QED
    BY <1>5, <1>8, <2>1 DEF Contradiction, Step
<1>9. CASE Judged
  <2> DEFINE st == Filtered(Gathered(mem))
             coverage == Verdict(st.final)
             gained == FoundNew(mem) \/ Covered(coverage) \ Covered(mem.state.coverage) # {}
             noGain == IF gained THEN 0 ELSE mem.noGain + 1
             reason == decide(coverage, mem.round, noGain)
             after == [st EXCEPT !.coverage = coverage, !.reason = reason]
             pc == IF reason = "continue" THEN "save_round" ELSE "save_stop"
  <2>1. after.calls = mem.state.calls + Searched
    BY <1>3, <1>9 DEF Judged, ReachesJudge, Filtered, StateType
  <2>2. mem' = EndOfRound(pc, after, noGain)
    BY <1>9 DEF Judged, Step
  <2>3. pc \in {"save_round", "save_stop", "save_refuse"}
    OBVIOUS
  <2> HIDE DEF after, pc, noGain
  <2> QED
    BY <1>5, <2>1, <2>2, <2>3
<1>10. CASE JudgeFault
  <2> DEFINE after == [Refused(Gathered(mem), "judge_fault") EXCEPT !.final = Kept(Gathered(mem))]
  <2>1. after.calls = mem.state.calls + Searched
    BY <1>3, <1>10 DEF JudgeFault, ReachesJudge, Refused, StateType
  <2>2. mem' = EndOfRound("save_refuse", after, mem.noGain)
    BY <1>10 DEF JudgeFault
  <2> HIDE DEF after
  <2> QED
    BY <1>5, <2>1, <2>2
<1>11. CASE LoopOver
  <2>1. Searched = 0
    BY <1>11, CallTypes, ChatAssumption, SearchedValue DEF LoopOver, InRound, RequestType
  <2>2. mem'.pc = "mark_last" /\ mem'.state = mem.state
    BY <1>1, <1>11 DEF LoopOver, Step, RequestType
  <2> QED
    BY <1>1, <1>4, <2>1, <2>2, SearchesMove
<1> QED
  BY <1>6, <1>7, <1>8, <1>9, <1>10, <1>11 DEF RunRound

LEMMA SearchesWrite ==
    ASSUME ChatTypeOK, AheadInv, SearchesInv, Write
    PROVE  SearchesInv'
<1>1. mem \in RequestType /\ mem.state.calls \in Nat /\ row \in RowType /\ Recorded \in Nat
  BY CallTypes
<1>2. NoRow.status = "absent"
  BY DEF NoRow
<1>3. mark_run_checkpoint_done /\ row # NoRow => Recorded' = Recorded
  BY <1>1, <1>2 DEF mark_run_checkpoint_done, RowType, Recorded
<1>4. CASE save_run_checkpoint
  <2>1. /\ mem'.pc \in {"round", "mark_stop", "mark_refuse"} /\ mem'.state = mem.state
        /\ mem.pc # "idle"
    BY <1>1, <1>4 DEF save_run_checkpoint, AfterSave, RequestType
  <2>2. row'.state = mem.state /\ row'.status # "absent"
    BY <1>4 DEF save_run_checkpoint, AheadInv
  <2>3. Recorded' = mem.state.calls
    BY <1>2, <2>2 DEF Recorded, NoRow
  <2>4. searches' = searches /\ failures' = failures
    BY <1>4 DEF save_run_checkpoint
  <2>5. mem'.pc # "idle" /\ mem'.state.calls = mem.state.calls
    BY <2>1
  <2>6. searches <= failures + mem.state.calls
    BY <2>1 DEF SearchesInv
  <2> QED
    BY <1>1, <2>1, <2>3, <2>4, <2>5, <2>6 DEF SearchesInv
<1>5. CASE MarkStop
  <2>1. mem.pc = "mark_stop" /\ mem'.pc = "finalize" /\ mem'.state = mem.state
    BY <1>1, <1>5 DEF MarkStop, RequestType
  <2>2. row # NoRow /\ mem.pc \notin DOMAIN AfterSave
    BY <2>1 DEF AheadInv, AfterSave
  <2>3. Recorded' = Recorded /\ searches' = searches + 0 /\ failures' = failures
    BY <1>3, <1>5, <2>2, CallTypes DEF MarkStop
  <2> QED
    BY <1>1, <2>1, <2>2, <2>3, SearchesMove
<1>6. CASE Finalize \/ MarkLast \/ MarkRefuse
  <2>1. /\ mem.pc \in {"finalize", "mark_last", "mark_refuse"} /\ mem' = Idle
        /\ searches' = searches /\ failures' = failures
        /\ row' = row \/ mark_run_checkpoint_done
    BY <1>6 DEF Finalize, MarkLast, MarkRefuse, Return
  <2>2. row # NoRow /\ mem.pc # "idle" /\ mem.pc \notin DOMAIN AfterSave
    BY <2>1 DEF AheadInv, AfterSave
  <2>3. Recorded' = Recorded
    BY <1>3, <2>1, <2>2 DEF Recorded
  <2> QED
    BY <2>1, <2>2, <2>3, SearchesReturn
<1> QED
  BY <1>4, <1>5, <1>6 DEF Write

\* Resuming makes no search.
LEMMA SearchesRecover ==
    ASSUME ChatTypeOK, AheadInv, SearchesInv, Recover
    PROVE  SearchesInv'
<1>1. /\ mem \in RequestType /\ mem.state \in StateType /\ mem.state.calls \in Nat
      /\ row \in RowType
  BY CallTypes
<1>2. Rebuilt(mem) \in StateType /\ Rebuilt(mem).calls = mem.state.calls
  BY <1>1, RebuiltType DEF Rebuilt, StateType
<1>3. \A st \in StateType : \A reason : Refused(st, reason).calls = st.calls
  BY DEF Refused, StateType
<1>4. /\ mem.pc \in {"reauthorize", "recompute"}
      /\ mem.pc # "idle" /\ mem.pc \notin DOMAIN AfterSave /\ row # NoRow
  <2>1. mem.pc \in {"reauthorize", "recompute"}
    BY DEF Recover, reauthorize_evidence, AllRevoked, Rebuild, RecomputeNoneKept, Recompute,
           RepeatRefusal, RepeatAnswer, Continue, Reauthorized
  <2> QED
    BY <2>1 DEF AfterSave, AheadInv
<1>5. failures' = failures /\ searches' = searches /\ Recorded' = Recorded
  <2>1. Searched = 0 /\ searches + 0 = searches
    BY <1>4, SearchedValue, CallTypes DEF InRound
  <2>2. failures' = failures /\ searches' = searches
    BY <2>1 DEF Recover, reauthorize_evidence, AllRevoked, Rebuild, RecomputeNoneKept,
                Recompute, RepeatRefusal, RepeatAnswer, Continue, Step, Return
  <2>3. row' = row \/ row' = [row EXCEPT !.status = "running"]
    BY DEF Recover, reauthorize_evidence, AllRevoked, Rebuild, RecomputeNoneKept,
           Recompute, RepeatRefusal, RepeatAnswer, Continue, Step
  <2>4. row'.state = row.state /\ (row' = NoRow => row = NoRow)
    BY <1>1, <2>3 DEF RowType, NoRow
  <2> QED
    BY <1>4, <2>2, <2>4 DEF Recorded
<1>6. ASSUME mem'.pc # "idle", mem'.state.calls = mem.state.calls
      PROVE  SearchesInv'
  BY <1>1, <1>4, <1>5, <1>6, CallTypes DEF SearchesInv
<1>7. ASSUME NEW e \in Evidence, reauthorize_evidence(e)
      PROVE  SearchesInv'
  <2>1. mem'.pc = mem.pc /\ mem'.state = mem.state
    BY <1>1, <1>7 DEF RequestType, reauthorize_evidence, Step
  <2> QED
    BY <1>4, <1>6, <2>1
<1>8. CASE AllRevoked
  <2>1. mem'.pc = "save_refuse" /\ mem'.state = Refused(Rebuilt(mem), "all_evidence_revoked")
    BY <1>1, <1>8 DEF AllRevoked, Step, RequestType
  <2> QED
    BY <1>2, <1>3, <1>6, <2>1
<1>9. CASE Rebuild
  <2>1. mem'.pc = "recompute" /\ mem'.state.calls = mem.state.calls
    BY <1>1, <1>2, <1>9 DEF Rebuild, RequestType, Refused, StateType
  <2> QED
    BY <1>6, <2>1
<1>10. CASE RecomputeNoneKept
  <2>1. mem'.pc = "save_refuse" /\ mem'.state = Refused(mem.state, "temporal_no_evidence")
    BY <1>1, <1>10 DEF RecomputeNoneKept, Step, RequestType
  <2> QED
    BY <1>1, <1>3, <1>6, <2>1
<1>11. CASE Recompute
  <2>1. mem'.pc \in {"mark_stop", "round"} /\ mem'.state.calls = mem.state.calls
    BY <1>1, <1>11 DEF Recompute, Step, Filtered, RequestType, StateType
  <2> QED
    BY <1>6, <2>1
<1>12. CASE RepeatRefusal
  BY <1>4, <1>5, <1>12, SearchesReturn DEF RepeatRefusal, Return
<1>13. CASE RepeatAnswer \/ Continue
  <2>1. mem'.pc \in {"mark_stop", "round"} /\ mem'.state = Rebuilt(mem)
    BY <1>1, <1>13 DEF RepeatAnswer, Continue, Step, RequestType
  <2> QED
    BY <1>2, <1>6, <2>1
<1> QED
  BY <1>7, <1>8, <1>9, <1>10, <1>11, <1>12, <1>13 DEF Recover

LEMMA SearchesInit == ChatInit => SearchesInv
  BY DEF ChatInit, SearchesInv, Recorded, Idle, Request

LEMMA SearchesStep ==
    ASSUME ~ReuseRunId
    PROVE  ChatTypeOK /\ AheadInv /\ SearchesInv /\ [ChatNext]_vars => SearchesInv'
<1> SUFFICES ASSUME ChatTypeOK, AheadInv, SearchesInv, [ChatNext]_vars PROVE SearchesInv'
  OBVIOUS
<1>1. CASE Start
  <2>1. /\ mem.pc = "idle" /\ row = NoRow /\ row' = row /\ failures' = failures
        /\ searches' = searches + 1
        /\ mem'.pc = "save_first" /\ mem'.state = InitialState(Retrieve(Question))
    BY <1>1 DEF Start, Begin, Request
  <2>2. mem'.state.calls = 1
    BY <2>1 DEF InitialState
  <2>3. Recorded = 0 /\ Recorded' = 0
    BY <2>1 DEF Recorded
  <2>4. mem'.pc # "idle" /\ mem'.pc \in DOMAIN AfterSave
    BY <2>1 DEF AfterSave
  <2> QED
    BY <2>1, <2>2, <2>3, <2>4, CallTypes DEF SearchesInv
<1>2. CASE Resume
  <2>1. /\ mem.pc = "idle" /\ row # NoRow /\ row' = row /\ failures' = failures
        /\ searches' = searches
        /\ mem'.pc = "reauthorize" /\ mem'.state = row.state
    BY <1>2 DEF Resume, Begin, Request
  <2>2. mem'.state.calls = Recorded /\ Recorded' = Recorded
    BY <2>1 DEF Recorded
  <2>3. mem'.pc # "idle" /\ mem'.pc \notin DOMAIN AfterSave
    BY <2>1 DEF AfterSave
  <2> QED
    BY <2>1, <2>2, <2>3, CallTypes DEF SearchesInv
<1>3. CASE Work
  BY <1>3, SearchesRunRound, SearchesWrite, SearchesRecover DEF Work
<1>4. CASE Fail
  <2>1. /\ mem.pc # "idle" /\ row' = row /\ failures' = failures + 1
        /\ searches' \in {searches, searches + Searched} /\ mem'.pc = "idle"
    BY <1>4 DEF Fail, Idle, Request
  <2>2. Recorded' = Recorded
    BY <2>1 DEF Recorded
  <2>3. mem.pc \in DOMAIN AfterSave => Searched = 0
    BY SearchedValue DEF InRound, AfterSave
  <2>4. searches + Searched <= failures + Recorded + 1
    BY <2>1, <2>3, SearchedValue, CallTypes DEF SearchesInv
  <2> QED
    BY <2>1, <2>2, <2>4, SearchedValue, CallTypes DEF SearchesInv
<1>5. CASE UNCHANGED <<row, mem, failures, searches>>
  BY <1>5 DEF SearchesInv, Recorded
<1> QED
  BY <1>1, <1>2, <1>3, <1>4, <1>5 DEF ChatNext, StartWithoutEvidence, Revoke, Restore, vars

\* When no run id is used again: over all requests of a run together at most
\* max_rounds queries are recorded, each once, and the searches made are no
\* more than those and one for each crash or fault.
THEOREM CallsAreBoundedHolds ==
    ASSUME ~ReuseRunId
    PROVE  ChatSpec => []CallsAreBounded
<1>1. ChatInit => ChatTypeOK /\ AheadInv /\ CallsInv /\ SearchesInv
  BY TypeInit, AheadInit, CallsInit, SearchesInit
<1>2. ChatTypeOK /\ AheadInv /\ CallsInv /\ SearchesInv /\ [ChatNext]_vars
        => ChatTypeOK' /\ AheadInv' /\ CallsInv' /\ SearchesInv'
  BY TypeStep, AheadStep, CallsStep, SearchesStep
<1>3. ChatTypeOK /\ CallsInv /\ SearchesInv => CallsAreBounded
  <2> SUFFICES ASSUME ChatTypeOK, CallsInv, SearchesInv PROVE CallsAreBounded
    OBVIOUS
  <2>1. /\ row.state.calls \in Nat /\ row.round \in 0 .. MaxRounds
        /\ mem.state.calls \in Nat /\ searches \in Nat /\ failures \in Nat
    BY CallTypes DEF RowType, StateType
  <2>2. /\ row.state.calls = Cardinality(row.state.queries)
        /\ row.state.calls <= MaxRounds
    BY <2>1, ChatAssumption DEF CallsInv, Counted
  <2>3. Cardinality(KnownQueries) = IF mem.pc = "idle" THEN Recorded ELSE mem.state.calls
    BY FS_EmptySet DEF KnownQueries, Recorded, CallsInv, Counted
  <2>4. Cardinality(KnownQueries) \in Nat
    BY <2>1, <2>3 DEF Recorded
  <2>5. searches <= failures + Cardinality(KnownQueries)
    BY <2>3 DEF SearchesInv
  <2> QED
    BY <2>1, <2>2, <2>4, <2>5 DEF CallsAreBounded
<1> QED
  BY <1>1, <1>2, <1>3, PTL DEF ChatSpec

-----------------------------------------------------------------------------
(* Every round but the first has a verdict.                                 *)

\* A row of a later round was saved with a verdict, and a request has one
\* unless it is about to compute it again.
JudgedInv ==
    /\ row.round # 0 => row.state.coverage # Unjudged
    /\ mem.round # 0 /\ mem.pc # "recompute" => mem.state.coverage # Unjudged

LEMMA VerdictIsGiven ==
    /\ \A K : Verdict(K) # Unjudged
    /\ \A o \in Overalls \ {"none"} : Forced(o) # Unjudged
<1>1. Unjudged.overall = "none" /\ \A o : Forced(o).overall = o
  BY DEF Unjudged, Forced
<1>2. \A K : Verdict(K).overall # "none"
  BY DEF Verdict, derive_overall_status
<1> QED
  BY <1>1, <1>2

LEMMA RefusedIsJudged ==
    ASSUME NEW st \in StateType, NEW reason
    PROVE  Refused(st, reason).coverage # Unjudged
<1>1. Refused(st, reason).coverage = Forced("insufficient")
  BY DEF Refused, StateType
<1> QED
  BY <1>1, VerdictIsGiven DEF Overalls

\* What a round ends with is judged, whatever it began with.
LEMMA JudgedRunRound ==
    ASSUME ChatTypeOK, JudgedInv, RunRound
    PROVE  JudgedInv'
<1>1. /\ mem \in RequestType /\ mem.state \in StateType
      /\ InRound => Gathered(mem) \in StateType
      /\ row' = row
  <2>1. mem \in RequestType
    BY DEF ChatTypeOK
  <2>2. row' = row
    BY DEF RunRound, Exhausted, NoneKept, Contradiction, Judged, JudgeFault, LoopOver, Step
  <2> QED
    BY <2>1, <2>2, GatheredType DEF RequestType
<1>2. ASSUME NEW pc, NEW st, NEW n, mem' = EndOfRound(pc, st, n), st.coverage # Unjudged
      PROVE  JudgedInv'
  <2>1. mem'.state = st
    BY <1>1, <1>2 DEF EndOfRound, RequestType
  <2> QED
    BY <1>1, <1>2, <2>1 DEF JudgedInv
<1>3. CASE Exhausted
  <2>1. mem.state.coverage # Unjudged
    BY <1>3 DEF Exhausted, JudgedInv
  <2>2. [mem.state EXCEPT !.reason = "all_sources_exhausted"].coverage = mem.state.coverage
    BY <1>1 DEF StateType
  <2> QED
    BY <1>2, <1>3, <2>1, <2>2 DEF Exhausted, Step
<1>4. CASE NoneKept
  BY <1>1, <1>2, <1>4, RefusedIsJudged DEF NoneKept, Step
<1>5. CASE Contradiction
  <2>1. Conflicting(Gathered(mem)).coverage = Forced("contradicted")
    BY <1>1, <1>5 DEF Contradiction, Conflicting, Filtered, StateType
  <2>2. Conflicting(Gathered(mem)).coverage # Unjudged
    BY <2>1, VerdictIsGiven DEF Overalls
  <2> QED
    BY <1>2, <1>5, <2>2 DEF Contradiction, Step
<1>6. CASE Judged
  <2> DEFINE st == Filtered(Gathered(mem))
             coverage == Verdict(st.final)
             gained == FoundNew(mem) \/ Covered(coverage) \ Covered(mem.state.coverage) # {}
             noGain == IF gained THEN 0 ELSE mem.noGain + 1
             reason == decide(coverage, mem.round, noGain)
             last == [st EXCEPT !.coverage = coverage, !.reason = reason]
             pc == IF reason = "continue" THEN "save_round" ELSE "save_stop"
  <2>1. mem' = EndOfRound(pc, last, noGain)
    BY <1>6 DEF Judged, Step
  <2>2. last.coverage = Verdict(st.final)
    BY <1>1, <1>6 DEF Judged, ReachesJudge, Filtered, StateType
  <2> HIDE DEF last, pc, noGain
  <2> QED
    BY <1>2, <2>1, <2>2, VerdictIsGiven
<1>7. CASE JudgeFault
  <2> DEFINE st == Refused(Gathered(mem), "judge_fault")
             last == [st EXCEPT !.final = Kept(Gathered(mem))]
  <2>1. mem' = EndOfRound("save_refuse", last, mem.noGain)
    BY <1>7 DEF JudgeFault
  <2>2. last.coverage = Forced("insufficient")
    BY <1>1, <1>7 DEF JudgeFault, ReachesJudge, Refused, StateType
  <2> HIDE DEF last
  <2> QED
    BY <1>2, <2>1, <2>2, VerdictIsGiven DEF Overalls
<1>8. CASE LoopOver
  <2>1. mem.pc = "round" /\ mem'.round = mem.round /\ mem'.state = mem.state
    BY <1>1, <1>8 DEF LoopOver, Step, RequestType
  <2> QED
    BY <1>1, <2>1 DEF JudgedInv
<1> QED
  BY <1>3, <1>4, <1>5, <1>6, <1>7, <1>8 DEF RunRound

LEMMA JudgedIdle == Idle.round = 0
  BY DEF Idle, Request

LEMMA JudgedWrite ==
    ASSUME ChatTypeOK, JudgedInv, Write
    PROVE  JudgedInv'
<1>1. mem \in RequestType /\ row \in RowType
  BY DEF ChatTypeOK
<1>2. CASE save_run_checkpoint
  <2>1. /\ mem.pc # "recompute"
        /\ row'.round = mem.round /\ row'.state = mem.state
        /\ mem'.round = mem.round /\ mem'.state = mem.state
    BY <1>1, <1>2 DEF save_run_checkpoint, AfterSave, RequestType
  <2> QED
    BY <2>1 DEF JudgedInv
<1>3. CASE MarkStop
  <2>1. /\ mem.pc = "mark_stop" /\ row'.round = row.round /\ row'.state = row.state
        /\ mem'.round = mem.round /\ mem'.state = mem.state
    BY <1>1, <1>3 DEF MarkStop, mark_run_checkpoint_done, RequestType, RowType
  <2> QED
    BY <2>1 DEF JudgedInv
<1>4. CASE Finalize \/ MarkLast \/ MarkRefuse
  <2>1. mem' = Idle /\ row'.round = row.round /\ row'.state = row.state
    BY <1>1, <1>4
    DEF Finalize, MarkLast, MarkRefuse, Return, mark_run_checkpoint_done, RowType
  <2> QED
    BY <2>1, JudgedIdle DEF JudgedInv
<1> QED
  BY <1>2, <1>3, <1>4 DEF Write

LEMMA JudgedRecover ==
    ASSUME ChatTypeOK, JudgedInv, Recover
    PROVE  JudgedInv'
<1>1. mem \in RequestType /\ mem.state \in StateType /\ row \in RowType
  BY DEF ChatTypeOK, RequestType
<1>2. Rebuilt(mem) \in StateType /\ Rebuilt(mem).coverage = mem.state.coverage
  BY <1>1, RebuiltType DEF Rebuilt, StateType
<1>3. ASSUME NEW e \in Evidence, reauthorize_evidence(e) PROVE JudgedInv'
  <2>1. /\ mem.pc = "reauthorize" /\ row' = row
        /\ mem'.round = mem.round /\ mem'.state = mem.state
    BY <1>1, <1>3 DEF reauthorize_evidence, Step, RequestType
  <2> QED
    BY <2>1 DEF JudgedInv
<1>4. CASE AllRevoked \/ RecomputeNoneKept
  <2>1. /\ row' = row
        /\ \/ mem'.state = Refused(Rebuilt(mem), "all_evidence_revoked")
           \/ mem'.state = Refused(mem.state, "temporal_no_evidence")
    BY <1>1, <1>4 DEF AllRevoked, RecomputeNoneKept, Step, RequestType
  <2> QED
    BY <1>1, <1>2, <2>1, RefusedIsJudged DEF JudgedInv
<1>5. CASE Rebuild
  <2>1. mem'.pc = "recompute" /\ row'.round = row.round /\ row'.state = row.state
    BY <1>1, <1>5 DEF Rebuild, RequestType, RowType
  <2> QED
    BY <2>1 DEF JudgedInv
<1>6. CASE Recompute
  <2>1. /\ row' = row
        /\ mem'.state.coverage = IF Filtered(mem.state).contradicted THEN Forced("contradicted")
                                 ELSE Verdict(Filtered(mem.state).final)
    BY <1>1, <1>6 DEF Recompute, Step, Filtered, RequestType, StateType
  <2> QED
    BY <2>1, VerdictIsGiven DEF JudgedInv, Overalls
<1>7. CASE RepeatRefusal
  BY <1>7, JudgedIdle DEF RepeatRefusal, Return, JudgedInv
<1>8. CASE RepeatAnswer \/ Continue
  <2>1. /\ mem.pc = "reauthorize" /\ row' = row
        /\ mem'.round = mem.round /\ mem'.state = Rebuilt(mem)
    BY <1>1, <1>8 DEF RepeatAnswer, Continue, Reauthorized, Step, RequestType
  <2> QED
    BY <1>2, <2>1 DEF JudgedInv
<1> QED
  BY <1>3, <1>4, <1>5, <1>6, <1>7, <1>8 DEF Recover

LEMMA JudgedStep == ChatTypeOK /\ JudgedInv /\ [ChatNext]_vars => JudgedInv'
<1> SUFFICES ASSUME ChatTypeOK, JudgedInv, [ChatNext]_vars PROVE JudgedInv'
  OBVIOUS
<1>1. CASE Start
  <2>1. mem'.round = 0 /\ row' = row
    BY <1>1 DEF Start, Begin, Request
  <2> QED
    BY <2>1 DEF JudgedInv
<1>2. CASE Resume
  <2>1. mem'.round = row.round /\ mem'.state = row.state /\ row' = row
    BY <1>2 DEF Resume, Begin, Request
  <2> QED
    BY <2>1 DEF JudgedInv
<1>3. CASE Work
  BY <1>3, JudgedRunRound, JudgedWrite, JudgedRecover DEF Work
<1>4. CASE Fail
  BY <1>4, JudgedIdle DEF Fail, JudgedInv
<1>5. CASE UNCHANGED <<row, mem>>
  BY <1>5 DEF JudgedInv
<1> QED
  BY <1>1, <1>2, <1>3, <1>4, <1>5 DEF ChatNext, StartWithoutEvidence, Revoke, Restore, vars

\* However a run got to a round that retrieves for gaps, by rounds, crashes or
\* resumption over evidence that was lost, a verdict names them.
THEOREM VerdictBeforeGapsHolds == ChatSpec => []VerdictBeforeGaps
<1>1. ChatInit => ChatTypeOK /\ JudgedInv
  BY TypeInit, JudgedIdle DEF ChatInit, JudgedInv, NoRow
<1>2. ChatTypeOK /\ JudgedInv /\ [ChatNext]_vars => ChatTypeOK' /\ JudgedInv'
  BY TypeStep, JudgedStep
<1>3. JudgedInv => VerdictBeforeGaps
  BY DEF JudgedInv, VerdictBeforeGaps
<1> QED
  BY <1>1, <1>2, <1>3, PTL DEF ChatSpec
=============================================================================
