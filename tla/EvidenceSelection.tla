------------------------- MODULE EvidenceSelection -------------------------
(***************************************************************************)
(* An answer over several corpora (ChatService.answer_multi_corpus): the   *)
(* corpora are chosen by the caller or by the router, each is searched in  *)
(* turn, an empty first choice of the router is widened once, the evidence *)
(* is merged (retrieval/multi_corpus.py), what does not apply at the time  *)
(* asked about is filtered out (evidence/temporal.py), conflicts are       *)
(* resolved (evidence/conflict_resolver.py), and the rest is answered from *)
(* or refused.                                                             *)
(*                                                                         *)
(* Corpora are numbers in the order of their ids.  Evidence is a function  *)
(* from places <<corpus, position>> to snapshots: a snapshot keeps its     *)
(* place when others are dropped, and the order of the places is that of   *)
(* the code's lists.  A snapshot without effective_from has day 0 there,   *)
(* as in the sort of the resolver, and one without effective_to `Forever`. *)
(* `deprecated` is left out: EvidenceBuilder always writes False.          *)
(***************************************************************************)
EXTENDS Naturals, Sequences, FiniteSets, Functions

CONSTANTS
    NumCorpora,     \* the corpora this principal may discover are 1 .. NumCorpora
    TopK,           \* the most hits of one search
    MaxVersion,     \* document versions are numbers in their lexicographic order
    Forever,        \* later than any day
    Snapshots,      \* the hits that may occur
    Results,        \* Results[c]: the lists of authorized hits a search of c may return
    NormalText(_),  \* normalize_text of a snapshot's text
    Scopes,         \* what the query may ask about
    MaxPinned       \* the most corpora a caller names

AUTHORITY_OVERRIDE_MARGIN == 20
MaxAuthority == 100

EffectiveNow == {"current", "unspecified", "as_of"}

Corpora == 1 .. NumCorpora

ASSUME BoundsAssumption ==
    /\ NumCorpora \in Nat /\ TopK \in Nat /\ MaxVersion \in Nat /\ Forever \in Nat
    /\ MaxPinned \in Nat
ASSUME SnapshotsAssumption ==
    \A e \in Snapshots : /\ e.corpus_id \in Corpora
                         /\ e.document_version \in 0 .. MaxVersion
                         /\ e.authority_level \in 0 .. MaxAuthority
                         /\ e.effective_from \in Nat /\ e.effective_to \in 0 .. Forever
                         /\ e.effective_from <= e.effective_to
ASSUME ResultsAssumption ==
    \A c \in Corpora : \A hits \in Results[c] :
        /\ hits \in Seq(Snapshots) /\ Len(hits) <= TopK
        /\ \A i \in DOMAIN hits : hits[i].corpus_id = c
ASSUME ScopesAssumption ==
    \A s \in Scopes : /\ s.first \in Nat /\ s.last \in Nat /\ s.first <= s.last
                      /\ s.mode \in EffectiveNow => s.first = s.last

VARIABLES
    at,             \* where the request is
    scope,          \* the TemporalScope of the query: [mode, first, last]
    corpora,        \* the corpora of the current retrieve(), in order
    fallback,       \* the corpora to widen to, when allow_fallback
    next,           \* position in `corpora` of the search to come
    calls,          \* searches made by the finished retrieve() and this one
    failed,         \* searches of the current retrieve() that failed
    per_corpus,     \* what each corpus returned, the last time that it was something
    faults,         \* the corpora whose backend failed
    evidence,       \* the merged evidence
    report,         \* [status, dropped, unresolved] of the resolver
    envelope        \* what the caller gets, or how the request was raised

vars == <<at, scope, corpora, fallback, next, calls, failed, per_corpus, faults, evidence,
          report, envelope>>

-----------------------------------------------------------------------------
(* The router (corpus/router.py).                                          *)

Confidence(relevance, dominant) ==
    CASE relevance = "none" -> "low"
      [] relevance = "strong" /\ dominant -> "high"
      [] OTHER -> "medium"

PolicyCount(confidence) == CASE confidence = "high" -> 1 [] confidence = "medium" -> 2
                             [] confidence = "low" -> 3

Least(a, b) == IF a <= b THEN a ELSE b

\* The corpora that are searched; limit 0 is None.
Selected(ranked, confidence, limit) ==
    LET take == IF limit = 0 THEN PolicyCount(confidence)
                             ELSE Least(PolicyCount(confidence), limit)
    IN SubSeq(ranked, 1, Least(take, Len(ranked)))

\* Mutant: the ranking is read again from its first place.
Bug_Fallback_from_top(ranked, confidence, limit) ==
    IF confidence = "high" /\ limit = 0 THEN SubSeq(ranked, 1, Least(2, Len(ranked))) ELSE <<>>

\* The next corpus of a ranking that took one, when the caller set no limit.
Fallback(ranked, confidence, limit) ==
    IF confidence = "high" /\ limit = 0 THEN SubSeq(ranked, 2, Least(2, Len(ranked))) ELSE <<>>

-----------------------------------------------------------------------------
(* Searching and merging.                                                  *)

\* retrieve_evidence: of the hits with one normalized text the best scored is
\* kept, which is the first: a search returns them by descending score.
Deduplicated(hits) ==
    [i \in {j \in DOMAIN hits :
               \A k \in 1 .. j - 1 : NormalText(hits[k]) # NormalText(hits[j])} |-> hits[i]]

Before(p, q) == p[1] < q[1] \/ (p[1] = q[1] /\ p[2] < q[2])

Places(found) == UNION {{c} \X DOMAIN found[c] : c \in Corpora}

\* The evidence of all corpora, in ascending order of the corpora.
Collected(found) == [p \in Places(found) |-> found[p[1]][p[2]]]

SameContent(a, b) ==
    /\ a.text = b.text
    /\ a.document_id = b.document_id
    /\ a.document_version = b.document_version

Copies(all, p) == {q \in DOMAIN all : SameContent(all[q], all[p])}

\* The highest authority among the copies, the first of them on a tie.
Survivor(all, p) ==
    all[CHOOSE q \in Copies(all, p) :
           \A r \in Copies(all, p) \ {q} :
               \/ all[q].authority_level > all[r].authority_level
               \/ /\ all[q].authority_level = all[r].authority_level
                  /\ Before(q, r)]

\* The survivor stands where the first of its copies was.
merge_evidence(all) ==
    [p \in {q \in DOMAIN all : \A r \in Copies(all, q) : ~Before(r, q)} |-> Survivor(all, p)]

\* Every corpus with a snapshot contributed: ids are fresh, so none is a repeat.
corpora_used == {c \in Corpora : DOMAIN per_corpus[c] # {}}

-----------------------------------------------------------------------------
(* The temporal filter.                                                    *)

\* For the modes current, unspecified and as_of, first = last is the day meant.
Applies(e, s) == e.effective_from <= s.last /\ e.effective_to >= s.first

filter_by_temporal_scope(evs, s) == Restrict(evs, {p \in DOMAIN evs : Applies(evs[p], s)})

-----------------------------------------------------------------------------
(* The conflict resolver.                                                  *)

Group(evs, p) == {q \in DOMAIN evs : evs[q].document_id = evs[p].document_id}

\* p belongs to a document of which there are several versions.
Divergent(evs, p) ==
    \E q \in Group(evs, p) : evs[q].document_version # evs[p].document_version

Temporary(e) == e.effective_to # Forever

\* A temporary version overlaps a permanent one now: nothing is superseded.
Rollback(evs, p, s) ==
    /\ Divergent(evs, p)
    /\ s.mode \in EffectiveNow
    /\ \E q, r \in Group(evs, p) : Temporary(evs[q]) /\ ~Temporary(evs[r])

\* The order in which a version group is sorted.
Older(evs, p, q) ==
    \/ evs[p].effective_from < evs[q].effective_from
    \/ /\ evs[p].effective_from = evs[q].effective_from
       /\ \/ evs[p].document_version < evs[q].document_version
          \/ evs[p].document_version = evs[q].document_version /\ Before(p, q)

\* All but the last of the group are dropped.
Superseded(evs, s) ==
    {p \in DOMAIN evs : /\ Divergent(evs, p)
                        /\ ~Rollback(evs, p, s)
                        /\ \E q \in Group(evs, p) : Older(evs, p, q)}

\* Two structured assertions of different values under one key.
Clash(a, b) ==
    /\ a.assertion.is_structured /\ b.assertion.is_structured
    /\ a.assertion.key = b.assertion.key
    /\ a.assertion.value # b.assertion.value
    /\ a.document_id = b.document_id => a.document_version = b.document_version

\* Two assertions about different things: a finding, but nothing is dropped.
Complementary(a, b) ==
    /\ a.assertion.is_structured /\ b.assertion.is_structured
    /\ a.assertion.key # b.assertion.key
    /\ a.document_id = b.document_id => a.document_version = b.document_version

\* Mutant: authority decides between a temporary and a permanent statement too.
Bug_Overrides_any_window(a, b, s) ==
    /\ Clash(a, b)
    /\ a.document_id # b.document_id
    /\ a.authority_level >= b.authority_level + AUTHORITY_OVERRIDE_MARGIN

\* a is kept and b dropped: another document with a clear margin of authority.
Overrides(a, b, s) ==
    /\ Clash(a, b)
    /\ Temporary(a) = Temporary(b) \/ s.mode \notin EffectiveNow
    /\ a.document_id # b.document_id
    /\ a.authority_level >= b.authority_level + AUTHORITY_OVERRIDE_MARGIN

\* Mutant: the higher authority decides, whatever the margin.
Bug_Undecided_equal_only(a, b, s) == Clash(a, b) /\ a.authority_level = b.authority_level

Undecided(a, b, s) == Clash(a, b) /\ ~Overrides(a, b, s) /\ ~Overrides(b, a, s)

\* The pairs are formed once: a snapshot dropped by one still takes part in others.
resolve(evs, s) ==
    LET survivors == DOMAIN evs \ Superseded(evs, s)
        rollbacks == {p \in DOMAIN evs : Rollback(evs, p, s)}
        overridden == {p \in survivors : \E q \in survivors : Overrides(evs[q], evs[p], s)}
        undecided == {p \in survivors : \E q \in survivors : Undecided(evs[p], evs[q], s)}
        noted == \/ \E p \in DOMAIN evs : Divergent(evs, p)
                 \/ overridden # {}
                 \/ \E p, q \in survivors : Complementary(evs[p], evs[q])
    IN [status |-> IF rollbacks \cup undecided # {} THEN "contradicted"
                   ELSE IF noted THEN "resolved" ELSE "none",
        dropped |-> Superseded(evs, s) \cup overridden,
        unresolved |-> rollbacks \cup undecided]

-----------------------------------------------------------------------------
(* The request.                                                            *)

NoEvidence == [p \in {} |-> {}]
NoReport == [status |-> "none", dropped |-> {}, unresolved |-> {}]
Nothing == [c \in Corpora |-> NoEvidence]

Open == [kind |-> "open", tool_calls |-> 0, limitations |-> {}, completeness |-> "insufficient"]
Raised(kind) == [Open EXCEPT !.kind = kind]
Refusal(n) == [Open EXCEPT !.kind = "refusal", !.tool_calls = n]

Init ==
    /\ at = "start"
    /\ scope \in Scopes
    /\ corpora = <<>> /\ fallback = <<>>
    /\ next = 1 /\ calls = 0 /\ failed = 0
    /\ per_corpus = Nothing
    /\ faults = {}
    /\ evidence = NoEvidence
    /\ report = NoReport
    /\ envelope = Open

End(result) == at' = "done" /\ envelope' = result

\* Nothing to search is a refusal without a call.
Begin(selected, widen) ==
    /\ at = "start"
    /\ corpora' = selected /\ fallback' = widen
    /\ IF selected = <<>> /\ widen = <<>>
          THEN End(Refusal(0))
          ELSE at' = "search" /\ UNCHANGED envelope
    /\ UNCHANGED <<scope, next, calls, failed, per_corpus, faults, evidence, report>>

\* The caller names the corpora, one of them more than once if it likes.
Pin == \E ids \in UNION {[1 .. k -> Corpora] : k \in 0 .. MaxPinned} : Begin(ids, <<>>)

\* A corpus the principal may not discover, or none of that name.
PinUnknown ==
    /\ at = "start"
    /\ End(Raised("denied"))
    /\ UNCHANGED <<scope, corpora, fallback, next, calls, failed, per_corpus, faults, evidence, report>>

Rankings == {s \in [1 .. NumCorpora -> Corpora] : IsInjective(s)}

\* The router ranks all discoverable corpora; alone and strong is dominant.
Route ==
    \E ranked \in Rankings,
       relevance \in {"none", "some", "strong"}, dominant \in BOOLEAN, limit \in 0 .. 2 :
        /\ (relevance = "strong" /\ Len(ranked) = 1) => dominant
        /\ LET confidence == Confidence(relevance, dominant)
           IN Begin(Selected(ranked, confidence, limit), Fallback(ranked, confidence, limit))

Searching == at = "search" /\ next <= Len(corpora)

\* A search of the next corpus returns its hits, which replace what an earlier
\* search of that corpus returned; none replace nothing.
Search(hits) ==
    /\ Searching
    /\ per_corpus' = IF hits = <<>> THEN per_corpus
                     ELSE [per_corpus EXCEPT ![corpora[next]] = Deduplicated(hits)]
    /\ next' = next + 1 /\ calls' = calls + 1
    /\ UNCHANGED <<at, scope, corpora, fallback, failed, faults, evidence, report, envelope>>

\* A backend fault is recorded and the next corpus is searched.
SearchFaults ==
    /\ Searching
    /\ faults' = faults \cup {corpora[next]} /\ failed' = failed + 1
    /\ next' = next + 1 /\ calls' = calls + 1
    /\ UNCHANGED <<at, scope, corpora, fallback, per_corpus, evidence, report, envelope>>

\* Any other error, among them a snapshot bound to another tenant or corpus,
\* is raised at once.
SearchDenied ==
    /\ Searching
    /\ calls' = calls + 1
    /\ End(Raised("denied"))
    /\ UNCHANGED <<scope, corpora, fallback, next, failed, per_corpus, faults, evidence,
                   report>>

\* retrieve() raises when every one of its searches failed.
TotalFault == failed # 0 /\ failed = Len(corpora)

Merged == merge_evidence(Collected(per_corpus))

\* A fallback is one corpus at most: if it is new, it is all that is searched.
Widens == DOMAIN Merged = {} /\ Range(fallback) \ Range(corpora) # {}

\* Mutant: only the failure of all corpora is an outage.
Bug_Outage_only_total == DOMAIN Merged = {} /\ TotalFault

\* A corpus failed and the others returned nothing.
Outage == DOMAIN Merged = {} /\ faults # {}

\* The end of retrieve() and the rest of _retrieve_or_expand: all failed;
\* nothing found and the search is widened; nothing found after a fault.
Collect ==
    /\ at = "search" /\ next = Len(corpora) + 1
    /\ IF TotalFault THEN
            End(Raised("backend")) /\ UNCHANGED <<corpora, fallback, next, failed, evidence>>
       ELSE IF Widens THEN
            /\ corpora' = fallback /\ fallback' = <<>> /\ next' = 1 /\ failed' = 0
            /\ UNCHANGED <<at, evidence, envelope>>
       ELSE IF Outage THEN
            End(Raised("backend")) /\ UNCHANGED <<corpora, fallback, next, failed, evidence>>
       ELSE
            /\ at' = "resolve" /\ evidence' = Merged
            /\ UNCHANGED <<corpora, fallback, next, failed, envelope>>
    /\ UNCHANGED <<scope, calls, per_corpus, faults, report>>

InScope == filter_by_temporal_scope(evidence, scope)

final_evidence == Restrict(InScope, DOMAIN InScope \ report.dropped)

\* _run_conflict_stage; without evidence the model is not called.
Resolve ==
    /\ at = "resolve"
    /\ report' = resolve(InScope, scope)
    /\ IF DOMAIN InScope \subseteq report'.dropped
          THEN End(Refusal(calls))
          ELSE at' = "synthesize" /\ UNCHANGED envelope
    /\ UNCHANGED <<scope, corpora, fallback, next, calls, failed, per_corpus, faults, evidence>>

\* The model's claims are all kept or some are removed; a contradiction is
\* rendered without them, and a fault forbids "complete".
Synthesize(supported) ==
    /\ at = "synthesize"
    /\ End([kind |-> "answer", tool_calls |-> calls, limitations |-> faults,
            completeness |-> IF report.status = "contradicted" THEN "conflicted"
                             ELSE IF supported /\ faults = {} THEN "complete"
                             ELSE "partial"])
    /\ UNCHANGED <<scope, corpora, fallback, next, calls, failed, per_corpus, faults, evidence,
                   report>>

ModelFails ==
    /\ at = "synthesize"
    /\ End(Raised("model"))
    /\ UNCHANGED <<scope, corpora, fallback, next, calls, failed, per_corpus, faults, evidence,
                   report>>

Next ==
    \/ Pin \/ PinUnknown \/ Route
    \/ Searching /\ \E hits \in Results[corpora[next]] : Search(hits)
    \/ SearchFaults \/ SearchDenied
    \/ Collect
    \/ Resolve
    \/ \E supported \in BOOLEAN : Synthesize(supported)
    \/ ModelFails

Spec == Init /\ [][Next]_vars

-----------------------------------------------------------------------------
(* Properties.                                                             *)

\* Every variable has its type; a search is widened only to a corpus that was
\* not searched, what is merged comes from corpora that returned something, and
\* a report is about places of the evidence (route, _retrieve_or_expand).
SelectionTypeOK ==
    /\ at \in {"start", "search", "resolve", "synthesize", "done"}
    /\ scope \in Scopes
    /\ corpora \in Seq(Corpora) /\ fallback \in Seq(Corpora)
    /\ Range(corpora) \cap Range(fallback) = {}
    /\ next \in 1 .. Len(corpora) + 1
    /\ calls \in Nat /\ failed \in 0 .. next - 1
    /\ DOMAIN per_corpus = Corpora
    /\ \A c \in Corpora : /\ DOMAIN per_corpus[c] \subseteq 1 .. TopK
                          /\ \A i \in DOMAIN per_corpus[c] :
                                /\ per_corpus[c][i] \in Snapshots
                                /\ per_corpus[c][i].corpus_id = c
    /\ faults \subseteq Corpora
    /\ DOMAIN evidence \subseteq Corpora \X (1 .. TopK)
    /\ \A p \in DOMAIN evidence : /\ evidence[p] \in Snapshots
                                  /\ evidence[p].corpus_id \in corpora_used
    /\ report.status \in {"none", "resolved", "contradicted"}
    /\ report.dropped \cup report.unresolved \subseteq DOMAIN evidence
    /\ envelope.kind \in {"open", "answer", "refusal", "denied", "backend", "model"}
    /\ envelope.tool_calls \in Nat /\ envelope.limitations \subseteq Corpora
    /\ envelope.completeness \in {"insufficient", "partial", "complete", "conflicted"}

\* A day of the time asked about on which the snapshot is in force.
InForce(e, s) == \E day \in s.first .. s.last : e.effective_from <= day /\ day <= e.effective_to

Retrieved == Collected(per_corpus)

\* The copies of p that no copy has more authority than: merging keeps one.
Strongest(p) ==
    {q \in Copies(Retrieved, p) : \A r \in Copies(Retrieved, p) :
        Retrieved[q].authority_level >= Retrieved[r].authority_level}

\* A refusal says that there is nothing to answer from: either nothing was
\* retrieved, then no corpus failed and the search had been widened if it could
\* be, or of each snapshot a strongest copy is out of force.  The resolver never
\* causes a refusal, and a snapshot in force is lost only where merging kept a
\* copy of it that is not (answer_multi_corpus, merge_evidence).
RefusalIsAbsence ==
    envelope.kind = "refusal" =>
        /\ DOMAIN Retrieved = {} => faults = {} /\ fallback = <<>>
        /\ \A p \in DOMAIN Retrieved : \E q \in Strongest(p) : ~InForce(Retrieved[q], scope)

\* Why the documents allow a snapshot in force to be left out for another one
\* in force.  A newer version of its document was found, and neither is
\* temporary (docs/issue-e021-contract.md:301-306, 316-322).
Outdated(p) ==
    \E q \in Group(Retrieved, p) :
        /\ InForce(Retrieved[q], scope)
        /\ ~Temporary(Retrieved[p]) /\ ~Temporary(Retrieved[q])
        /\ Retrieved[q].document_version # Retrieved[p].document_version
        /\ \/ Retrieved[q].effective_from > Retrieved[p].effective_from
           \/ /\ Retrieved[q].effective_from = Retrieved[p].effective_from
              /\ Retrieved[q].document_version > Retrieved[p].document_version

\* Another document asserts something else under its key with a clear margin of
\* authority ...
Outranks(q, p) ==
    /\ InForce(Retrieved[q], scope)
    /\ Retrieved[q].document_id # Retrieved[p].document_id
    /\ Retrieved[q].authority_level >= Retrieved[p].authority_level + AUTHORITY_OVERRIDE_MARGIN
    /\ Retrieved[q].assertion.is_structured /\ Retrieved[p].assertion.is_structured
    /\ Retrieved[q].assertion.key = Retrieved[p].assertion.key
    /\ Retrieved[q].assertion.value # Retrieved[p].assertion.value

Overlap(a, b) == a.effective_from <= b.effective_to /\ b.effective_from <= a.effective_to

\* ... for a time that both speak of, and at one day no permanent statement
\* decides over a temporary one (docs/issue-e021-contract.md:290-292, 319-322).
Outranked(p) ==
    \E q \in DOMAIN Retrieved :
        /\ Outranks(q, p)
        /\ Overlap(Retrieved[q], Retrieved[p])
        /\ scope.mode \in EffectiveNow => Temporary(Retrieved[q]) = Temporary(Retrieved[p])

\* Where the code leaves out what the documents keep.  Another snapshot of the
\* same version, of several versions in force, is kept alone ...
LosesToSibling(p) ==
    /\ \E r \in Group(Retrieved, p) :
          /\ InForce(Retrieved[r], scope)
          /\ Retrieved[r].document_version # Retrieved[p].document_version
    /\ \E q \in Group(Retrieved, p) \ {p} :
          /\ InForce(Retrieved[q], scope)
          /\ Retrieved[q].document_version = Retrieved[p].document_version
          /\ Retrieved[q].effective_from >= Retrieved[p].effective_from

\* ... a temporary version takes part in superseding, if all are temporary or a
\* range is asked about ...
LosesAsTemporary(p) ==
    \E q \in Group(Retrieved, p) :
        /\ InForce(Retrieved[q], scope)
        /\ Retrieved[q].document_version # Retrieved[p].document_version
        /\ Retrieved[q].effective_from >= Retrieved[p].effective_from
        /\ Temporary(Retrieved[p]) \/ Temporary(Retrieved[q])
        /\ scope.mode \in EffectiveNow => Temporary(Retrieved[p]) /\ Temporary(Retrieved[q])

\* ... and in a range authority decides between statements of different times.
LosesElsewhen(p) ==
    /\ scope.mode \notin EffectiveNow
    /\ \E q \in DOMAIN Retrieved : Outranks(q, p) /\ ~Overlap(Retrieved[q], Retrieved[p])

Explained(p) ==
    \/ \E q \in DOMAIN final_evidence : final_evidence[q] = Retrieved[p]
    \/ ~InForce(Retrieved[p], scope)
    \/ Outdated(p) \/ Outranked(p)
    \/ LosesToSibling(p) \/ LosesAsTemporary(p) \/ LosesElsewhen(p)

\* Of each snapshot that was retrieved a strongest copy is in the answer, or is
\* left out for a reason that the documents give, or in one of the three ways in
\* which the code is known to leave out more: merging, filtering and the two
\* phases of the resolver together lose nothing else.
EveryDropIsExplained ==
    envelope.kind = "answer" =>
        \A p \in DOMAIN Retrieved : \E q \in Strongest(p) : Explained(q)

\* An answer that asserts one conclusion never rests on two snapshots that
\* assert different values under one key.
AnswerIsConsistent ==
    envelope.kind = "answer" /\ envelope.completeness # "conflicted" =>
        \A p, q \in DOMAIN final_evidence :
            LET a == final_evidence[p].assertion
                b == final_evidence[q].assertion
            IN a.is_structured /\ b.is_structured /\ a.key = b.key => a.value = b.value

\* docs/issue-e016-contract.md:241: if there is evidence and a corpus failed,
\* the envelope carries a limitation.  It does not when the temporal filter
\* drops all of that evidence: the refusal is built without limitations.
OutageIsDisclosed ==
    envelope.kind \in {"answer", "refusal"} /\ faults # {} => envelope.limitations # {}
=============================================================================
