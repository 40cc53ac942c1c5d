------------------------ MODULE EvidenceSelectionProofs ------------------------
(***************************************************************************)
(* Proofs about the answer over several corpora, for any corpora, any      *)
(* results of their searches and any times asked about.                    *)
(***************************************************************************)
EXTENDS EvidenceSelection, FiniteSetTheorems, SequenceTheorems, TLAPS

-----------------------------------------------------------------------------
(* Greatest elements.                                                      *)

\* A measure with a bound has a greatest value.
LEMMA Highest ==
    ASSUME NEW S, S # {}, NEW M \in Nat, NEW f, \A x \in S : f[x] \in 0 .. M
    PROVE  \E x \in S : \A y \in S : f[y] <= f[x]
<1> DEFINE T == {M - f[x] : x \in S}
           R == OpToRel(<, Nat)
<1>1. T \subseteq Nat /\ T # {}
  OBVIOUS
<1>2. IsWellFoundedOn(R, Nat)
  BY NatLessThanWellFounded
<1>3. \A n, m \in Nat : <<n, m>> \in R <=> n < m
  BY DEF OpToRel
<1> HIDE DEF T, R
<1>4. \E t \in T : \A u \in T : ~(<<u, t>> \in R)
  BY <1>1, <1>2, WFMin, Zenon
<1>5. PICK t \in T : \A u \in T : ~(u < t)
  BY <1>1, <1>3, <1>4
<1>6. PICK x \in S : t = M - f[x]
  BY DEF T
<1>7. \A y \in S : M - f[y] \in T
  BY DEF T
<1>8. \A y \in S : f[y] <= f[x]
  BY <1>5, <1>6, <1>7
<1> QED BY <1>8

Place == Corpora \X (1 .. TopK)

LEMMA PlaceParts ==
    ASSUME NEW p \in Place
    PROVE  p = <<p[1], p[2]>> /\ p[1] \in 1 .. NumCorpora /\ p[2] \in 1 .. TopK
BY DEF Place, Corpora

\* The places are ordered.
LEMMA BeforeOrder ==
    ASSUME NEW p \in Place, NEW q \in Place
    PROVE  /\ ~Before(p, p)
           /\ ~(Before(p, q) /\ Before(q, p))
           /\ p # q => Before(p, q) \/ Before(q, p)
BY PlaceParts, BoundsAssumption DEF Before

\* Of several places one is the first.
LEMMA FirstPlace ==
    ASSUME NEW S, S \subseteq Place, S # {}
    PROVE  \E q \in S : \A r \in S \ {q} : Before(q, r)
<1> DEFINE c == [p \in S |-> NumCorpora - p[1]]
           k == [p \in S |-> TopK - p[2]]
<1>1. \A p \in S : c[p] \in 0 .. NumCorpora /\ k[p] \in 0 .. TopK
  BY PlaceParts, BoundsAssumption
<1>2. PICK a \in S : \A y \in S : c[y] <= c[a]
  <2> HIDE DEF c
  <2> QED BY <1>1, Highest, BoundsAssumption
<1> DEFINE U == {p \in S : p[1] = a[1]}
<1>3. PICK q \in U : \A y \in U : k[y] <= k[q]
  <2>1. U # {} /\ \A p \in U : k[p] \in 0 .. TopK
    BY <1>1
  <2> HIDE DEF k, U
  <2> QED BY <2>1, Highest, BoundsAssumption
<1>4. ASSUME NEW r \in S \ {q} PROVE Before(q, r)
  <2>1. /\ q \in Place /\ r \in Place /\ a \in Place /\ q[1] = a[1]
    OBVIOUS
  <2>2. a[1] <= r[1]
    BY <1>2, <2>1, PlaceParts, BoundsAssumption
  <2>3. CASE a[1] = r[1]
    <3>1. q[2] <= r[2]
      BY <1>3, <2>1, <2>3, PlaceParts, BoundsAssumption
    <3> QED BY <2>1, <2>3, <3>1, PlaceParts, BoundsAssumption DEF Before
  <2>4. CASE a[1] # r[1]
    BY <2>1, <2>2, <2>4, PlaceParts, BoundsAssumption DEF Before
  <2> QED BY <2>3, <2>4
<1> QED BY <1>4

\* And one is the last.
LEMMA LastPlace ==
    ASSUME NEW S, S \subseteq Place, S # {}
    PROVE  \E q \in S : \A r \in S \ {q} : Before(r, q)
<1> DEFINE c == [p \in S |-> p[1]]
           k == [p \in S |-> p[2]]
<1>1. \A p \in S : c[p] \in 0 .. NumCorpora /\ k[p] \in 0 .. TopK
  BY PlaceParts, BoundsAssumption
<1>2. PICK a \in S : \A y \in S : c[y] <= c[a]
  <2> HIDE DEF c
  <2> QED BY <1>1, Highest, BoundsAssumption
<1> DEFINE U == {p \in S : p[1] = a[1]}
<1>3. PICK q \in U : \A y \in U : k[y] <= k[q]
  <2>1. U # {} /\ \A p \in U : k[p] \in 0 .. TopK
    BY <1>1
  <2> HIDE DEF k, U
  <2> QED BY <2>1, Highest, BoundsAssumption
<1>4. ASSUME NEW r \in S \ {q} PROVE Before(r, q)
  <2>1. /\ q \in Place /\ r \in Place /\ a \in Place /\ q[1] = a[1]
    OBVIOUS
  <2>2. r[1] <= a[1]
    BY <1>2, <2>1, PlaceParts, BoundsAssumption
  <2>3. CASE a[1] = r[1]
    <3>1. r[2] <= q[2]
      BY <1>3, <2>1, <2>3, PlaceParts, BoundsAssumption
    <3> QED BY <2>1, <2>3, <3>1, PlaceParts, BoundsAssumption DEF Before
  <2>4. CASE a[1] # r[1]
    BY <2>1, <2>2, <2>4, PlaceParts, BoundsAssumption DEF Before
  <2> QED BY <2>3, <2>4
<1> QED BY <1>4
-----------------------------------------------------------------------------
(* Evidence, merging and filtering.                                        *)

\* A map from places to snapshots.
Snapshot(evs) ==
    /\ DOMAIN evs \subseteq Place
    /\ \A p \in DOMAIN evs : evs[p] \in Snapshots

LEMMA Fields ==
    ASSUME NEW e \in Snapshots
    PROVE  /\ e.corpus_id \in Corpora
           /\ e.document_version \in 0 .. MaxVersion /\ e.document_version \in Nat
           /\ e.authority_level \in 0 .. MaxAuthority /\ e.authority_level \in Nat
           /\ e.effective_from \in 0 .. Forever /\ e.effective_from \in Nat
           /\ e.effective_to \in Nat
BY SnapshotsAssumption, BoundsAssumption DEF MaxAuthority

\* What the searches of the corpora have returned.
Returned(found) ==
    /\ DOMAIN found = Corpora
    /\ \A c \in Corpora : /\ DOMAIN found[c] \subseteq 1 .. TopK
                          /\ \A i \in DOMAIN found[c] :
                                /\ found[c][i] \in Snapshots
                                /\ found[c][i].corpus_id = c

LEMMA CollectedType ==
    ASSUME NEW found, Returned(found)
    PROVE  /\ Snapshot(Collected(found))
           /\ \A p \in DOMAIN Collected(found) :
                 /\ p[1] \in Corpora /\ p[2] \in DOMAIN found[p[1]]
                 /\ Collected(found)[p].corpus_id = p[1]
           /\ \A c \in Corpora : \A i \in DOMAIN found[c] : <<c, i>> \in DOMAIN Collected(found)
<1>1. \A p \in Places(found) : /\ p[1] \in Corpora /\ p[2] \in DOMAIN found[p[1]]
                               /\ p \in Place
  BY DEF Places, Place, Returned
<1>2. \A c \in Corpora : \A i \in DOMAIN found[c] : <<c, i>> \in Places(found)
  BY DEF Places
<1>3. DOMAIN Collected(found) = Places(found)
  BY DEF Collected
<1>4. \A p \in Places(found) : Collected(found)[p] = found[p[1]][p[2]]
  BY DEF Collected
<1> QED BY <1>1, <1>2, <1>3, <1>4 DEF Snapshot, Returned

\* The copies of a snapshot: which of them survives, and where it stands.
LEMMA SurvivorIsCopy ==
    ASSUME NEW all, Snapshot(all), NEW p \in DOMAIN all
    PROVE  \E q \in Copies(all, p) :
              /\ Survivor(all, p) = all[q]
              /\ \A r \in Copies(all, p) : all[r].authority_level <= all[q].authority_level
<1> DEFINE C == Copies(all, p)
           level == [q \in C |-> all[q].authority_level]
           Chosen(q) == \A r \in C \ {q} :
                           \/ all[q].authority_level > all[r].authority_level
                           \/ /\ all[q].authority_level = all[r].authority_level
                              /\ Before(q, r)
<1>1. C \subseteq DOMAIN all /\ p \in C
  BY DEF Copies, SameContent
<1>2. \A q \in C : all[q].authority_level \in 0 .. MaxAuthority
  BY <1>1, Fields DEF Snapshot
<1>3. \A q \in C : level[q] \in 0 .. MaxAuthority
  BY <1>2
<1>4. PICK a \in C : \A y \in C : level[y] <= level[a]
  <2> HIDE DEF level, C
  <2> QED BY <1>1, <1>3, Highest DEF MaxAuthority
<1> DEFINE U == {q \in C : all[q].authority_level = all[a].authority_level}
<1>5. U \subseteq Place /\ U # {}
  BY <1>1 DEF Snapshot
<1>6. PICK q \in U : \A r \in U \ {q} : Before(q, r)
  <2> HIDE DEF U
  <2> QED BY <1>5, FirstPlace
<1>7. Chosen(q)
  <2>1. ASSUME NEW r \in C \ {q}
        PROVE  \/ all[q].authority_level > all[r].authority_level
               \/ /\ all[q].authority_level = all[r].authority_level
                  /\ Before(q, r)
    <3>1. all[q].authority_level = all[a].authority_level
      OBVIOUS
    <3>2. all[r].authority_level <= all[q].authority_level
      BY <1>4, <3>1
    <3>3. CASE r \in U
      BY <1>6, <3>1, <3>3
    <3>4. CASE r \notin U
      <4>1. all[r].authority_level # all[q].authority_level
        BY <3>1, <3>4
      <4>2. all[r].authority_level \in Nat /\ all[q].authority_level \in Nat
        BY <1>2 DEF MaxAuthority
      <4> QED BY <3>2, <4>1, <4>2
    <3> QED BY <3>3, <3>4
  <2> QED BY <2>1
<1>8. \E x \in C : Chosen(x)
  BY <1>6, <1>7
<1> DEFINE x == CHOOSE x \in C : Chosen(x)
<1>9. x \in C /\ Chosen(x)
  <2> HIDE DEF C, Chosen
  <2> QED BY <1>8
<1>10. Survivor(all, p) = all[x]
  BY DEF Survivor
<1> HIDE DEF x
<1>11. ASSUME NEW r \in C PROVE all[r].authority_level <= all[x].authority_level
  <2>1. all[r].authority_level \in Nat /\ all[x].authority_level \in Nat
    BY <1>2, <1>9 DEF MaxAuthority
  <2>2. CASE r = x
    BY <2>1, <2>2
  <2>3. CASE r # x
    BY <1>9, <2>1, <2>3
  <2> QED BY <2>2, <2>3
<1> QED BY <1>9, <1>10, <1>11

LEMMA SameContentIsEquivalence ==
    ASSUME NEW all, NEW p \in DOMAIN all, NEW q \in Copies(all, p)
    PROVE  q \in DOMAIN all /\ Copies(all, q) = Copies(all, p)
BY DEF Copies, SameContent

\* Merging: each snapshot that is left is one of the retrieved, and each of the
\* retrieved is represented by a copy, of which no other has more authority.
LEMMA MergeSound ==
    ASSUME NEW all, Snapshot(all), NEW r \in DOMAIN merge_evidence(all)
    PROVE  /\ r \in DOMAIN all
           /\ \A s \in Copies(all, r) : ~Before(s, r)
           /\ \E q \in Copies(all, r) : merge_evidence(all)[r] = all[q]
           /\ merge_evidence(all)[r] = Survivor(all, r)
<1>1. r \in DOMAIN all /\ \A s \in Copies(all, r) : ~Before(s, r)
  BY DEF merge_evidence
<1>2. merge_evidence(all)[r] = Survivor(all, r)
  BY DEF merge_evidence
<1> QED BY <1>1, <1>2, SurvivorIsCopy

LEMMA MergeComplete ==
    ASSUME NEW all, Snapshot(all), NEW p \in DOMAIN all
    PROVE  \E r \in DOMAIN merge_evidence(all), q \in Copies(all, p) :
              /\ r \in Copies(all, p)
              /\ merge_evidence(all)[r] = all[q]
              /\ \A s \in Copies(all, p) : all[s].authority_level <= all[q].authority_level
<1>1. Copies(all, p) \subseteq Place /\ p \in Copies(all, p)
  BY DEF Copies, SameContent, Snapshot
<1>2. PICK r \in Copies(all, p) : \A s \in Copies(all, p) \ {r} : Before(r, s)
  BY <1>1, FirstPlace
<1>3. r \in DOMAIN all /\ Copies(all, r) = Copies(all, p)
  BY SameContentIsEquivalence
<1>4. \A s \in Copies(all, r) : ~Before(s, r)
  BY <1>1, <1>2, <1>3, BeforeOrder
<1>5. r \in DOMAIN merge_evidence(all) /\ merge_evidence(all)[r] = Survivor(all, r)
  BY <1>3, <1>4 DEF merge_evidence
<1>6. PICK q \in Copies(all, r) :
         /\ Survivor(all, r) = all[q]
         /\ \A s \in Copies(all, r) : all[s].authority_level <= all[q].authority_level
  BY <1>3, SurvivorIsCopy
<1> QED BY <1>1, <1>3, <1>5, <1>6

LEMMA MergedType ==
    ASSUME NEW all, Snapshot(all)
    PROVE  Snapshot(merge_evidence(all)) /\ DOMAIN merge_evidence(all) \subseteq DOMAIN all
<1>1. DOMAIN merge_evidence(all) \subseteq DOMAIN all
  BY DEF merge_evidence
<1>2. \A r \in DOMAIN merge_evidence(all) : merge_evidence(all)[r] \in Snapshots
  <2>1. ASSUME NEW r \in DOMAIN merge_evidence(all)
        PROVE  merge_evidence(all)[r] \in Snapshots
    <3>1. PICK q \in Copies(all, r) : merge_evidence(all)[r] = all[q]
      BY MergeSound
    <3> QED BY <3>1 DEF Copies, Snapshot
  <2> QED BY <2>1
<1> QED BY <1>1, <1>2 DEF Snapshot

\* The filter keeps what applies, where it is.
LEMMA FilterSound ==
    ASSUME NEW evs, Snapshot(evs), NEW s
    PROVE  /\ Snapshot(filter_by_temporal_scope(evs, s))
           /\ DOMAIN filter_by_temporal_scope(evs, s) = {p \in DOMAIN evs : Applies(evs[p], s)}
           /\ \A p \in DOMAIN filter_by_temporal_scope(evs, s) :
                 filter_by_temporal_scope(evs, s)[p] = evs[p]
BY DEF filter_by_temporal_scope, Restrict, Snapshot

\* What the filter keeps is in force on a day asked about, and what it drops is not.
LEMMA AppliesIsInForce ==
    ASSUME NEW e \in Snapshots, NEW s \in Scopes
    PROVE  Applies(e, s) <=> InForce(e, s)
<1>1. /\ e.effective_from \in Nat /\ e.effective_to \in Nat
      /\ e.effective_from <= e.effective_to
      /\ s.first \in Nat /\ s.last \in Nat /\ s.first <= s.last
  BY Fields, SnapshotsAssumption, ScopesAssumption
<1>2. ASSUME Applies(e, s) PROVE InForce(e, s)
  <2>1. CASE s.first <= e.effective_from
    <3>1. e.effective_from \in s.first .. s.last
      BY <1>1, <1>2, <2>1 DEF Applies
    <3> QED BY <1>1, <3>1 DEF InForce
  <2>2. CASE e.effective_from < s.first
    <3>1. s.first \in s.first .. s.last
      BY <1>1
    <3> QED BY <1>1, <1>2, <2>2, <3>1 DEF Applies, InForce
  <2> QED BY <1>1, <2>1, <2>2
<1>3. ASSUME InForce(e, s) PROVE Applies(e, s)
  BY <1>1, <1>3 DEF Applies, InForce
<1> QED BY <1>2, <1>3

\* Two snapshots that apply at one day have windows that overlap.
LEMMA ApplyTogether ==
    ASSUME NEW a \in Snapshots, NEW b \in Snapshots, NEW s \in Scopes,
           s.mode \in EffectiveNow, Applies(a, s), Applies(b, s)
    PROVE  Overlap(a, b)
BY Fields, ScopesAssumption DEF Applies, Overlap

-----------------------------------------------------------------------------
(* The resolver.                                                           *)

\* What survives the first phase, and what the second drops of it.
Survivors(evs, s) == DOMAIN evs \ Superseded(evs, s)
Overridden(evs, s) ==
    {p \in Survivors(evs, s) : \E q \in Survivors(evs, s) : Overrides(evs[q], evs[p], s)}
Unsettled(evs, s) ==
    {p \in Survivors(evs, s) : \E q \in Survivors(evs, s) : Undecided(evs[p], evs[q], s)}

LEMMA ResolveParts ==
    ASSUME NEW evs, NEW s
    PROVE  /\ resolve(evs, s).status \in {"none", "resolved", "contradicted"}
           /\ resolve(evs, s).dropped = Superseded(evs, s) \cup Overridden(evs, s)
           /\ resolve(evs, s).unresolved =
                 {p \in DOMAIN evs : Rollback(evs, p, s)} \cup Unsettled(evs, s)
           /\ resolve(evs, s).status # "contradicted" => resolve(evs, s).unresolved = {}
           /\ resolve(evs, s).dropped \cup resolve(evs, s).unresolved \subseteq DOMAIN evs
<1>1. Superseded(evs, s) \subseteq DOMAIN evs
  BY DEF Superseded
<1>2. /\ resolve(evs, s).dropped = Superseded(evs, s) \cup Overridden(evs, s)
      /\ resolve(evs, s).unresolved =
            {p \in DOMAIN evs : Rollback(evs, p, s)} \cup Unsettled(evs, s)
  BY DEF resolve, Overridden, Unsettled, Survivors
<1>3. /\ resolve(evs, s).status \in {"none", "resolved", "contradicted"}
      /\ resolve(evs, s).status # "contradicted" => resolve(evs, s).unresolved = {}
  BY DEF resolve
<1>4. Overridden(evs, s) \subseteq DOMAIN evs /\ Unsettled(evs, s) \subseteq DOMAIN evs
  BY DEF Overridden, Unsettled, Survivors
<1> QED BY <1>1, <1>2, <1>3, <1>4

\* The order in which a version group is sorted is total.
LEMMA OlderIsTotal ==
    ASSUME NEW evs, Snapshot(evs), NEW p \in DOMAIN evs, NEW q \in DOMAIN evs
    PROVE  /\ ~Older(evs, p, p)
           /\ p # q => Older(evs, p, q) \/ Older(evs, q, p)
<1>1. /\ evs[p].effective_from \in Nat /\ evs[q].effective_from \in Nat
      /\ evs[p].document_version \in Nat /\ evs[q].document_version \in Nat
      /\ p \in Place /\ q \in Place
  BY Fields DEF Snapshot
<1> QED BY <1>1, BeforeOrder DEF Older

\* So each group has a newest snapshot.
LEMMA Newest ==
    ASSUME NEW evs, Snapshot(evs), NEW G, G \subseteq DOMAIN evs, G # {}
    PROVE  \E q \in G : \A r \in G : ~Older(evs, q, r)
<1> DEFINE from == [p \in G |-> evs[p].effective_from]
           version == [p \in G |-> evs[p].document_version]
<1>1. \A p \in G : from[p] \in 0 .. Forever /\ version[p] \in 0 .. MaxVersion
  BY Fields DEF Snapshot
<1>2. PICK a \in G : \A y \in G : from[y] <= from[a]
  <2> HIDE DEF from
  <2> QED BY <1>1, Highest, BoundsAssumption
<1> DEFINE U == {p \in G : evs[p].effective_from = evs[a].effective_from}
<1>3. PICK b \in U : \A y \in U : version[y] <= version[b]
  <2>1. U # {} /\ \A p \in U : version[p] \in 0 .. MaxVersion
    BY <1>1
  <2> HIDE DEF version, U
  <2> QED BY <2>1, Highest, BoundsAssumption
<1> DEFINE W == {p \in U : evs[p].document_version = evs[b].document_version}
<1>4. PICK q \in W : \A r \in W \ {q} : Before(r, q)
  <2>1. W \subseteq Place /\ W # {}
    BY DEF Snapshot
  <2> HIDE DEF W
  <2> QED BY <2>1, LastPlace
<1>5. ASSUME NEW r \in G PROVE ~Older(evs, q, r)
  <2>1. /\ evs[r].effective_from \in Nat /\ evs[q].effective_from \in Nat
        /\ evs[r].document_version \in Nat /\ evs[q].document_version \in Nat
        /\ q \in Place /\ r \in Place
    BY Fields DEF Snapshot
  <2>2. evs[r].effective_from <= evs[q].effective_from
    BY <1>2
  <2>3. r \in U => evs[r].document_version <= evs[q].document_version
    BY <1>3
  <2>4. r \in W => ~Before(q, r)
    BY <1>4, <2>1, BeforeOrder
  <2>5. evs[q].effective_from = evs[a].effective_from
    OBVIOUS
  <2>6. evs[q].document_version = evs[b].document_version
    OBVIOUS
  <2>7. r \in U <=> evs[r].effective_from = evs[q].effective_from
    BY <2>5
  <2>8. r \in W <=> r \in U /\ evs[r].document_version = evs[q].document_version
    BY <2>6
  <2> HIDE DEF U, W
  <2> QED BY <2>1, <2>2, <2>3, <2>4, <2>7, <2>8 DEF Older
<1> QED BY <1>5

\* The first phase leaves something of every document.
LEMMA SomeVersionSurvives ==
    ASSUME NEW evs, Snapshot(evs), NEW s, NEW p \in DOMAIN evs
    PROVE  \E q \in Group(evs, p) : q \in Survivors(evs, s)
<1>1. Group(evs, p) \subseteq DOMAIN evs /\ p \in Group(evs, p)
  BY DEF Group
<1>2. PICK q \in Group(evs, p) : \A r \in Group(evs, p) : ~Older(evs, q, r)
  BY <1>1, Newest
<1>3. q \in DOMAIN evs /\ Group(evs, q) = Group(evs, p)
  BY <1>1 DEF Group
<1>4. q \notin Superseded(evs, s)
  BY <1>2, <1>3 DEF Superseded
<1> QED BY <1>3, <1>4 DEF Survivors

\* Who overrides has more authority.
LEMMA OverriderIsHigher ==
    ASSUME NEW a \in Snapshots, NEW b \in Snapshots, NEW s, Overrides(a, b, s)
    PROVE  a.authority_level > b.authority_level
BY Fields DEF Overrides, AUTHORITY_OVERRIDE_MARGIN

\* The resolver never drops everything it was given.
LEMMA ResolverKeepsSome ==
    ASSUME NEW evs, Snapshot(evs), NEW s, DOMAIN evs # {}
    PROVE  ~(DOMAIN evs \subseteq resolve(evs, s).dropped)
<1> DEFINE S == Survivors(evs, s)
           level == [p \in S |-> evs[p].authority_level]
<1>1. S \subseteq DOMAIN evs /\ S # {}
  BY SomeVersionSurvives DEF Survivors
<1>2. \A p \in S : evs[p].authority_level \in 0 .. MaxAuthority
  BY <1>1, Fields DEF Snapshot
<1>3. PICK p \in S : \A q \in S : level[q] <= level[p]
  <2>1. \A p \in S : level[p] \in 0 .. MaxAuthority
    BY <1>2
  <2> HIDE DEF level, S
  <2> QED BY <1>1, <2>1, Highest DEF MaxAuthority
<1>4. p \notin Overridden(evs, s)
  <2>1. ASSUME NEW q \in S, Overrides(evs[q], evs[p], s) PROVE FALSE
    <3>1. evs[q] \in Snapshots /\ evs[p] \in Snapshots
      BY <1>1 DEF Snapshot
    <3>2. evs[q].authority_level > evs[p].authority_level
      BY <2>1, <3>1, OverriderIsHigher
    <3>3. evs[q].authority_level <= evs[p].authority_level
      BY <1>3
    <3>4. evs[q].authority_level \in Nat /\ evs[p].authority_level \in Nat
      BY <3>1, Fields
    <3> QED BY <3>2, <3>3, <3>4
  <2> QED BY <2>1 DEF Overridden
<1>5. p \notin resolve(evs, s).dropped
  BY <1>4, ResolveParts DEF Survivors
<1> QED BY <1>1, <1>5

\* What is left without a contradiction asserts one value under each key.
LEMMA ResolvedIsConsistent ==
    ASSUME NEW evs, Snapshot(evs), NEW s, resolve(evs, s).status # "contradicted",
           NEW p \in DOMAIN evs \ resolve(evs, s).dropped,
           NEW q \in DOMAIN evs \ resolve(evs, s).dropped,
           evs[p].assertion.is_structured, evs[q].assertion.is_structured,
           evs[p].assertion.key = evs[q].assertion.key
    PROVE  evs[p].assertion.value = evs[q].assertion.value
<1> SUFFICES ASSUME evs[p].assertion.value # evs[q].assertion.value PROVE FALSE
  OBVIOUS
<1>1. /\ p \in Survivors(evs, s) /\ q \in Survivors(evs, s)
      /\ p \notin Overridden(evs, s) /\ q \notin Overridden(evs, s)
  BY ResolveParts DEF Survivors
<1>2. Unsettled(evs, s) = {} /\ ~Rollback(evs, p, s) /\ ~Rollback(evs, q, s)
  BY ResolveParts
<1>3. ~Overrides(evs[p], evs[q], s) /\ ~Overrides(evs[q], evs[p], s)
  BY <1>1 DEF Overridden
<1>4. ~Clash(evs[p], evs[q])
  BY <1>1, <1>2, <1>3 DEF Undecided, Unsettled
<1>5. /\ evs[p].document_id = evs[q].document_id
      /\ evs[p].document_version # evs[q].document_version
  BY <1>4 DEF Clash
<1>6. /\ q \in Group(evs, p) /\ Divergent(evs, p)
      /\ p \in Group(evs, q) /\ Divergent(evs, q)
  BY <1>5 DEF Group, Divergent
<1>7. Older(evs, p, q) \/ Older(evs, q, p)
  BY <1>5, OlderIsTotal
<1> QED BY <1>1, <1>2, <1>6, <1>7 DEF Survivors, Superseded

-----------------------------------------------------------------------------
(* The inductive invariant.                                                *)

\* Nothing was searched before the request begins.
Fresh == at = "start" => next = 1 /\ failed = 0 /\ faults = {} /\ per_corpus = Nothing

\* What the variables of a later stage are before it.
Staged ==
    /\ at \in {"start", "search"} => evidence = NoEvidence
    /\ at \in {"start", "search", "resolve"} => report = NoReport
    /\ at # "done" => envelope = Open
    /\ at = "done" => envelope.kind # "open"

\* The evidence was merged, and it is empty only if no corpus failed and there
\* was nothing to widen to.
Gathered ==
    /\ evidence = Merged
    /\ DOMAIN Merged = {} => faults = {} /\ fallback = <<>>

Judged == Gathered /\ report = resolve(InScope, scope)

\* On what an answer and a refusal rest.
Decided ==
    /\ at = "resolve" => Gathered
    /\ at = "synthesize" \/ envelope.kind = "answer" => Judged
    /\ envelope.kind = "answer" /\ envelope.completeness # "conflicted" =>
          report.status # "contradicted"
    /\ envelope.kind = "refusal" =>
          \/ DOMAIN Retrieved = {} /\ faults = {} /\ fallback = <<>>
          \/ Judged /\ DOMAIN InScope \subseteq report.dropped

SelectionInv == SelectionTypeOK /\ Fresh /\ Staged /\ Decided

LEMMA NothingRetrieved ==
    /\ Returned(Nothing)
    /\ DOMAIN Collected(Nothing) = {}
    /\ \A c \in Corpora : DOMAIN Nothing[c] = {}
    /\ DOMAIN NoEvidence = {}
<1>1. DOMAIN NoEvidence = {}
  BY DEF NoEvidence
<1>2. DOMAIN Nothing = Corpora /\ \A c \in Corpora : Nothing[c] = NoEvidence
  BY DEF Nothing
<1>3. Returned(Nothing)
  BY <1>1, <1>2 DEF Returned
<1>4. \A p \in DOMAIN Collected(Nothing) : FALSE
  BY <1>1, <1>2, <1>3, CollectedType
<1> QED BY <1>1, <1>2, <1>3, <1>4

LEMMA EmptySequence ==
    /\ <<>> \in Seq(Corpora) /\ Len(<<>>) = 0
    /\ Range(<<>>) = {}
BY DEF Range

LEMMA EnvelopeKinds ==
    /\ Open.kind = "open" /\ Open.tool_calls = 0 /\ Open.limitations = {}
    /\ Open.completeness = "insufficient"
    /\ \A n \in Nat : /\ Refusal(n).kind = "refusal" /\ Refusal(n).tool_calls = n
                      /\ Refusal(n).limitations = {} /\ Refusal(n).completeness = "insufficient"
    /\ \A k \in {"denied", "backend", "model"} :
          /\ Raised(k).kind = k /\ Raised(k).tool_calls = 0
          /\ Raised(k).limitations = {} /\ Raised(k).completeness = "insufficient"
BY DEF Open, Refusal, Raised

LEMMA TypeReturned == SelectionTypeOK => Returned(per_corpus)
BY DEF SelectionTypeOK, Returned

LEMMA SelectionInit == Init => SelectionInv
<1> SUFFICES ASSUME Init PROVE SelectionInv
  OBVIOUS
<1>1. corpora_used = {}
  BY NothingRetrieved DEF Init, corpora_used
<1>2. SelectionTypeOK
  BY <1>1, NothingRetrieved, EmptySequence, EnvelopeKinds, BoundsAssumption
  DEF Init, SelectionTypeOK, Returned, NoReport
<1>3. Fresh
  BY DEF Init, Fresh
<1>4. Staged /\ Decided
  BY EnvelopeKinds DEF Init, Staged, Decided
<1> QED BY <1>2, <1>3, <1>4 DEF SelectionInv

\* The router widens to other corpora than it took.
LEMMA RouteParts ==
    ASSUME NEW ranked \in Rankings,
           NEW confidence \in {"low", "medium", "high"}, NEW limit \in 0 .. 2
    PROVE  LET selected == Selected(ranked, confidence, limit)
               widen == Fallback(ranked, confidence, limit)
           IN  /\ selected \in Seq(Corpora) /\ widen \in Seq(Corpora)
               /\ Range(selected) \cap Range(widen) = {}
<1> DEFINE take == IF limit = 0 THEN PolicyCount(confidence)
                               ELSE Least(PolicyCount(confidence), limit)
           n == Least(take, Len(ranked))
           m == Least(2, Len(ranked))
<1>1. ranked \in [1 .. NumCorpora -> Corpora] /\ NumCorpora \in Nat
  BY BoundsAssumption DEF Rankings
<1>2. ranked \in Seq(Corpora) /\ Len(ranked) \in Nat /\ DOMAIN ranked = 1 .. Len(ranked)
  BY <1>1
<1>3. \A i, j \in 1 .. Len(ranked) : ranked[i] = ranked[j] => i = j
  BY <1>2 DEF Rankings, IsInjective
<1>4. PolicyCount(confidence) \in 1 .. 3
  BY DEF PolicyCount
<1>5. take \in 1 .. 3 /\ (confidence = "high" /\ limit = 0 => take = 1)
  BY <1>4 DEF Least, PolicyCount
<1>6. n \in 0 .. Len(ranked) /\ m \in 0 .. Len(ranked) /\ (take = 1 => n <= 1) /\ m <= 2
  BY <1>2, <1>5 DEF Least
<1>7. /\ SubSeq(ranked, 1, n) \in Seq(Corpora) /\ Len(SubSeq(ranked, 1, n)) = n
      /\ \A i \in 1 .. n : SubSeq(ranked, 1, n)[i] = ranked[i]
  <2>1. \A i \in 1 .. n : ranked[i] \in Corpora
    BY <1>2, <1>6
  <2> HIDE DEF n
  <2>2. \A i \in 1 .. n - 1 + 1 : SubSeq(ranked, 1, n)[i] = ranked[1 + i - 1]
    BY <1>6, <2>1, SubSeqProperties
  <2>3. SubSeq(ranked, 1, n) \in Seq(Corpora)
        /\ Len(SubSeq(ranked, 1, n)) = IF 1 <= n THEN n - 1 + 1 ELSE 0
    BY <1>6, <2>1, SubSeqProperties
  <2> QED BY <1>2, <1>6, <2>2, <2>3
<1>8. /\ SubSeq(ranked, 2, m) \in Seq(Corpora)
      /\ Len(SubSeq(ranked, 2, m)) = IF m = 2 THEN 1 ELSE 0
      /\ m = 2 => SubSeq(ranked, 2, m)[1] = ranked[2]
  <2>1. \A i \in 2 .. m : ranked[i] \in Corpora
    BY <1>2, <1>6
  <2> HIDE DEF m
  <2>2. \A i \in 1 .. m - 2 + 1 : SubSeq(ranked, 2, m)[i] = ranked[2 + i - 1]
    BY <1>6, <2>1, SubSeqProperties
  <2>3. SubSeq(ranked, 2, m) \in Seq(Corpora)
        /\ Len(SubSeq(ranked, 2, m)) = IF 2 <= m THEN m - 2 + 1 ELSE 0
    BY <1>6, <2>1, SubSeqProperties
  <2> QED BY <1>2, <1>6, <2>2, <2>3
<1>9. Selected(ranked, confidence, limit) = SubSeq(ranked, 1, n)
  BY DEF Selected
<1>10. Fallback(ranked, confidence, limit) =
          IF confidence = "high" /\ limit = 0 THEN SubSeq(ranked, 2, m) ELSE <<>>
  BY DEF Fallback
<1> HIDE DEF n, m, take
<1>11. ASSUME n <= 1, NEW x \in Range(SubSeq(ranked, 1, n)) \cap Range(SubSeq(ranked, 2, m))
       PROVE  FALSE
  <2>1. PICK i \in 1 .. n : x = SubSeq(ranked, 1, n)[i]
    BY <1>7 DEF Range
  <2>2. m = 2 /\ x = ranked[2]
    BY <1>8 DEF Range
  <2>3. i = 1 /\ 1 \in 1 .. Len(ranked) /\ 2 \in 1 .. Len(ranked)
    BY <1>2, <1>6, <1>11, <2>1, <2>2
  <2>4. x = ranked[1]
    BY <1>7, <2>1, <2>3
  <2>5. ranked[1] = ranked[2] => 1 = 2
    BY <1>3, <2>3, Zenon
  <2> QED BY <2>2, <2>4, <2>5
<1> QED BY <1>5, <1>6, <1>7, <1>8, <1>9, <1>10, <1>11, EmptySequence

-----------------------------------------------------------------------------
(* Every step keeps the invariant.                                         *)

\* A request begins with nothing searched.
LEMMA BeginKeeps ==
    ASSUME SelectionInv,
           NEW selected \in Seq(Corpora), NEW widen \in Seq(Corpora),
           Range(selected) \cap Range(widen) = {},
           Begin(selected, widen)
    PROVE  SelectionInv'
<1> USE DEF SelectionInv
<1>1. /\ at = "start" /\ corpora' = selected /\ fallback' = widen
      /\ next = 1 /\ failed = 0 /\ faults = {} /\ per_corpus = Nothing
      /\ evidence = NoEvidence /\ report = NoReport /\ envelope = Open
      /\ UNCHANGED <<scope, next, calls, failed, per_corpus, faults, evidence, report>>
  BY DEF Begin, Fresh, Staged
<1>2. \/ at' = "search" /\ envelope' = envelope
      \/ at' = "done" /\ envelope' = Refusal(0) /\ widen = <<>>
  BY DEF Begin, End
<1>3. SelectionTypeOK'
  BY <1>1, <1>2, EnvelopeKinds, NothingRetrieved DEF SelectionTypeOK, corpora_used, NoReport
<1>4. Fresh'
  BY <1>2 DEF Fresh
<1>5. Staged'
  BY <1>1, <1>2, EnvelopeKinds DEF Staged
<1>6. Decided'
  <2>1. DOMAIN Retrieved' = {}
    BY <1>1, NothingRetrieved DEF Retrieved
  <2> QED BY <1>1, <1>2, <2>1, EnvelopeKinds DEF Decided
<1> QED BY <1>3, <1>4, <1>5, <1>6

LEMMA PinKeeps == SelectionInv /\ Pin => SelectionInv'
<1> SUFFICES ASSUME SelectionInv, NEW k \in 0 .. MaxPinned, NEW ids \in [1 .. k -> Corpora],
                    Begin(ids, <<>>)
             PROVE  SelectionInv'
  BY DEF Pin
<1>1. k \in Nat
  BY BoundsAssumption
<1>2. ids \in Seq(Corpora)
  BY <1>1
<1>3. Range(ids) \cap Range(<<>>) = {}
  BY EmptySequence
<1> QED BY <1>2, <1>3, EmptySequence, BeginKeeps

LEMMA RouteKeeps == SelectionInv /\ Route => SelectionInv'
<1> SUFFICES ASSUME SelectionInv, NEW ranked \in Rankings,
                    NEW relevance \in {"none", "some", "strong"}, NEW dominant \in BOOLEAN,
                    NEW limit \in 0 .. 2,
                    Begin(Selected(ranked, Confidence(relevance, dominant), limit),
                          Fallback(ranked, Confidence(relevance, dominant), limit))
             PROVE  SelectionInv'
  BY DEF Route
<1>1. Confidence(relevance, dominant) \in {"low", "medium", "high"}
  BY DEF Confidence
<1> QED BY <1>1, RouteParts, BeginKeeps

\* A request that is raised leaves everything else as it was.
LEMMA RaiseKeeps ==
    ASSUME SelectionInv, NEW kind \in {"denied", "backend", "model"}, NEW n \in Nat,
           End(Raised(kind)), calls' = n,
           UNCHANGED <<scope, corpora, fallback, next, failed, per_corpus, faults, evidence, report>>
    PROVE  SelectionInv'
<1> USE DEF SelectionInv
<1>1. at' = "done" /\ envelope' = Raised(kind)
  BY DEF End
<1>2. /\ envelope'.kind = kind /\ envelope'.tool_calls = 0
      /\ envelope'.limitations = {} /\ envelope'.completeness = "insufficient"
  BY <1>1, EnvelopeKinds
<1>3. SelectionTypeOK'
  BY <1>1, <1>2 DEF SelectionTypeOK, corpora_used
<1>4. Fresh' /\ Staged' /\ Decided'
  BY <1>1, <1>2 DEF Fresh, Staged, Decided
<1> QED BY <1>3, <1>4

LEMMA PinUnknownKeeps == SelectionInv /\ PinUnknown => SelectionInv'
BY RaiseKeeps DEF PinUnknown, SelectionInv, SelectionTypeOK

LEMMA SearchDeniedKeeps == SelectionInv /\ SearchDenied => SelectionInv'
<1> SUFFICES ASSUME SelectionInv, SearchDenied PROVE SelectionInv'
  OBVIOUS
<1>1. calls + 1 \in Nat
  BY DEF SelectionInv, SelectionTypeOK
<1> QED BY <1>1, RaiseKeeps DEF SearchDenied

LEMMA ModelFailsKeeps == SelectionInv /\ ModelFails => SelectionInv'
BY RaiseKeeps DEF ModelFails, SelectionInv, SelectionTypeOK

\* There is a corpus to search.
LEMMA NextParts ==
    ASSUME SelectionInv, Searching
    PROVE  /\ corpora[next] \in Corpora
           /\ next \in 1 .. Len(corpora) /\ Len(corpora) \in Nat
BY DEF SelectionInv, SelectionTypeOK, Searching

LEMMA SearchKeeps ==
    ASSUME SelectionInv, Searching, NEW hits \in Results[corpora[next]], Search(hits)
    PROVE  SelectionInv'
<1> USE DEF SelectionInv
<1> DEFINE c == corpora[next]
<1>1. /\ at = "search" /\ at' = at /\ next' = next + 1 /\ calls' = calls + 1
      /\ per_corpus' = IF hits = <<>> THEN per_corpus
                        ELSE [per_corpus EXCEPT ![c] = Deduplicated(hits)]
      /\ UNCHANGED <<scope, corpora, fallback, failed, faults, evidence, report, envelope>>
      /\ evidence = NoEvidence /\ report = NoReport /\ envelope = Open
  BY DEF Search, Searching, Staged
<1>2. /\ c \in Corpora /\ next \in 1 .. Len(corpora) /\ Len(corpora) \in Nat
      /\ DOMAIN per_corpus = Corpora
  BY NextParts DEF SelectionTypeOK
<1>3. /\ DOMAIN Deduplicated(hits) \subseteq 1 .. TopK
      /\ \A i \in DOMAIN Deduplicated(hits) :
            Deduplicated(hits)[i] \in Snapshots /\ Deduplicated(hits)[i].corpus_id = c
  <2>1. /\ hits \in Seq(Snapshots) /\ Len(hits) <= TopK
        /\ \A i \in DOMAIN hits : hits[i].corpus_id = c
    BY <1>2, ResultsAssumption
  <2>2. /\ DOMAIN Deduplicated(hits) \subseteq DOMAIN hits
        /\ \A i \in DOMAIN Deduplicated(hits) : Deduplicated(hits)[i] = hits[i]
    BY DEF Deduplicated
  <2>3. DOMAIN hits \subseteq 1 .. TopK /\ \A i \in DOMAIN hits : hits[i] \in Snapshots
    BY <2>1, BoundsAssumption
  <2> QED BY <2>1, <2>2, <2>3
<1>4. /\ DOMAIN per_corpus' = Corpora
      /\ per_corpus'[c] \in {per_corpus[c], Deduplicated(hits)}
      /\ \A d \in Corpora \ {c} : per_corpus'[d] = per_corpus[d]
  BY <1>1, <1>2
<1> HIDE DEF c
<1>5. SelectionTypeOK'
  <2>2. \A d \in Corpora : /\ DOMAIN per_corpus'[d] \subseteq 1 .. TopK
                           /\ \A i \in DOMAIN per_corpus'[d] :
                                 /\ per_corpus'[d][i] \in Snapshots
                                 /\ per_corpus'[d][i].corpus_id = d
    <3>1. Returned(per_corpus)
      BY TypeReturned
    <3>2. ASSUME NEW d \in Corpora
          PROVE  /\ DOMAIN per_corpus'[d] \subseteq 1 .. TopK
                 /\ \A i \in DOMAIN per_corpus'[d] :
                       per_corpus'[d][i] \in Snapshots /\ per_corpus'[d][i].corpus_id = d
      <4>1. CASE d = c /\ per_corpus'[d] = Deduplicated(hits)
        BY <1>3, <4>1
      <4>2. CASE per_corpus'[d] = per_corpus[d]
        BY <3>1, <4>2 DEF Returned
      <4> QED BY <1>4, <4>1, <4>2
    <3> QED BY <3>2
  <2>3. next' \in 1 .. Len(corpora') + 1 /\ calls' \in Nat /\ failed' \in 0 .. next' - 1
    BY <1>1, <1>2 DEF SelectionTypeOK
  <2>4. DOMAIN evidence' = {}
    BY <1>1, NothingRetrieved
  <2> QED BY <1>1, <1>4, <2>2, <2>3, <2>4 DEF SelectionTypeOK
<1>6. Fresh'
  BY <1>1 DEF Fresh
<1>7. Staged' /\ Decided'
  BY <1>1, EnvelopeKinds DEF Staged, Decided
<1> QED BY <1>5, <1>6, <1>7

LEMMA SearchFaultsKeeps == SelectionInv /\ SearchFaults => SelectionInv'
<1> SUFFICES ASSUME SelectionInv, SearchFaults PROVE SelectionInv'
  OBVIOUS
<1> USE DEF SelectionInv
<1>1. /\ Searching /\ at = "search" /\ at' = at /\ next' = next + 1 /\ calls' = calls + 1
      /\ faults' = faults \cup {corpora[next]} /\ failed' = failed + 1
      /\ UNCHANGED <<scope, corpora, fallback, per_corpus, evidence, report, envelope>>
      /\ evidence = NoEvidence /\ report = NoReport /\ envelope = Open
  BY DEF SearchFaults, Searching, Staged
<1>2. /\ corpora[next] \in Corpora
      /\ next \in 1 .. Len(corpora) /\ Len(corpora) \in Nat
  BY <1>1, NextParts
<1>3. SelectionTypeOK'
  <2>1. corpora_used' = corpora_used
    BY <1>1 DEF corpora_used
  <2>2. next' \in 1 .. Len(corpora') + 1 /\ calls' \in Nat /\ failed' \in 0 .. next' - 1
    BY <1>1, <1>2 DEF SelectionTypeOK
  <2>3. DOMAIN evidence' = {}
    BY <1>1, NothingRetrieved
  <2> QED BY <1>1, <1>2, <2>1, <2>2, <2>3 DEF SelectionTypeOK
<1>4. Fresh'
  BY <1>1 DEF Fresh
<1>5. Staged' /\ Decided'
  BY <1>1, EnvelopeKinds DEF Staged, Decided
<1> QED BY <1>3, <1>4, <1>5

\* What was merged comes from corpora that returned something.
LEMMA MergedParts ==
    ASSUME SelectionTypeOK
    PROVE  /\ Snapshot(Retrieved) /\ Snapshot(Merged)
           /\ \A p \in DOMAIN Merged : Merged[p].corpus_id \in corpora_used
<1>1. Returned(per_corpus) /\ Snapshot(Retrieved)
  BY TypeReturned, CollectedType DEF Retrieved
<1>2. Snapshot(Merged)
  BY <1>1, MergedType DEF Merged, Retrieved
<1>3. ASSUME NEW p \in DOMAIN Merged PROVE Merged[p].corpus_id \in corpora_used
  <2>1. PICK q \in Copies(Retrieved, p) : Merged[p] = Retrieved[q]
    BY <1>1, MergeSound DEF Merged, Retrieved
  <2>2. q \in DOMAIN Retrieved
    BY DEF Copies
  <2>3. /\ q[1] \in Corpora /\ q[2] \in DOMAIN per_corpus[q[1]]
        /\ Retrieved[q].corpus_id = q[1]
    BY <1>1, <2>2, CollectedType DEF Retrieved
  <2> QED BY <2>1, <2>3 DEF corpora_used
<1> QED BY <1>1, <1>2, <1>3

LEMMA CollectKeeps == SelectionInv /\ Collect => SelectionInv'
<1> SUFFICES ASSUME SelectionInv, Collect PROVE SelectionInv'
  OBVIOUS
<1> USE DEF SelectionInv
<1>1. /\ at = "search" /\ UNCHANGED <<scope, calls, per_corpus, faults, report>>
      /\ evidence = NoEvidence /\ report = NoReport /\ envelope = Open /\ calls \in Nat
  BY DEF Collect, Staged, SelectionTypeOK
<1>2. CASE End(Raised("backend")) /\ UNCHANGED <<corpora, fallback, next, failed, evidence>>
  BY <1>1, <1>2, RaiseKeeps
<1>3. CASE /\ corpora' = fallback /\ fallback' = <<>> /\ next' = 1 /\ failed' = 0
           /\ UNCHANGED <<at, evidence, envelope>>
  <2>1. SelectionTypeOK'
    <3>1. 1 \in 1 .. Len(fallback) + 1 /\ 0 \in 0 .. 1 - 1
      BY DEF SelectionTypeOK
    <3> QED BY <1>1, <1>3, <3>1, EmptySequence DEF SelectionTypeOK, corpora_used
  <2>2. Fresh'
    BY <1>1, <1>3 DEF Fresh
  <2>3. Staged' /\ Decided'
    BY <1>1, <1>3, EnvelopeKinds DEF Staged, Decided
  <2> QED BY <2>1, <2>2, <2>3
<1>4. CASE /\ ~Widens /\ ~Outage
           /\ at' = "resolve" /\ evidence' = Merged
           /\ UNCHANGED <<corpora, fallback, next, failed, envelope>>
  <2>1. Snapshot(Merged) /\ \A p \in DOMAIN Merged : Merged[p].corpus_id \in corpora_used
    BY MergedParts
  <2>2. corpora_used' = corpora_used /\ Merged' = Merged
    BY <1>1 DEF corpora_used, Merged
  <2>3. SelectionTypeOK'
    <3>1. DOMAIN evidence' \subseteq Corpora \X (1 .. TopK)
      BY <1>4, <2>1 DEF Snapshot, Place
    <3>2. \A p \in DOMAIN evidence' : /\ evidence'[p] \in Snapshots
                                      /\ evidence'[p].corpus_id \in corpora_used'
      BY <1>4, <2>1, <2>2 DEF Snapshot
    <3>3. report.dropped \cup report.unresolved = {}
      BY <1>1 DEF NoReport
    <3> QED BY <1>1, <1>4, <2>2, <3>1, <3>2, <3>3 DEF SelectionTypeOK
  <2>4. Gathered'
    <3>1. DOMAIN Merged = {} => faults = {} /\ Range(fallback) \subseteq Range(corpora)
      BY <1>4 DEF Widens, Outage
    <3>2. Range(fallback) \subseteq Range(corpora) => fallback = <<>>
      <4>1. fallback \in Seq(Corpora) /\ Len(fallback) \in Nat
            /\ \A i \in 1 .. Len(fallback) : fallback[i] \in Range(fallback)
        BY DEF SelectionTypeOK, Range
      <4>2. ASSUME Range(fallback) \subseteq Range(corpora) PROVE Len(fallback) = 0
        <5>1. Range(fallback) = {}
          BY <4>2 DEF SelectionTypeOK
        <5>2. 1 \notin 1 .. Len(fallback)
          BY <4>1, <5>1
        <5> QED BY <4>1, <5>2
      <4> QED BY <4>1, <4>2, EmptySeq
    <3> QED BY <1>1, <1>4, <2>2, <3>1, <3>2 DEF Gathered
  <2>5. Fresh' /\ Staged' /\ Decided'
    BY <1>1, <1>4, <2>4, EnvelopeKinds DEF Fresh, Staged, Decided
  <2> QED BY <2>3, <2>5
<1> QED BY <1>2, <1>3, <1>4 DEF Collect

\* What applies is part of the evidence.
LEMMA InScopeParts ==
    ASSUME SelectionTypeOK
    PROVE  /\ Snapshot(evidence) /\ Snapshot(InScope)
           /\ DOMAIN InScope = {p \in DOMAIN evidence : Applies(evidence[p], scope)}
           /\ \A p \in DOMAIN InScope : InScope[p] = evidence[p]
<1>1. Snapshot(evidence)
  BY DEF SelectionTypeOK, Snapshot, Place
<1> QED BY <1>1, FilterSound DEF InScope

LEMMA ResolveKeeps == SelectionInv /\ Resolve => SelectionInv'
<1> SUFFICES ASSUME SelectionInv, Resolve PROVE SelectionInv'
  OBVIOUS
<1> USE DEF SelectionInv
<1>1. /\ at = "resolve" /\ report' = resolve(InScope, scope) /\ envelope = Open /\ calls \in Nat
      /\ UNCHANGED <<scope, corpora, fallback, next, calls, failed, per_corpus, faults, evidence>>
  BY DEF Resolve, Staged, SelectionTypeOK
<1>2. InScope' = InScope /\ Merged' = Merged /\ corpora_used' = corpora_used
  BY <1>1 DEF InScope, Merged, corpora_used
<1>3. Judged'
  BY <1>1, <1>2 DEF Decided, Judged, Gathered
<1>4. \/ /\ DOMAIN InScope \subseteq report'.dropped
         /\ at' = "done" /\ envelope' = Refusal(calls)
      \/ at' = "synthesize" /\ envelope' = envelope
  BY DEF Resolve, End
<1>5. /\ envelope'.kind \in {"open", "refusal"} /\ envelope'.tool_calls \in Nat
      /\ envelope'.limitations = {} /\ envelope'.completeness = "insufficient"
      /\ at' = "done" <=> envelope'.kind = "refusal"
      /\ envelope'.kind = "refusal" => DOMAIN InScope \subseteq report'.dropped
  BY <1>1, <1>4, EnvelopeKinds
<1>6. SelectionTypeOK'
  <2>1. DOMAIN InScope \subseteq DOMAIN evidence
    BY InScopeParts
  <2>2. /\ report'.status \in {"none", "resolved", "contradicted"}
        /\ report'.dropped \cup report'.unresolved \subseteq DOMAIN evidence
    BY <1>1, <2>1, ResolveParts
  <2> QED BY <1>1, <1>2, <1>4, <1>5, <2>2 DEF SelectionTypeOK
<1>7. Fresh' /\ Staged'
  BY <1>1, <1>4, <1>5 DEF Fresh, Staged
<1>8. Decided'
  BY <1>2, <1>3, <1>4, <1>5 DEF Decided
<1> QED BY <1>6, <1>7, <1>8

LEMMA SynthesizeKeeps ==
    ASSUME SelectionInv, NEW supported \in BOOLEAN, Synthesize(supported)
    PROVE  SelectionInv'
<1> USE DEF SelectionInv
<1>1. /\ at = "synthesize" /\ at' = "done"
      /\ UNCHANGED <<scope, corpora, fallback, next, calls, failed, per_corpus, faults, evidence, report>>
      /\ envelope'.kind = "answer" /\ envelope'.tool_calls = calls
      /\ envelope'.limitations = faults
      /\ envelope'.completeness \in {"conflicted", "complete", "partial"}
      /\ report.status = "contradicted" => envelope'.completeness = "conflicted"
  BY DEF Synthesize, End
<1>2. InScope' = InScope /\ Merged' = Merged /\ corpora_used' = corpora_used
  BY <1>1 DEF InScope, Merged, corpora_used
<1>3. Judged'
  BY <1>1, <1>2 DEF Decided, Judged, Gathered
<1>4. SelectionTypeOK'
  BY <1>1, <1>2 DEF SelectionTypeOK
<1>5. Fresh' /\ Staged' /\ Decided'
  BY <1>1, <1>3 DEF Fresh, Staged, Decided
<1> QED BY <1>4, <1>5

LEMMA SelectionStep == SelectionInv /\ [Next]_vars => SelectionInv'
<1> SUFFICES ASSUME SelectionInv, [Next]_vars PROVE SelectionInv'
  OBVIOUS
<1>1. CASE UNCHANGED vars
  <2>1. /\ Retrieved' = Retrieved /\ Merged' = Merged /\ InScope' = InScope
        /\ corpora_used' = corpora_used
    BY <1>1 DEF vars, Retrieved, Merged, InScope, corpora_used
  <2>2. Gathered' = Gathered /\ Judged' = Judged
    BY <1>1, <2>1 DEF vars, Gathered, Judged
  <2> QED BY <1>1, <2>1, <2>2 DEF vars, SelectionInv, SelectionTypeOK, Fresh, Staged, Decided
<1>2. ASSUME Searching, NEW hits \in Results[corpora[next]], Search(hits) PROVE SelectionInv'
  BY <1>2, SearchKeeps
<1>3. ASSUME NEW supported \in BOOLEAN, Synthesize(supported) PROVE SelectionInv'
  BY <1>3, SynthesizeKeeps
<1> QED
  BY <1>1, <1>2, <1>3, PinKeeps, PinUnknownKeeps, RouteKeeps, SearchFaultsKeeps,
     SearchDeniedKeeps, CollectKeeps, ResolveKeeps, ModelFailsKeeps DEF Next

\* Every reachable state satisfies the inductive invariant.
THEOREM SelectionInvariant == Spec => []SelectionInv
BY SelectionInit, SelectionStep, PTL DEF Spec

-----------------------------------------------------------------------------
(* The properties.                                                         *)

\* Every variable keeps its type: whatever the caller names and the router ranks,
\* _retrieve_or_expand widens to corpora that were not searched only, and what
\* is merged comes from corpora that returned something.
THEOREM SelectionTypeCorrect == Spec => []SelectionTypeOK
<1>1. SelectionInv => SelectionTypeOK
  BY DEF SelectionInv
<1> QED BY <1>1, SelectionInvariant, PTL

\* Each retrieved snapshot is represented by a strongest of its copies.
LEMMA StrongestRepresents ==
    ASSUME SelectionTypeOK, NEW p \in DOMAIN Retrieved
    PROVE  \E r \in DOMAIN Merged, q \in Strongest(p) :
              r \in Copies(Retrieved, p) /\ Merged[r] = Retrieved[q]
<1>1. Snapshot(Retrieved) /\ Merged = merge_evidence(Retrieved)
  BY MergedParts DEF Merged, Retrieved
<1>2. PICK r \in DOMAIN Merged, q \in Copies(Retrieved, p) :
         /\ r \in Copies(Retrieved, p) /\ Merged[r] = Retrieved[q]
         /\ \A s \in Copies(Retrieved, p) :
               Retrieved[s].authority_level <= Retrieved[q].authority_level
  BY <1>1, MergeComplete
<1>3. \A s \in Copies(Retrieved, p) : Retrieved[s].authority_level \in Nat
  BY <1>1, Fields DEF Copies, Snapshot
<1>4. q \in Strongest(p)
  BY <1>2, <1>3 DEF Strongest
<1> QED BY <1>2, <1>4

\* answer_multi_corpus refuses only if nothing was retrieved, without a fault and
\* after the widening, or if of each retrieved snapshot a copy of the highest
\* authority is out of force: the resolver always leaves something of what it is
\* given.  A snapshot in force may be folded into one that is not.
THEOREM RefusalIsAbsenceHolds == Spec => []RefusalIsAbsence
<1>1. SelectionInv => RefusalIsAbsence
  <2> SUFFICES ASSUME SelectionInv, envelope.kind = "refusal"
               PROVE  /\ DOMAIN Retrieved = {} => faults = {} /\ fallback = <<>>
                      /\ \A p \in DOMAIN Retrieved :
                            \E q \in Strongest(p) : ~InForce(Retrieved[q], scope)
    BY DEF RefusalIsAbsence
  <2>1. /\ SelectionTypeOK /\ Snapshot(Retrieved) /\ scope \in Scopes
        /\ Merged = merge_evidence(Retrieved)
    BY MergedParts DEF SelectionInv, SelectionTypeOK, Merged, Retrieved
  <2>2. CASE DOMAIN Retrieved = {} /\ faults = {} /\ fallback = <<>>
    BY <2>2
  <2>3. CASE Judged /\ DOMAIN InScope \subseteq report.dropped
    <3>1. /\ evidence = Merged /\ report = resolve(InScope, scope)
          /\ DOMAIN Merged = {} => faults = {} /\ fallback = <<>>
      BY <2>3 DEF Judged, Gathered
    <3>2. DOMAIN InScope = {}
      BY <2>1, <2>3, <3>1, InScopeParts, ResolverKeepsSome
    <3>3. DOMAIN Retrieved = {} => DOMAIN Merged = {}
      BY <2>1, MergedType
    <3>4. ASSUME NEW p \in DOMAIN Retrieved
          PROVE  \E q \in Strongest(p) : ~InForce(Retrieved[q], scope)
      <4>1. PICK r \in DOMAIN Merged, q \in Strongest(p) :
               r \in Copies(Retrieved, p) /\ Merged[r] = Retrieved[q]
        BY <2>1, StrongestRepresents
      <4>2. ~Applies(Retrieved[q], scope)
        BY <2>1, <3>1, <3>2, <4>1, InScopeParts
      <4>3. Retrieved[q] \in Snapshots
        BY <2>1 DEF Strongest, Copies, Snapshot
      <4> QED BY <2>1, <4>2, <4>3, AppliesIsInForce
    <3> QED BY <3>1, <3>3, <3>4
  <2> QED BY <2>2, <2>3 DEF SelectionInv, Decided
<1> QED BY <1>1, SelectionInvariant, PTL

\* Two merged snapshots with one source are one.
LEMMA OneRepresentative ==
    ASSUME NEW all, Snapshot(all), NEW p \in DOMAIN all,
           NEW r \in DOMAIN merge_evidence(all), NEW s \in DOMAIN merge_evidence(all),
           p \in Copies(all, r), p \in Copies(all, s)
    PROVE  r = s
<1>1. /\ r \in DOMAIN all /\ \A x \in Copies(all, r) : ~Before(x, r)
      /\ s \in DOMAIN all /\ \A x \in Copies(all, s) : ~Before(x, s)
  BY MergeSound
<1>2. Copies(all, r) = Copies(all, p) /\ Copies(all, s) = Copies(all, p)
  BY <1>1, SameContentIsEquivalence
<1>3. r \in Copies(all, r) /\ s \in Copies(all, s)
  BY <1>1 DEF Copies, SameContent
<1>4. r \in Place /\ s \in Place
  BY <1>1 DEF Snapshot
<1> QED BY <1>1, <1>2, <1>3, <1>4, BeforeOrder

\* What the first phase drops lost to a newer version or to a sibling.
LEMMA SupersededIsExplained ==
    ASSUME SelectionTypeOK, evidence = Merged, NEW p \in DOMAIN Retrieved,
           NEW r \in DOMAIN Merged, r \in Copies(Retrieved, p), Merged[r] = Retrieved[p],
           r \in Superseded(InScope, scope)
    PROVE  Explained(p)
<1>1. /\ Snapshot(Retrieved) /\ Snapshot(InScope) /\ DOMAIN InScope \subseteq DOMAIN Merged
      /\ \A s \in DOMAIN InScope : InScope[s] = Merged[s]
      /\ Merged = merge_evidence(Retrieved)
  BY MergedParts, InScopeParts DEF Merged, Retrieved
<1>2. r \in DOMAIN InScope /\ InScope[r] = Retrieved[p] /\ Divergent(InScope, r)
  BY <1>1 DEF Superseded
<1>3. PICK s \in Group(InScope, r) : Older(InScope, r, s)
  BY DEF Superseded
<1>4. PICK t \in Group(InScope, r) :
         InScope[t].document_version # InScope[r].document_version
  BY <1>2 DEF Divergent
<1>5. /\ s \in DOMAIN InScope /\ InScope[s].document_id = InScope[r].document_id
      /\ t \in DOMAIN InScope /\ InScope[t].document_id = InScope[r].document_id
  BY DEF Group
<1>6. PICK q \in Copies(Retrieved, s) : InScope[s] = Retrieved[q]
  BY <1>1, <1>5, MergeSound
<1>7. PICK u \in Copies(Retrieved, t) : InScope[t] = Retrieved[u]
  BY <1>1, <1>5, MergeSound
<1>8. q \in Group(Retrieved, p) /\ u \in Group(Retrieved, p) /\ Divergent(Retrieved, p)
  BY <1>2, <1>4, <1>5, <1>6, <1>7 DEF Copies, Group, Divergent
<1>9. q # p
  <2>1. SUFFICES ASSUME q = p PROVE FALSE
    OBVIOUS
  <2>2. p \in Copies(Retrieved, s) /\ p \in Copies(Retrieved, r)
    BY <1>6, <2>1, SameContentIsEquivalence DEF Copies, SameContent
  <2>3. r = s
    BY <1>1, <1>5, <2>2, OneRepresentative
  <2> QED BY <1>1, <1>2, <1>3, <2>3, OlderIsTotal
<1>10. /\ Retrieved[p] \in Snapshots /\ Retrieved[q] \in Snapshots
       /\ Retrieved[u] \in Snapshots
  BY <1>1, <1>8 DEF Group, Snapshot
<1>11. /\ InForce(Retrieved[q], scope) /\ InForce(Retrieved[u], scope)
       /\ Retrieved[u].document_version # Retrieved[p].document_version
  <2>1. Applies(InScope[s], scope) /\ Applies(InScope[t], scope)
    BY <1>5, InScopeParts
  <2> QED BY <1>2, <1>4, <1>6, <1>7, <1>10, <2>1, AppliesIsInForce DEF SelectionTypeOK
<1>12. \/ Retrieved[q].effective_from > Retrieved[p].effective_from
       \/ /\ Retrieved[q].effective_from = Retrieved[p].effective_from
          /\ Retrieved[q].document_version >= Retrieved[p].document_version
  BY <1>2, <1>3, <1>6, <1>10, Fields DEF Older
<1>13. /\ Retrieved[q].effective_from >= Retrieved[p].effective_from
       /\ Retrieved[q].document_version \in Nat /\ Retrieved[p].document_version \in Nat
  BY <1>10, <1>12, Fields
<1>14. CASE Retrieved[q].document_version = Retrieved[p].document_version
  BY <1>8, <1>9, <1>11, <1>13, <1>14 DEF Explained, LosesToSibling
<1>15. CASE /\ Retrieved[q].document_version # Retrieved[p].document_version
            /\ ~Temporary(Retrieved[p]) /\ ~Temporary(Retrieved[q])
  <2>1. Outdated(p)
    BY <1>8, <1>11, <1>12, <1>13, <1>15 DEF Outdated
  <2> QED BY <2>1 DEF Explained
<1>16. CASE /\ Retrieved[q].document_version # Retrieved[p].document_version
            /\ Temporary(Retrieved[p]) \/ Temporary(Retrieved[q])
  <2>1. ~Rollback(InScope, r, scope)
    BY DEF Superseded
  <2>2. r \in Group(InScope, r) /\ s \in Group(InScope, r)
    BY <1>2, <1>3 DEF Group
  <2>3. scope.mode \in EffectiveNow => Temporary(InScope[r]) = Temporary(InScope[s])
    BY <1>2, <2>1, <2>2 DEF Rollback, Temporary
  <2>4. LosesAsTemporary(p)
    BY <1>2, <1>6, <1>8, <1>11, <1>13, <1>16, <2>3 DEF LosesAsTemporary, Temporary
  <2> QED BY <2>4 DEF Explained
<1> QED BY <1>14, <1>15, <1>16

\* What the second phase drops lost against a clear margin of authority.
LEMMA OverriddenIsExplained ==
    ASSUME SelectionTypeOK, evidence = Merged, NEW p \in DOMAIN Retrieved,
           NEW r \in DOMAIN Merged, Merged[r] = Retrieved[p],
           r \in Overridden(InScope, scope)
    PROVE  Explained(p)
<1>1. /\ Snapshot(Retrieved) /\ DOMAIN InScope \subseteq DOMAIN Merged
      /\ \A s \in DOMAIN InScope : InScope[s] = Merged[s]
      /\ Merged = merge_evidence(Retrieved)
  BY MergedParts, InScopeParts DEF Merged, Retrieved
<1>2. PICK s \in DOMAIN InScope : Overrides(InScope[s], InScope[r], scope)
  BY DEF Overridden, Survivors
<1>3. r \in DOMAIN InScope /\ InScope[r] = Retrieved[p]
  BY <1>1 DEF Overridden, Survivors
<1>4. PICK q \in Copies(Retrieved, s) : InScope[s] = Retrieved[q]
  BY <1>1, MergeSound
<1>5. Overrides(Retrieved[q], Retrieved[p], scope) /\ q \in DOMAIN Retrieved
  BY <1>2, <1>3, <1>4 DEF Copies
<1>6. /\ Retrieved[q] \in Snapshots /\ Retrieved[p] \in Snapshots /\ scope \in Scopes
      /\ Applies(Retrieved[q], scope) /\ Applies(Retrieved[p], scope)
  BY <1>1, <1>2, <1>3, <1>4, <1>5, InScopeParts DEF Snapshot, SelectionTypeOK
<1>7. Outranks(q, p)
  BY <1>5, <1>6, AppliesIsInForce DEF Outranks, Overrides, Clash, AUTHORITY_OVERRIDE_MARGIN
<1>8. CASE Overlap(Retrieved[q], Retrieved[p])
  <2>1. scope.mode \in EffectiveNow => Temporary(Retrieved[q]) = Temporary(Retrieved[p])
    BY <1>5 DEF Overrides
  <2>2. Outranked(p)
    BY <1>5, <1>7, <1>8, <2>1 DEF Outranked
  <2> QED BY <2>2 DEF Explained
<1>9. CASE ~Overlap(Retrieved[q], Retrieved[p])
  <2>1. scope.mode \notin EffectiveNow
    BY <1>6, <1>9, ApplyTogether
  <2>2. LosesElsewhen(p)
    BY <1>5, <1>7, <1>9, <2>1 DEF LosesElsewhen
  <2> QED BY <2>2 DEF Explained
<1> QED BY <1>8, <1>9

\* An answer of answer_multi_corpus leaves nothing out without a reason: of each
\* retrieved snapshot a copy of the highest authority is in the answer, is out of
\* force, lost to a newer version or a clear margin of authority, or was left out
\* in one of the three ways in which the resolver goes beyond its contract.
THEOREM EveryDropIsExplainedHolds == Spec => []EveryDropIsExplained
<1>1. SelectionInv => EveryDropIsExplained
  <2> SUFFICES ASSUME SelectionInv, envelope.kind = "answer", NEW p \in DOMAIN Retrieved
               PROVE  \E q \in Strongest(p) : Explained(q)
    BY DEF EveryDropIsExplained
  <2>1. /\ SelectionTypeOK /\ Snapshot(Retrieved) /\ scope \in Scopes
        /\ Merged = merge_evidence(Retrieved)
    BY MergedParts DEF SelectionInv, SelectionTypeOK, Merged, Retrieved
  <2>2. evidence = Merged /\ report = resolve(InScope, scope)
    BY DEF SelectionInv, Decided, Judged, Gathered
  <2>3. PICK r \in DOMAIN Merged, q \in Strongest(p) :
           r \in Copies(Retrieved, p) /\ Merged[r] = Retrieved[q]
    BY <2>1, StrongestRepresents
  <2>4. q \in DOMAIN Retrieved /\ Retrieved[q] \in Snapshots /\ r \in Copies(Retrieved, q)
    <3>1. q \in Copies(Retrieved, p)
      BY DEF Strongest
    <3> QED BY <2>1, <2>3, <3>1, SameContentIsEquivalence DEF Snapshot
  <2>5. CASE r \notin DOMAIN InScope
    <3>1. ~Applies(Retrieved[q], scope)
      BY <2>1, <2>2, <2>3, <2>5, InScopeParts
    <3>2. ~InForce(Retrieved[q], scope)
      BY <2>1, <2>4, <3>1, AppliesIsInForce
    <3> QED BY <3>2 DEF Explained
  <2>6. CASE r \in DOMAIN InScope /\ r \notin report.dropped
    <3>1. r \in DOMAIN InScope \ report.dropped
      BY <2>6
    <3>2. r \in DOMAIN final_evidence /\ final_evidence[r] = InScope[r]
      BY <3>1 DEF final_evidence, Restrict
    <3>3. InScope[r] = Retrieved[q]
      BY <2>1, <2>2, <2>3, <2>6, InScopeParts
    <3> QED BY <3>2, <3>3 DEF Explained
  <2>7. CASE r \in report.dropped
    <3>1. r \in Superseded(InScope, scope) \/ r \in Overridden(InScope, scope)
      BY <2>2, <2>7, ResolveParts
    <3> QED BY <2>1, <2>2, <2>3, <2>4, <3>1, SupersededIsExplained, OverriddenIsExplained
  <2> QED BY <2>5, <2>6, <2>7
<1> QED BY <1>1, SelectionInvariant, PTL

\* An answer not marked conflicted never rests on two values under one key.
THEOREM AnswerIsConsistentHolds == Spec => []AnswerIsConsistent
<1>1. SelectionInv => AnswerIsConsistent
  <2> SUFFICES ASSUME SelectionInv, envelope.kind = "answer",
                      envelope.completeness # "conflicted",
                      NEW p \in DOMAIN final_evidence, NEW q \in DOMAIN final_evidence,
                      final_evidence[p].assertion.is_structured,
                      final_evidence[q].assertion.is_structured,
                      final_evidence[p].assertion.key = final_evidence[q].assertion.key
               PROVE  final_evidence[p].assertion.value = final_evidence[q].assertion.value
    BY DEF AnswerIsConsistent
  <2>1. /\ SelectionTypeOK /\ report = resolve(InScope, scope)
        /\ report.status # "contradicted"
    BY DEF SelectionInv, Decided, Judged
  <2>2. Snapshot(InScope)
    BY <2>1, InScopeParts
  <2>3. /\ DOMAIN final_evidence = DOMAIN InScope \ report.dropped
        /\ \A x \in DOMAIN final_evidence : final_evidence[x] = InScope[x]
    BY DEF final_evidence, Restrict
  <2> QED BY <2>1, <2>2, <2>3, ResolvedIsConsistent
<1> QED BY <1>1, SelectionInvariant, PTL
=============================================================================
