------------------------ MODULE MCEvidenceSelection ------------------------
(* Three corpora in which one document has copies, versions and windows.   *)
EXTENDS EvidenceSelection, TLC

Value(v) == [is_structured |-> TRUE, key |-> "limit", value |-> v]
Other == [is_structured |-> TRUE, key |-> "owner", value |-> "ops"]
Free == [is_structured |-> FALSE, key |-> "", value |-> ""]

\* A snapshot of corpus c; what the control plane says of a version comes last.
Snap(c, d, v, text, assertion, authority, from, to) ==
    [corpus_id |-> c, document_id |-> d, document_version |-> v, text |-> text,
     assertion |-> assertion, authority_level |-> authority,
     effective_from |-> from, effective_to |-> to]

\* The document "policy": version 1 in corpora 1 and 2, version 2 in 2 and 3.
a1 == Snap(1, "policy", 1, "ten", Value("10"), 50, 0, Forever)
a2 == Snap(1, "policy", 1, "Ten", Value("10"), 50, 0, Forever)
a3 == Snap(1, "guide", 1, "thirty", Value("30"), 60, 1, Forever)
b1 == Snap(2, "policy", 1, "ten", Value("10"), 80, 0, 2)
b2 == Snap(2, "policy", 2, "twenty", Value("20"), 80, 2, Forever)
b3 == Snap(2, "policy", 2, "prose", Free, 80, 2, Forever)
c1 == Snap(3, "policy", 2, "ten", Value("10"), 60, 0, Forever)
c2 == Snap(3, "memo", 1, "forty", Value("40"), 40, 3, 3)
c3 == Snap(3, "memo", 1, "owner", Other, 40, 3, 3)

MCSnapshots == {a1, a2, a3, b1, b2, b3, c1, c2, c3}

Lists(S) == {<<>>} \cup {<<x>> : x \in S} \cup {<<x, y>> : x, y \in S}

MCResults == [c \in Corpora |-> Lists({e \in MCSnapshots : e.corpus_id = c})]

\* "ten" and "Ten" differ only in case.
MCNormalText(e) == IF e.text = "Ten" THEN "ten" ELSE e.text

Day(mode, day) == [mode |-> mode, first |-> day, last |-> day]
MCScopes == {Day("current", 3), Day("as_of", 1), [mode |-> "range", first |-> 2, last |-> 3]}
=============================================================================
