--------------------------- MODULE MCMetadataStore ---------------------------
(* The control plane on its own, driven by arbitrary callers.              *)
EXTENDS MetadataStore, TLC

CONSTANTS MaxRevision,     \* bound on lifecycle_revision
          MaxGeneration    \* bound on lease_generation

Bounded ==
    /\ \A v \in Versions : documents[v].revision <= MaxRevision
    /\ \A v \in Versions : builds[v].generation <= MaxGeneration

MCStamps == 0 .. MaxRevision

\* The ids are interchangeable, and every CHOOSE over one of these sets is over
\* a set of at most one element (UniqueActive).
Symmetry ==
    Permutations(Versions) \cup Permutations(Jobs) \cup
    Permutations(Acls) \cup Permutations(Attempts)

MCSpec == Init /\ [][Next /\ Bounded']_storeVars
=============================================================================
