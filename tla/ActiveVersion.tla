---------------------------- MODULE ActiveVersion ----------------------------
(***************************************************************************)
(* What the metadata database promises about one document, seen from the   *)
(* retrieval side: at any time at most one version, under one access       *)
(* control list, is visible, and a revision number stamps what is visible. *)
(* A reader or a writer that remembers the stamp can tell, by comparing    *)
(* it with the current one, whether anything visible changed in between:   *)
(* this is what the compare-and-swap of commit_active_version and of       *)
(* rollback_active_version rests on.                                       *)
(***************************************************************************)
EXTENDS Naturals

CONSTANTS Visible,   \* what can be visible: pairs of a version and its ACL
          Nothing    \* no active version

VARIABLES visible,   \* a member of Visible, or Nothing
          revision   \* the stamp of what is visible

Init ==
    /\ visible = Nothing
    /\ revision = 0

\* A commit, a rollback, a logical delete or an ACL change: whatever becomes
\* visible, the stamp grows by exactly one.
Change(x) ==
    /\ visible' = x
    /\ revision' = revision + 1

\* A physical purge forgets the document and starts its stamps again.
Forget ==
    /\ visible' = Nothing
    /\ revision' = 0

Next ==
    \/ \E x \in Visible \cup {Nothing} : Change(x)
    \/ Forget

Spec == Init /\ [][Next]_<<visible, revision>>
=============================================================================
