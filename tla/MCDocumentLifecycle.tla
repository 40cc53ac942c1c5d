------------------------ MODULE MCDocumentLifecycle ------------------------
(* Small instances of the document lifecycle.                              *)
EXTENDS DocumentLifecycle, TLC

CONSTANTS v1, v2

\* A document that two users may read, or its owner only.
Acl(users) ==
    [tenant_id |-> "acme", security_level |-> "internal", acl_scope |-> "restricted",
     allowed_user_ids |-> users, allowed_group_ids |-> {},
     denied_user_ids |-> {}, denied_group_ids |-> {}]
Shared == Acl({"owner", "reader"})
Private == Acl({"owner"})

Principal(user) ==
    [tenant_id |-> "acme", user_id |-> user, groups |-> {},
     levels |-> {"public", "internal"}, corpora |-> {NoLimit}, is_admin |-> FALSE]

MCAcls == {Shared, Private}
MCPrincipals == {Principal("owner"), Principal("reader")}
MCStamps == 0 .. 6

\* The names of the versions mean nothing: v1 stands for the one delivered first.
Case(most, ops, acls, troublesome, quiet) ==
    [most |-> most, calls |-> ops, acls |-> acls, troubles |-> troublesome,
     first |-> {v1}, quiet |-> quiet, committed |-> TRUE]

\* The operations beside a reconciler that runs at any time; a call that raises
\* or a restart, likewise; the same with a rollback, the reconciler in between;
\* and operations on two ACLs, the reconciler in between.
Concurrent == Case(3, {"delete", "purge", "rollback"}, {Shared}, 0, FALSE)
Restarted == Case(2, {"delete"}, {Shared}, 1, FALSE)
Interrupted == Case(3, {"rollback"}, {Shared}, 1, TRUE)
Tightened == Case(5, {"tighten_acl", "rollback"}, {Shared, Private}, 0, TRUE)
Together == {Concurrent, Restarted, Interrupted, Tightened}

\* A tightening and a restart.
TightenedThenRestarted == {Case(2, {"tighten_acl"}, {Shared, Private}, 1, TRUE)}
=============================================================================
