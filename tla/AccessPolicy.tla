---------------------------- MODULE AccessPolicy ----------------------------
(***************************************************************************)
(* Who may read and who may change a document (security/policy.py), and    *)
(* the Qdrant filter derived from it (security/filter.py).  Pure: a        *)
(* principal is a record [tenant_id, user_id, groups, levels, corpora,     *)
(* is_admin] and an ACL a record [tenant_id, security_level, acl_scope,    *)
(* allowed_user_ids, allowed_group_ids, denied_user_ids, denied_group_ids].*)
(* The principal's corpora are {NoLimit} where the code has None.          *)
(***************************************************************************)
EXTENDS Naturals

NoLimit == "all corpora"

-----------------------------------------------------------------------------
(* The policy decision point.                                              *)

Denied(ctx, acl) ==
    \/ ctx.user_id \in acl.denied_user_ids
    \/ ctx.groups \cap acl.denied_group_ids # {}

Named(ctx, acl) ==
    \/ ctx.user_id \in acl.allowed_user_ids
    \/ ctx.groups \cap acl.allowed_group_ids # {}

\* TRUE stands for ALLOW.
evaluate_access(ctx, acl) ==
    /\ ctx.tenant_id = acl.tenant_id
    /\ ~Denied(ctx, acl)
    /\ acl.security_level \in ctx.levels
    /\ acl.acl_scope = "tenant" \/ Named(ctx, acl)

can_discover_corpus(ctx, corpus) == ctx.corpora \cap {NoLimit, corpus} # {}

\* Reading is not enough to change a document: an owner or an admin does that.
can_manage_document(ctx, corpus, acl) ==
    /\ can_discover_corpus(ctx, corpus)
    /\ evaluate_access(ctx, acl)
    /\ ctx.is_admin \/ Named(ctx, acl)

_security_level_rank(level) ==
    CASE level = "public" -> 0 [] level = "internal" -> 1 [] level = "secret" -> 2
      [] OTHER -> 3

is_acl_tightening(old, new) ==
    /\ ~(new.acl_scope = "tenant" /\ old.acl_scope = "restricted")
    /\ _security_level_rank(old.security_level) <= _security_level_rank(new.security_level)
    /\ new.allowed_user_ids \subseteq old.allowed_user_ids
    /\ new.allowed_group_ids \subseteq old.allowed_group_ids
    /\ old.denied_user_ids \subseteq new.denied_user_ids
    /\ old.denied_group_ids \subseteq new.denied_group_ids

-----------------------------------------------------------------------------
(* The policy enforcement point.  Every field of a payload is the set of   *)
(* its values: Qdrant matches a field, scalar or list, if one of its       *)
(* values is among those of the condition.                                 *)

Cond(key, any) == [key |-> key, any |-> any]

Matches(payload, cond) == payload[cond.key] \cap cond.any # {}

GroupCond(ctx, key) == IF ctx.groups = {} THEN {} ELSE {Cond(key, ctx.groups)}

\* Each member of `must` is a set of alternatives; a Filter with `should` has
\* several.  Defined only if ctx.levels is not empty: the code raises otherwise.
build_access_filter(ctx, corpus) ==
    [must |-> {{Cond("tenant_id", {ctx.tenant_id})},
               {Cond("corpus_id", {corpus})},
               {Cond("status", {"active"})},
               {Cond("deprecated", {"no"})},
               {Cond("security_level", ctx.levels)},
               {Cond("acl_scope", {"tenant"}), Cond("allowed_user_ids", {ctx.user_id})}
                   \cup GroupCond(ctx, "allowed_group_ids")},
     must_not |-> {Cond("denied_user_ids", {ctx.user_id})}
                      \cup GroupCond(ctx, "denied_group_ids")]

Accepts(filter, payload) ==
    /\ \A alternatives \in filter.must : \E cond \in alternatives : Matches(payload, cond)
    /\ \A cond \in filter.must_not : ~Matches(payload, cond)

\* The payload of a point; the flag `deprecated` is "yes" or "no".
Payload(corpus, status, deprecated, acl) ==
    [tenant_id |-> {acl.tenant_id}, corpus_id |-> {corpus}, status |-> {status},
     deprecated |-> {deprecated}, security_level |-> {acl.security_level},
     acl_scope |-> {acl.acl_scope},
     allowed_user_ids |-> acl.allowed_user_ids, allowed_group_ids |-> acl.allowed_group_ids,
     denied_user_ids |-> acl.denied_user_ids, denied_group_ids |-> acl.denied_group_ids]

\* The search of a principal: EmptyAuthorizationScopeError finds nothing.
Found(ctx, corpus, payload) ==
    ctx.levels # {} /\ Accepts(build_access_filter(ctx, corpus), payload)

resource_passes_filter(ctx, acl, status, deprecated) ==
    status = "active" /\ deprecated = "no" /\ evaluate_access(ctx, acl)
=============================================================================
