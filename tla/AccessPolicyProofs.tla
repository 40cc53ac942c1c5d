-------------------------- MODULE AccessPolicyProofs --------------------------
(* The Qdrant filter and the policy agree, and tightening never widens.    *)
EXTENDS AccessPolicy, TLAPS

\* What the code knows of a principal and of an ACL: their fields, the lists of
\* which are read as sets.
Principal(ctx) ==
    ctx \in [tenant_id : STRING, user_id : STRING, groups : SUBSET STRING,
             levels : SUBSET STRING, corpora : SUBSET STRING, is_admin : BOOLEAN]

ResourceAcl(acl) ==
    acl \in [tenant_id : STRING, security_level : STRING, acl_scope : {"tenant", "restricted"},
             allowed_user_ids : SUBSET STRING, allowed_group_ids : SUBSET STRING,
             denied_user_ids : SUBSET STRING, denied_group_ids : SUBSET STRING]

LEMMA MatchesAny ==
    ASSUME NEW payload, NEW key, NEW any
    PROVE  Matches(payload, Cond(key, any)) <=> payload[key] \cap any # {}
  BY DEF Matches, Cond

\* The conditions of the filter, one by one.
LEMMA FilterConditions ==
    ASSUME NEW ctx, NEW corpus, NEW payload
    PROVE  Accepts(build_access_filter(ctx, corpus), payload) <=>
             /\ payload["tenant_id"] \cap {ctx.tenant_id} # {}
             /\ payload["corpus_id"] \cap {corpus} # {}
             /\ payload["status"] \cap {"active"} # {}
             /\ payload["deprecated"] \cap {"no"} # {}
             /\ payload["security_level"] \cap ctx.levels # {}
             /\ \/ payload["acl_scope"] \cap {"tenant"} # {}
                \/ payload["allowed_user_ids"] \cap {ctx.user_id} # {}
                \/ ctx.groups # {} /\ payload["allowed_group_ids"] \cap ctx.groups # {}
             /\ payload["denied_user_ids"] \cap {ctx.user_id} = {}
             /\ ctx.groups # {} => payload["denied_group_ids"] \cap ctx.groups = {}
  <1> DEFINE scope == {Cond("acl_scope", {"tenant"}), Cond("allowed_user_ids", {ctx.user_id})}
                          \cup GroupCond(ctx, "allowed_group_ids")
             denied == {Cond("denied_user_ids", {ctx.user_id})}
                          \cup GroupCond(ctx, "denied_group_ids")
             must == {{Cond("tenant_id", {ctx.tenant_id})}, {Cond("corpus_id", {corpus})},
                      {Cond("status", {"active"})}, {Cond("deprecated", {"no"})},
                      {Cond("security_level", ctx.levels)}, scope}
  <1>1. Accepts(build_access_filter(ctx, corpus), payload) <=>
            /\ \A alternatives \in must : \E cond \in alternatives : Matches(payload, cond)
            /\ \A cond \in denied : ~Matches(payload, cond)
    BY DEF Accepts, build_access_filter
  <1>2. (\E cond \in scope : Matches(payload, cond)) <=>
            \/ payload["acl_scope"] \cap {"tenant"} # {}
            \/ payload["allowed_user_ids"] \cap {ctx.user_id} # {}
            \/ ctx.groups # {} /\ payload["allowed_group_ids"] \cap ctx.groups # {}
    <2>1. (\E cond \in scope : Matches(payload, cond)) <=>
              \/ Matches(payload, Cond("acl_scope", {"tenant"}))
              \/ Matches(payload, Cond("allowed_user_ids", {ctx.user_id}))
              \/ ctx.groups # {} /\ Matches(payload, Cond("allowed_group_ids", ctx.groups))
      BY Zenon DEF GroupCond
    <2> QED BY <2>1, MatchesAny
  <1>3. (\A cond \in denied : ~Matches(payload, cond)) <=>
            /\ payload["denied_user_ids"] \cap {ctx.user_id} = {}
            /\ ctx.groups # {} => payload["denied_group_ids"] \cap ctx.groups = {}
    <2>1. (\A cond \in denied : ~Matches(payload, cond)) <=>
              /\ ~Matches(payload, Cond("denied_user_ids", {ctx.user_id}))
              /\ ctx.groups # {} => ~Matches(payload, Cond("denied_group_ids", ctx.groups))
      BY Zenon DEF GroupCond
    <2> QED BY <2>1, MatchesAny
  <1>4. (\A alternatives \in must : \E cond \in alternatives : Matches(payload, cond)) <=>
            /\ Matches(payload, Cond("tenant_id", {ctx.tenant_id}))
            /\ Matches(payload, Cond("corpus_id", {corpus}))
            /\ Matches(payload, Cond("status", {"active"}))
            /\ Matches(payload, Cond("deprecated", {"no"}))
            /\ Matches(payload, Cond("security_level", ctx.levels))
            /\ \E cond \in scope : Matches(payload, cond)
    <2> HIDE DEF scope
    <2> QED OBVIOUS
  <1> HIDE DEF must, scope, denied
  <1> QED BY <1>1, <1>2, <1>3, <1>4, MatchesAny

\* A search with the filter of build_access_filter finds a point exactly when the
\* point is visible, is in the corpus, and the policy would let the principal
\* read it: what filter.py compiles is what policy.py decides.
THEOREM FilterIsPolicy ==
    ASSUME NEW ctx, Principal(ctx), NEW acl, ResourceAcl(acl),
           NEW corpus, NEW there, NEW status, NEW deprecated
    PROVE  Found(ctx, corpus, Payload(there, status, deprecated, acl)) <=>
             /\ there = corpus
             /\ resource_passes_filter(ctx, acl, status, deprecated)
  <1> DEFINE payload == Payload(there, status, deprecated, acl)
  <1>1. /\ payload["tenant_id"] = {acl.tenant_id} /\ payload["corpus_id"] = {there}
        /\ payload["status"] = {status} /\ payload["deprecated"] = {deprecated}
        /\ payload["security_level"] = {acl.security_level}
        /\ payload["acl_scope"] = {acl.acl_scope}
        /\ payload["allowed_user_ids"] = acl.allowed_user_ids
        /\ payload["allowed_group_ids"] = acl.allowed_group_ids
        /\ payload["denied_user_ids"] = acl.denied_user_ids
        /\ payload["denied_group_ids"] = acl.denied_group_ids
    BY DEF Payload
  <1> HIDE DEF payload
  <1>2. Accepts(build_access_filter(ctx, corpus), payload) <=>
            /\ acl.tenant_id = ctx.tenant_id /\ there = corpus
            /\ status = "active" /\ deprecated = "no"
            /\ acl.security_level \in ctx.levels
            /\ acl.acl_scope = "tenant" \/ Named(ctx, acl)
            /\ ~Denied(ctx, acl)
    BY <1>1, FilterConditions DEF Named, Denied
  <1>3. resource_passes_filter(ctx, acl, status, deprecated) <=>
            /\ status = "active" /\ deprecated = "no"
            /\ ctx.tenant_id = acl.tenant_id
            /\ ~Denied(ctx, acl)
            /\ acl.security_level \in ctx.levels
            /\ acl.acl_scope = "tenant" \/ Named(ctx, acl)
    BY DEF resource_passes_filter, evaluate_access
  <1> QED BY <1>2, <1>3 DEF Found, payload

\* Whoever is cleared for a level is cleared for those below it.
Cleared(ctx) ==
    \A high \in ctx.levels, low \in STRING :
        _security_level_rank(low) <= _security_level_rank(high) => low \in ctx.levels

\* What tighten_acl accepts as a tightening takes access away and gives none:
\* whoever may read under the new ACL could read under the old one, provided
\* that clearances go downwards (is_acl_tightening compares the ranks of levels,
\* the policy looks a level up in a list).
THEOREM TighteningNeverWidens ==
    ASSUME NEW ctx, Principal(ctx), Cleared(ctx),
           NEW old, ResourceAcl(old), NEW new, ResourceAcl(new),
           old.tenant_id = new.tenant_id,
           is_acl_tightening(old, new), evaluate_access(ctx, new)
    PROVE  evaluate_access(ctx, old)
  <1>1. ~Denied(ctx, old)
    BY DEF evaluate_access, is_acl_tightening, Denied
  <1>2. old.security_level \in ctx.levels
    BY DEF evaluate_access, is_acl_tightening, Cleared, ResourceAcl
  <1>3. old.acl_scope = "tenant" \/ Named(ctx, old)
    BY DEF evaluate_access, is_acl_tightening, Named, ResourceAcl
  <1> QED BY <1>1, <1>2, <1>3 DEF evaluate_access
=============================================================================
