---------------------------- MODULE AccessControl ----------------------------
(***************************************************************************)
(* Role, tenant and tier checks of src/src/access_control.rs.  The checks  *)
(* are queries: authorize and authorized_tiers take &self and keep nothing *)
(* of a decision, so they are operators on the state the setters leave.    *)
(***************************************************************************)
CONSTANTS
    Roles, Tenants,  \* role names and tenant ids
    BlankTenant,     \* a tenant id that trims to the empty string
    Actions,         \* Action
    Tiers,           \* TierId
    NoTier,          \* None in the place of a tier
    TierPolicies     \* TierPolicy without its tier: the policies a caller may set

VARIABLES
    action_roles,   \* action -> the set of its entry: empty or one set of roles
    tier_policies   \* tier -> the set of its entry: empty or one policy

vars == <<action_roles, tier_policies>>

\* A principal is its tenant and its roles; a blank id is treated as a blank tenant.
Principals == [tenant_id : Tenants, roles : SUBSET Roles]

\* Variant: every role of the principal must be listed.
HasAll(principal, roles) == principal.roles \subseteq roles

\* Iterator::any over the principal's roles.
HasRole(principal, roles) == principal.roles \cap roles # {}

\* An action without an entry is open to everyone.
MayAct(principal, action) == \A roles \in action_roles[action] : HasRole(principal, roles)

Plain(kind) == [kind |-> kind, to_tier |-> NoTier]

\* The answer for a tenant or a role that is not allowed.
Refusal(policy) ==
    IF policy.downgrade_tier = NoTier THEN Plain("Deny")
    ELSE [kind |-> "Downgrade", to_tier |-> policy.downgrade_tier]

authorize(principal, action, tier) ==
    IF principal.tenant_id = BlankTenant THEN Plain("InvalidInput")
    ELSE IF ~MayAct(principal, action) THEN Plain("Deny")
    ELSE IF tier = NoTier THEN Plain("Allow")
    ELSE IF tier_policies[tier] = {} THEN Plain("Unauthorized")
    ELSE LET policy == CHOOSE p \in tier_policies[tier] : TRUE
         IN  IF principal.tenant_id \notin policy.allowed_tenants THEN Refusal(policy)
             ELSE IF ~HasRole(principal, policy.allowed_roles) THEN Refusal(policy)
             ELSE Plain("Allow")

\* Variant: the tenant is enough.
authorized_tiersByTenant(principal) ==
    {tier \in Tiers : \E policy \in tier_policies[tier] :
                          principal.tenant_id \in policy.allowed_tenants}

authorized_tiers(principal) ==
    {tier \in Tiers : \E policy \in tier_policies[tier] :
                          /\ principal.tenant_id \in policy.allowed_tenants
                          /\ HasRole(principal, policy.allowed_roles)}

-----------------------------------------------------------------------------
(* Operations.                                                             *)

Init ==
    /\ action_roles = [a \in Actions |-> {}]
    /\ tier_policies = [t \in Tiers |-> {}]

set_action_roles(action, roles) ==
    /\ action_roles' = [action_roles EXCEPT ![action] = {roles}]
    /\ UNCHANGED tier_policies

\* A later policy of a tier replaces the earlier one.
set_tier_policy(tier, policy) ==
    /\ tier_policies' = [tier_policies EXCEPT ![tier] = {policy}]
    /\ UNCHANGED action_roles

Next ==
    \/ \E action \in Actions, roles \in SUBSET Roles : set_action_roles(action, roles)
    \/ \E tier \in Tiers, policy \in TierPolicies : set_tier_policy(tier, policy)

Spec == Init /\ [][Next]_vars

-----------------------------------------------------------------------------
(* Properties.                                                             *)

\* The two ways to ask agree: a tier is allowed exactly when it is listed, given a
\* valid principal that may act; the listing checks neither of those two.
ListedIsAllowed ==
    \A principal \in Principals, action \in Actions, tier \in Tiers :
        authorize(principal, action, tier) = Plain("Allow")
        <=> /\ principal.tenant_id # BlankTenant
            /\ MayAct(principal, action)
            /\ tier \in authorized_tiers(principal)

\* Another role never takes a permission away: what is allowed stays allowed, and
\* what was sent to another tier is not denied.
RolesOnlyHelp ==
    \A principal \in Principals, role \in Roles, action \in Actions, tier \in Tiers \cup {NoTier} :
        LET more == [principal EXCEPT !.roles = principal.roles \cup {role}]
            before == authorize(principal, action, tier).kind
            after == authorize(more, action, tier).kind
        IN  /\ before = "Allow" => after = "Allow"
            /\ before = "Downgrade" => after \in {"Allow", "Downgrade"}
==============================================================================
