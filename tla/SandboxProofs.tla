---------------------------- MODULE SandboxProofs ----------------------------
(***************************************************************************)
(* Proofs about the sandbox: what a token is worth, for every hash, every  *)
(* word size and both builds; what a grant is worth when no other request  *)
(* has its hash; and what the resource limits bound.                       *)
(***************************************************************************)
EXTENDS Sandbox, TLAPS

Grant == [token_id : TokenIds, plugin_id : Plugins, capabilities : SUBSET Capabilities,
          now : Steps, ttl : Ttls, seed : Seeds]

\* A grant on record carries the id of its request.
GrantsKnowTheirId ==
    \A g \in standing :
        /\ g \in Grant
        /\ g.token_id = token_id(g.plugin_id, g.now, g.ttl, g.seed)

\* Token t is what grant g made.
MadeBy(t, g) ==
    /\ t.token_id = g.token_id
    /\ t.plugin_id = g.plugin_id
    /\ t.capabilities = g.capabilities
    /\ t.expires_step = AddU64(g.now, g.ttl)

\* Every token was made by a grant on record.
TokensWereGranted == \A t \in tokens : \E g \in standing : MadeBy(t, g)

\* Every grant on record whose hash is its own has its token.
GrantsHaveTokens == \A g \in standing : OwnHash(g) => \E t \in tokens : MadeBy(t, g)

\* What grant_capabilities writes.
NewToken(plugin, caps, now, ttl, seed) ==
    [token_id |-> token_id(plugin, now, ttl, seed), plugin_id |-> plugin,
     capabilities |-> caps, issued_step |-> now, expires_step |-> AddU64(now, ttl)]
NewGrant(plugin, caps, now, ttl, seed) ==
    [token_id |-> token_id(plugin, now, ttl, seed), plugin_id |-> plugin,
     capabilities |-> caps, now |-> now, ttl |-> ttl, seed |-> seed]
Granted(plugin, caps, now, ttl, seed) ==
    /\ tokens' = Inserted(tokens, NewToken(plugin, caps, now, ttl, seed))
    /\ standing' = {g \in standing : ~SameRequest(g, plugin, now, ttl, seed)}
                      \cup {NewGrant(plugin, caps, now, ttl, seed)}
RevokedId(id) == tokens' = Without(tokens, id) /\ standing' = Without(standing, id)

\* A step grants, revokes, or leaves tokens and grants alone.
LEMMA TokenStep ==
    ASSUME [Next]_vars
    PROVE  \/ \E plugin \in Plugins, caps \in SUBSET Capabilities, now \in Steps, ttl \in Ttls,
                 seed \in Seeds : Granted(plugin, caps, now, ttl, seed)
           \/ \E id \in TokenIds : RevokedId(id)
           \/ UNCHANGED <<tokens, standing>>
<1>1. CASE UNCHANGED vars
  BY <1>1 DEF vars
<1>2. CASE \E c \in Configs : configure(c)
  BY <1>2 DEF configure
<1>3. CASE \E plugin \in Plugins, caps \in SUBSET Capabilities, now \in Steps, ttl \in Ttls,
              seed \in Seeds : grant_capabilities(plugin, caps, now, ttl, seed)
  <2>1. PICK plugin \in Plugins, caps \in SUBSET Capabilities, now \in Steps, ttl \in Ttls,
             seed \in Seeds : grant_capabilities(plugin, caps, now, ttl, seed)
    BY <1>3
  <2>2. Granted(plugin, caps, now, ttl, seed) \/ UNCHANGED <<tokens, standing>>
    BY <2>1 DEF grant_capabilities, Granted, NewToken, NewGrant
  <2> QED  BY <2>2
<1>4. CASE \E id \in TokenIds, plugin \in Plugins, cap \in Capabilities, step \in Steps :
              validate_capability(id, plugin, cap, step)
  BY <1>4 DEF validate_capability
<1>5. CASE \E syscall \in Syscalls : validate_syscall(syscall)
  BY <1>5 DEF validate_syscall
<1>6. CASE \E plugin \in Plugins, usage \in Usages : record_usage(plugin, usage)
  BY <1>6 DEF record_usage
<1>7. CASE \E id \in TokenIds : revoke_token(id)
  BY <1>7 DEF revoke_token, RevokedId
<1> QED  BY <1>1, <1>2, <1>3, <1>4, <1>5, <1>6, <1>7 DEF Next

\* A grant is recorded under the id of its own request.
LEMMA NewGrantType ==
    ASSUME NEW plugin \in Plugins, NEW caps \in SUBSET Capabilities, NEW now \in Steps,
           NEW ttl \in Ttls, NEW seed \in Seeds
    PROVE  LET g == NewGrant(plugin, caps, now, ttl, seed)
           IN  /\ g \in Grant
               /\ g.token_id = token_id(g.plugin_id, g.now, g.ttl, g.seed)
               /\ MadeBy(NewToken(plugin, caps, now, ttl, seed), g)
<1>1. token_id(plugin, now, ttl, seed) \in TokenIds
  BY DEF TokenIds
<1> QED  BY <1>1 DEF NewGrant, Grant, MadeBy, NewToken

\* Every call keeps grants under the ids of their requests.
LEMMA KnowTheirIdStep ==
    ASSUME GrantsKnowTheirId, [Next]_vars
    PROVE  GrantsKnowTheirId'
<1>1. CASE \E plugin \in Plugins, caps \in SUBSET Capabilities, now \in Steps, ttl \in Ttls,
              seed \in Seeds : Granted(plugin, caps, now, ttl, seed)
  <2>1. PICK plugin \in Plugins, caps \in SUBSET Capabilities, now \in Steps, ttl \in Ttls,
             seed \in Seeds : Granted(plugin, caps, now, ttl, seed)
    BY <1>1
  <2> DEFINE new == NewGrant(plugin, caps, now, ttl, seed)
  <2>2. new \in Grant /\ new.token_id = token_id(new.plugin_id, new.now, new.ttl, new.seed)
    BY NewGrantType
  <2>3. \A g \in standing' : g \in standing \/ g = new
    BY <2>1 DEF Granted
  <2> HIDE DEF new
  <2> QED  BY <2>2, <2>3 DEF GrantsKnowTheirId
<1>2. CASE \E id \in TokenIds : RevokedId(id)
  BY <1>2 DEF RevokedId, Without, GrantsKnowTheirId
<1>3. CASE UNCHANGED <<tokens, standing>>
  BY <1>3 DEF GrantsKnowTheirId
<1> QED  BY <1>1, <1>2, <1>3, TokenStep

\* Every call leaves each token the trace of a grant that stands.
LEMMA WereGrantedStep ==
    ASSUME GrantsKnowTheirId, TokensWereGranted, [Next]_vars
    PROVE  TokensWereGranted'
<1>1. CASE \E plugin \in Plugins, caps \in SUBSET Capabilities, now \in Steps, ttl \in Ttls,
              seed \in Seeds : Granted(plugin, caps, now, ttl, seed)
  <2>1. PICK plugin \in Plugins, caps \in SUBSET Capabilities, now \in Steps, ttl \in Ttls,
             seed \in Seeds : Granted(plugin, caps, now, ttl, seed)
    BY <1>1
  <2> DEFINE token == NewToken(plugin, caps, now, ttl, seed)
             new == NewGrant(plugin, caps, now, ttl, seed)
  <2>2. token.token_id = token_id(plugin, now, ttl, seed)
    BY DEF NewToken
  <2>3. MadeBy(token, new) /\ new \in standing'
    BY <2>1, NewGrantType DEF Granted
  <2>4. ASSUME NEW t \in tokens', t # token
        PROVE  \E g \in standing' : MadeBy(t, g)
    <3>1. t \in tokens /\ t.token_id # token.token_id
      BY <2>1, <2>4 DEF Granted, Inserted, Without
    <3>2. PICK g \in standing : MadeBy(t, g)
      BY <3>1 DEF TokensWereGranted
    <3>3. g.token_id # token_id(plugin, now, ttl, seed)
      BY <2>2, <3>1, <3>2 DEF MadeBy
    <3>4. ~SameRequest(g, plugin, now, ttl, seed)
      BY <3>3 DEF GrantsKnowTheirId, SameRequest
    <3>5. g \in standing'
      BY <2>1, <3>4 DEF Granted
    <3> QED  BY <3>2, <3>5
  <2> QED  BY <2>3, <2>4 DEF TokensWereGranted
<1>2. CASE \E id \in TokenIds : RevokedId(id)
  <2>1. PICK id \in TokenIds : RevokedId(id)
    BY <1>2
  <2>2. ASSUME NEW t \in tokens'
        PROVE  \E g \in standing' : MadeBy(t, g)
    <3>1. t \in tokens /\ t.token_id # id
      BY <2>1, <2>2 DEF RevokedId, Without
    <3>2. PICK g \in standing : MadeBy(t, g)
      BY <3>1 DEF TokensWereGranted
    <3>3. g \in standing'
      BY <2>1, <3>1, <3>2 DEF RevokedId, Without, MadeBy
    <3> QED  BY <3>2, <3>3
  <2> QED  BY <2>2 DEF TokensWereGranted
<1>3. CASE UNCHANGED <<tokens, standing>>
  BY <1>3 DEF TokensWereGranted
<1> QED  BY <1>1, <1>2, <1>3, TokenStep

\* Every call leaves each grant that stands, and whose hash is its own, its token.
LEMMA HaveTokensStep ==
    ASSUME GrantsKnowTheirId, GrantsHaveTokens, [Next]_vars
    PROVE  GrantsHaveTokens'
<1>1. CASE \E plugin \in Plugins, caps \in SUBSET Capabilities, now \in Steps, ttl \in Ttls,
              seed \in Seeds : Granted(plugin, caps, now, ttl, seed)
  <2>1. PICK plugin \in Plugins, caps \in SUBSET Capabilities, now \in Steps, ttl \in Ttls,
             seed \in Seeds : Granted(plugin, caps, now, ttl, seed)
    BY <1>1
  <2> DEFINE token == NewToken(plugin, caps, now, ttl, seed)
             new == NewGrant(plugin, caps, now, ttl, seed)
  <2>2. token.token_id = token_id(plugin, now, ttl, seed)
    BY DEF NewToken
  <2>3. MadeBy(token, new) /\ token \in tokens'
    BY <2>1, NewGrantType DEF Granted, Inserted
  <2>4. ASSUME NEW g \in standing', g # new, OwnHash(g)
        PROVE  \E t \in tokens' : MadeBy(t, g)
    <3>1. g \in standing /\ ~SameRequest(g, plugin, now, ttl, seed)
      BY <2>1, <2>4 DEF Granted
    <3>2. g.token_id # token_id(plugin, now, ttl, seed)
      BY <2>4, <3>1 DEF OwnHash, GrantsKnowTheirId, token_id
    <3>3. PICK t \in tokens : MadeBy(t, g)
      BY <2>4, <3>1 DEF GrantsHaveTokens
    <3>4. t \in tokens'
      BY <2>1, <2>2, <3>2, <3>3 DEF Granted, Inserted, Without, MadeBy
    <3> QED  BY <3>3, <3>4
  <2> QED  BY <2>3, <2>4 DEF GrantsHaveTokens
<1>2. CASE \E id \in TokenIds : RevokedId(id)
  <2>1. PICK id \in TokenIds : RevokedId(id)
    BY <1>2
  <2>2. ASSUME NEW g \in standing', OwnHash(g)
        PROVE  \E t \in tokens' : MadeBy(t, g)
    <3>1. g \in standing /\ g.token_id # id
      BY <2>1, <2>2 DEF RevokedId, Without
    <3>2. PICK t \in tokens : MadeBy(t, g)
      BY <2>2, <3>1 DEF GrantsHaveTokens
    <3>3. t \in tokens'
      BY <2>1, <3>1, <3>2 DEF RevokedId, Without, MadeBy
    <3> QED  BY <3>2, <3>3
  <2> QED  BY <2>2 DEF GrantsHaveTokens
<1>3. CASE UNCHANGED <<tokens, standing>>
  BY <1>3 DEF GrantsHaveTokens
<1> QED  BY <1>1, <1>2, <1>3, TokenStep

\* A u64 sum never exceeds the integer sum, and equals it where it fits.
LEMMA SumFits ==
    ASSUME NEW n \in Steps, NEW t \in Ttls
    PROVE  /\ n \in Nat /\ t \in Nat /\ Word \in Nat
           /\ AddU64(n, t) <= n + t
           /\ n + t < Word => AddU64(n, t) = n + t
  BY WordAssumption, StepsAssumption DEF U64, AddU64

\* Every reachable token table honours only what stands granted: the sandbox never
\* leaves a plugin more than its grants, for every hash, in both builds.
THEOREM TokensGiveNoMore == Spec => []NoCapabilityOutlivesGrant
<1>1. Init => GrantsKnowTheirId /\ TokensWereGranted
  BY DEF Init, GrantsKnowTheirId, TokensWereGranted
<1>2. GrantsKnowTheirId /\ TokensWereGranted /\ [Next]_vars
      => GrantsKnowTheirId' /\ TokensWereGranted'
  BY KnowTheirIdStep, WereGrantedStep
<1>3. GrantsKnowTheirId /\ TokensWereGranted => NoCapabilityOutlivesGrant
  <2> SUFFICES ASSUME GrantsKnowTheirId, TokensWereGranted,
                      NEW id \in TokenIds, NEW plugin \in Plugins, NEW cap \in Capabilities,
                      NEW step \in Steps, Validates(id, plugin, cap, step)
               PROVE  \E g \in standing : /\ g.token_id = id /\ g.plugin_id = plugin
                                          /\ cap \in g.capabilities /\ step <= g.now + g.ttl
    BY DEF NoCapabilityOutlivesGrant
  <2>1. PICK t \in tokens : /\ t.token_id = id /\ t.plugin_id = plugin
                            /\ step <= t.expires_step /\ cap \in t.capabilities
    BY DEF Validates
  <2>2. PICK g \in standing : MadeBy(t, g)
    BY DEF TokensWereGranted
  <2>3. g.now \in Steps /\ g.ttl \in Ttls
    BY DEF GrantsKnowTheirId, Grant
  <2>4. /\ g.now \in Nat /\ g.ttl \in Nat /\ step \in Nat
        /\ AddU64(g.now, g.ttl) <= g.now + g.ttl
    BY <2>3, SumFits, StepsAssumption DEF U64
  <2>5. AddU64(g.now, g.ttl) \in Int
    BY <2>4, WordAssumption DEF AddU64
  <2>6. step <= g.now + g.ttl
    BY <2>1, <2>2, <2>4, <2>5 DEF MadeBy
  <2> QED  BY <2>1, <2>2, <2>6 DEF MadeBy
<1> QED  BY <1>1, <1>2, <1>3, PTL DEF Spec

\* Every grant on record whose request fnv64 tells from all others is honoured through
\* the last step of its lifetime.
THEOREM GrantsAreServed == Spec => []GrantIsServed
<1>1. Init => GrantsKnowTheirId /\ GrantsHaveTokens
  BY DEF Init, GrantsKnowTheirId, GrantsHaveTokens
<1>2. GrantsKnowTheirId /\ GrantsHaveTokens /\ [Next]_vars
      => GrantsKnowTheirId' /\ GrantsHaveTokens'
  BY KnowTheirIdStep, HaveTokensStep
<1>3. GrantsKnowTheirId /\ GrantsHaveTokens => GrantIsServed
  <2> SUFFICES ASSUME GrantsKnowTheirId, GrantsHaveTokens,
                      NEW g \in standing, NEW step \in Steps, OwnHash(g),
                      g.now + g.ttl < Word, step <= g.now + g.ttl, NEW cap \in g.capabilities
               PROVE  Validates(g.token_id, g.plugin_id, cap, step)
    BY DEF GrantIsServed
  <2>1. PICK t \in tokens : MadeBy(t, g)
    BY DEF GrantsHaveTokens
  <2>2. g.now \in Steps /\ g.ttl \in Ttls
    BY DEF GrantsKnowTheirId, Grant
  <2>3. AddU64(g.now, g.ttl) = g.now + g.ttl
    BY <2>2, SumFits
  <2> QED  BY <2>1, <2>3 DEF MadeBy, Validates
<1> QED  BY <1>1, <1>2, <1>3, PTL DEF Spec

\* The configuration in force is one configure accepted.
ConfigIsValid == \A c \in config : ValidConfig(c)

\* Usage recorded since the last accepted configuration is within the limits in force.
THEOREM LimitsHold == Spec => []FreshUsageWithinLimits
<1> DEFINE Inv == ConfigIsValid /\ FreshUsageWithinLimits
<1>1. Init => Inv
  BY DEF Init, ConfigIsValid, FreshUsageWithinLimits
<1>2. Inv /\ [Next]_vars => Inv'
  <2> SUFFICES ASSUME Inv, [Next]_vars PROVE Inv'
    OBVIOUS
  <2>1. CASE UNCHANGED <<config, plugin_usage, fresh>>
    BY <2>1 DEF ConfigIsValid, FreshUsageWithinLimits
  <2>2. ASSUME NEW c \in Configs, configure(c) PROVE Inv'
    BY <2>1, <2>2 DEF configure, ConfigIsValid, FreshUsageWithinLimits
  <2>3. ASSUME NEW plugin \in Plugins, NEW usage \in Usages, record_usage(plugin, usage)
        PROVE  Inv'
    <3>1. CASE UNCHANGED <<plugin_usage, fresh>>
      BY <2>1, <2>3, <3>1 DEF record_usage
    <3>2. CASE /\ \E c \in config : Within(usage, c)
               /\ plugin_usage' = {u \in plugin_usage : u.plugin_id # plugin}
                                     \cup {[plugin_id |-> plugin, usage |-> usage]}
               /\ fresh' = fresh \cup {plugin}
      <4>1. config' = config
        BY <2>3 DEF record_usage
      <4>2. ASSUME NEW u \in plugin_usage', u.plugin_id \in fresh'
            PROVE  \E c \in config : ValidConfig(c) /\ Within(u.usage, c)
        <5>1. CASE u = [plugin_id |-> plugin, usage |-> usage]
          BY <3>2, <5>1 DEF ConfigIsValid
        <5>2. CASE u \in plugin_usage /\ u.plugin_id # plugin
          BY <3>2, <4>2, <5>2 DEF FreshUsageWithinLimits
        <5> QED  BY <3>2, <4>2, <5>1, <5>2
      <4> QED  BY <4>1, <4>2 DEF ConfigIsValid, FreshUsageWithinLimits, ValidConfig, Within
    <3> QED  BY <2>3, <3>1, <3>2 DEF record_usage
  <2>4. ASSUME NEW plugin \in Plugins, NEW caps \in SUBSET Capabilities, NEW now \in Steps,
               NEW ttl \in Ttls, NEW seed \in Seeds,
               grant_capabilities(plugin, caps, now, ttl, seed)
        PROVE  UNCHANGED <<config, plugin_usage, fresh>>
    BY <2>4 DEF grant_capabilities
  <2>5. ASSUME NEW id \in TokenIds, NEW plugin \in Plugins, NEW cap \in Capabilities,
               NEW step \in Steps, validate_capability(id, plugin, cap, step)
        PROVE  UNCHANGED <<config, plugin_usage, fresh>>
    BY <2>5 DEF validate_capability
  <2>6. ASSUME NEW syscall \in Syscalls, validate_syscall(syscall)
        PROVE  UNCHANGED <<config, plugin_usage, fresh>>
    BY <2>6 DEF validate_syscall
  <2>7. ASSUME NEW id \in TokenIds, revoke_token(id)
        PROVE  UNCHANGED <<config, plugin_usage, fresh>>
    BY <2>7 DEF revoke_token
  <2>8. CASE UNCHANGED vars
    BY <2>1, <2>8 DEF vars
  <2> HIDE DEF Inv
  <2> QED  BY <2>1, <2>2, <2>3, <2>4, <2>5, <2>6, <2>7, <2>8 DEF Next
<1>3. Inv => FreshUsageWithinLimits
  OBVIOUS
<1> QED  BY <1>1, <1>2, <1>3, PTL DEF Spec
==============================================================================
