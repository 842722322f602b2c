------------------------------- MODULE Sandbox -------------------------------
(***************************************************************************)
(* The plugin sandbox of src/src/sandbox.rs: capability tokens with a      *)
(* lifetime, the syscall list and the resource limits.                     *)
(*                                                                         *)
(* The caller passes the step at every call, so steps need not grow from   *)
(* one call to the next.  The variables standing and fresh are history:    *)
(* nothing in the code depends on them.                                    *)
(***************************************************************************)
EXTENDS Integers

CONSTANTS
    Plugins,         \* plugin identifiers a caller may name
    BlankPlugin,     \* one identifier that trims to the empty string
    Capabilities,    \* Capability
    Steps,           \* the now_step values: a subset of the u64 range
    Ttls,            \* the ttl_steps values: a subset of the u64 range
    Seeds,           \* the seeds of a grant
    Fnv64(_),        \* fnv64_hex of the text "plugin|now|ttl|seed"
    Syscalls,        \* names of system calls
    Configs,         \* the SandboxConfig values a caller may pass
    Usages,          \* the ResourceUsage values a caller may report
    Word,            \* 2^64 in the code: one more than the largest u64
    Builds           \* of "debug", where u64 overflow panics, and "release", where it wraps

U64 == 0 .. (Word - 1)

ASSUME WordAssumption == Word \in Nat /\ Word > 1
ASSUME StepsAssumption == Steps \subseteq U64 /\ Ttls \subseteq U64
ASSUME BuildsAssumption == Builds \subseteq {"debug", "release"}
ASSUME ConfigsAssumption ==
    Configs \subseteq [allowed_syscalls : SUBSET Syscalls, max_memory_bytes : U64,
                       max_cpu_millis : U64]
ASSUME UsagesAssumption == Usages \subseteq [memory_bytes : U64, cpu_millis : U64]

VARIABLES
    config,        \* Option<SandboxConfig>: empty or one configuration
    tokens,        \* BTreeMap<String, CapabilityToken>: its values
    plugin_usage,  \* BTreeMap<String, ResourceUsage>: its [plugin, usage] pairs
    response,      \* what the last call returned
    standing,      \* history: the last grant of each request not revoked since
    fresh          \* history: plugins with usage recorded since the last configure

vars == <<config, tokens, plugin_usage, response, standing, fresh>>

\* Variant: the id leaves out the lifetime.
token_idNoTtl(plugin, now, ttl, seed) == Fnv64(<<plugin, now, 0, seed>>)

\* The text hashed ends in three numbers, so it tells any two requests apart; the
\* capabilities are not part of it.
token_id(plugin, now, ttl, seed) == Fnv64(<<plugin, now, ttl, seed>>)
TokenIds == {token_id(p, n, t, s) : p \in Plugins, n \in Steps, t \in Ttls, s \in Seeds}

\* u64 addition as each build performs it.  A sum that panics changes nothing, so the
\* behaviours of both builds together are those of the second with calls that fail.
AddPanics(a, b) == a + b >= Word /\ "debug" \in Builds
AddReturns(a, b) == a + b >= Word => "release" \in Builds
AddU64(a, b) == IF a + b < Word THEN a + b ELSE a + b - Word

\* Variant: the first token of an id stays.
InsertedFirst(map, token) ==
    IF \E t \in map : t.token_id = token.token_id THEN map ELSE map \cup {token}
\* BTreeMap::insert and BTreeMap::remove.
Without(map, id) == {t \in map : t.token_id # id}
Inserted(map, token) == Without(map, token.token_id) \cup {token}

Respond(op, result) == response' = [op |-> op, result |-> result]

Init ==
    /\ config = {}
    /\ tokens = {}
    /\ plugin_usage = {}
    /\ response = [op |-> "default", result |-> "Ok"]
    /\ standing = {}
    /\ fresh = {}

-----------------------------------------------------------------------------
(* Operations.                                                             *)

ValidConfig(c) == c.max_memory_bytes # 0 /\ c.max_cpu_millis # 0

\* Variant: the configuration is stored before it is checked.
configureUnchecked(c) ==
    /\ config' = {c}
    /\ fresh' = IF ValidConfig(c) THEN {} ELSE fresh
    /\ Respond("configure", IF ValidConfig(c) THEN "Ok" ELSE "InvalidConfig")
    /\ UNCHANGED <<tokens, plugin_usage, standing>>

\* Usage recorded so far is kept, whatever the new limits.
configure(c) ==
    /\ \/ /\ ~ValidConfig(c)
          /\ Respond("configure", "InvalidConfig")
          /\ UNCHANGED <<config, fresh>>
       \/ /\ ValidConfig(c)
          /\ config' = {c}
          /\ fresh' = {}
          /\ Respond("configure", "Ok")
    /\ UNCHANGED <<tokens, plugin_usage, standing>>

SameRequest(g, plugin, now, ttl, seed) ==
    g.plugin_id = plugin /\ g.now = now /\ g.ttl = ttl /\ g.seed = seed

\* The map is written last, after the sum that may panic.
grant_capabilities(plugin, caps, now, ttl, seed) ==
    /\ \/ /\ plugin = BlankPlugin \/ ttl = 0
          /\ Respond("grant_capabilities", "InvalidInput")
          /\ UNCHANGED <<tokens, standing>>
       \/ /\ plugin # BlankPlugin /\ ttl # 0
          /\ AddPanics(now, ttl)
          /\ Respond("grant_capabilities", "panic")
          /\ UNCHANGED <<tokens, standing>>
       \/ /\ plugin # BlankPlugin /\ ttl # 0
          /\ AddReturns(now, ttl)
          /\ tokens' = Inserted(tokens,
                [token_id |-> token_id(plugin, now, ttl, seed), plugin_id |-> plugin,
                 capabilities |-> caps, issued_step |-> now, expires_step |-> AddU64(now, ttl)])
          /\ standing' = {g \in standing : ~SameRequest(g, plugin, now, ttl, seed)}
                \cup {[token_id |-> token_id(plugin, now, ttl, seed), plugin_id |-> plugin,
                       capabilities |-> caps, now |-> now, ttl |-> ttl, seed |-> seed]}
          /\ Respond("grant_capabilities", "Ok")
    /\ UNCHANGED <<config, plugin_usage, fresh>>

\* The four refusals of validate_capability are all SandboxDenied.
Validates(id, plugin, cap, step) ==
    \E t \in tokens :
        /\ t.token_id = id
        /\ t.plugin_id = plugin
        /\ step <= t.expires_step
        /\ cap \in t.capabilities

validate_capability(id, plugin, cap, step) ==
    /\ Respond("validate_capability",
               IF Validates(id, plugin, cap, step) THEN "Ok" ELSE "SandboxDenied")
    /\ UNCHANGED <<config, tokens, plugin_usage, standing, fresh>>

validate_syscall(syscall) ==
    /\ \/ config = {} /\ Respond("validate_syscall", "InvalidState")
       \/ \E c \in config :
             Respond("validate_syscall",
                     IF syscall \in c.allowed_syscalls THEN "Ok" ELSE "SandboxDenied")
    /\ UNCHANGED <<config, tokens, plugin_usage, standing, fresh>>

Within(usage, c) ==
    usage.memory_bytes <= c.max_memory_bytes /\ usage.cpu_millis <= c.max_cpu_millis

\* The plugin id is not checked here.
record_usage(plugin, usage) ==
    /\ \/ /\ config = {}
          /\ Respond("record_usage", "InvalidState")
          /\ UNCHANGED <<plugin_usage, fresh>>
       \/ /\ \E c \in config : ~Within(usage, c)
          /\ Respond("record_usage", "SandboxDenied")
          /\ UNCHANGED <<plugin_usage, fresh>>
       \/ /\ \E c \in config : Within(usage, c)
          /\ plugin_usage' = {u \in plugin_usage : u.plugin_id # plugin}
                                \cup {[plugin_id |-> plugin, usage |-> usage]}
          /\ fresh' = fresh \cup {plugin}
          /\ Respond("record_usage", "Ok")
    /\ UNCHANGED <<config, tokens, standing>>

revoke_token(id) ==
    /\ tokens' = Without(tokens, id)
    /\ standing' = Without(standing, id)
    /\ Respond("revoke_token", "Ok")
    /\ UNCHANGED <<config, plugin_usage, fresh>>

Next ==
    \/ \E c \in Configs : configure(c)
    \/ \E plugin \in Plugins, caps \in SUBSET Capabilities, now \in Steps, ttl \in Ttls,
          seed \in Seeds : grant_capabilities(plugin, caps, now, ttl, seed)
    \/ \E id \in TokenIds, plugin \in Plugins, cap \in Capabilities, step \in Steps :
          validate_capability(id, plugin, cap, step)
    \/ \E syscall \in Syscalls : validate_syscall(syscall)
    \/ \E plugin \in Plugins, usage \in Usages : record_usage(plugin, usage)
    \/ \E id \in TokenIds : revoke_token(id)

Spec == Init /\ [][Next]_vars

-----------------------------------------------------------------------------
(* Properties.                                                             *)

\* Whatever fnv64 maps to one id: a capability is honoured only if the last grant of
\* some request under that id gave it to that plugin, no revocation of the id came
\* after that grant, and the step is within issue step plus lifetime counted in
\* unbounded integers (a u64 sum that wraps ends a token early, never late).
NoCapabilityOutlivesGrant ==
    \A id \in TokenIds, plugin \in Plugins, cap \in Capabilities, step \in Steps :
        Validates(id, plugin, cap, step)
        => \E g \in standing :
              /\ g.token_id = id
              /\ g.plugin_id = plugin
              /\ cap \in g.capabilities
              /\ step <= g.now + g.ttl

\* fnv64 tells the request of grant g from all others.
OwnHash(g) ==
    \A plugin \in Plugins, now \in Steps, ttl \in Ttls, seed \in Seeds :
        Fnv64(<<plugin, now, ttl, seed>>) = Fnv64(<<g.plugin_id, g.now, g.ttl, g.seed>>)
        => SameRequest(g, plugin, now, ttl, seed)

\* If fnv64 tells a request from all others, a plugin keeps what the last grant of it
\* gave through the last step of the lifetime, whatever else is granted or revoked;
\* only a lifetime that does not fit in a u64 ends earlier.
GrantIsServed ==
    \A g \in standing, step \in Steps :
        OwnHash(g) /\ g.now + g.ttl < Word /\ step <= g.now + g.ttl
        => \A cap \in g.capabilities : Validates(g.token_id, g.plugin_id, cap, step)

\* A plugin whose usage was recorded after the last accepted configuration is within
\* the limits in force: usage above the limits is always older than they are, and a
\* rejected configuration does not disturb them.
FreshUsageWithinLimits ==
    \A u \in plugin_usage :
        u.plugin_id \in fresh => \E c \in config : ValidConfig(c) /\ Within(u.usage, c)
==============================================================================
