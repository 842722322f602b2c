\* Grants, lifetimes and revocation with and without collisions of fnv64, and
\* configurations and recorded usage, in any order; u64 sums panic or wrap.  A grant at
\* step 0 for 2 steps has its last step at 2.
SPECIFICATION Spec
CONSTANTS
    p1 = p1
    p2 = p2
    blank = blank
    Plugins = {p1, p2, blank}
    BlankPlugin = blank
    Capabilities = {"Network"}
    Steps = {0, 2}
    Ttls = {0, 1, 2}
    Seeds = {7}
    Fnv64 <- MCFnv64
    Syscalls = {"read"}
    Configs <- MCConfigs
    Usages <- MCUsages
    Word = 4
    Builds = {"debug", "release"}
VIEW MCView
CONSTRAINT MCOneAtATime
INVARIANTS GrantIsServed NoCapabilityOutlivesGrant FreshUsageWithinLimits
