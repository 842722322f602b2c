----------------------------- MODULE PartsProofs -----------------------------
(***************************************************************************)
(* Proofs about the parts of the crate that share no state with another    *)
(* part: access control, zeroization, compliance, hardening, the hex codec *)
(* and fnv64, each for every value of its constants.                       *)
(***************************************************************************)
EXTENDS Parts, FiniteSetTheorems, TLAPS

-----------------------------------------------------------------------------
(* Access control.                                                         *)

\* A set that holds at most one element: an entry of a map.
Entry(e) == \A x, y \in e : x = y

\* Every tier has at most one policy.
PolicyInv ==
    /\ DOMAIN tier_policies = Tiers
    /\ \A t \in Tiers : Entry(tier_policies[t])

\* Setting a policy replaces the one before; no other step touches policies.
LEMMA PolicyStep ==
    ASSUME PolicyInv, [A!Next]_(A!vars)
    PROVE  PolicyInv'
<1>1. ASSUME NEW tier \in Tiers, NEW policy, A!set_tier_policy(tier, policy) PROVE PolicyInv'
  BY <1>1 DEF A!set_tier_policy, PolicyInv, Entry
<1>2. CASE UNCHANGED tier_policies
  BY <1>2 DEF PolicyInv, Entry
<1> QED BY <1>1, <1>2 DEF A!Next, A!vars, A!set_action_roles

\* The invariant holds in every reachable state.
THEOREM PolicyInvariant == A!Spec => []PolicyInv
<1>1. A!Init => PolicyInv
  BY DEF A!Init, PolicyInv, Entry
<1> QED BY <1>1, PolicyStep, PTL DEF A!Spec

\* authorize reads the one policy of the tier.
LEMMA AuthorizeIs ==
    ASSUME PolicyInv, NEW principal, NEW action, NEW tier \in Tiers,
           NEW policy \in tier_policies[tier]
    PROVE  A!authorize(principal, action, tier) =
             IF principal.tenant_id = BlankTenant THEN A!Plain("InvalidInput")
             ELSE IF ~A!MayAct(principal, action) THEN A!Plain("Deny")
             ELSE IF principal.tenant_id \notin policy.allowed_tenants THEN A!Refusal(policy)
             ELSE IF ~A!HasRole(principal, policy.allowed_roles) THEN A!Refusal(policy)
             ELSE A!Plain("Allow")
<1>1. (CHOOSE p \in tier_policies[tier] : TRUE) = policy
  BY DEF PolicyInv, Entry
<1>2. tier # NoTier /\ tier_policies[tier] # {}
  BY TiersAssumption
<1> QED BY <1>1, <1>2 DEF A!authorize

\* A refusal is not an answer of another kind.
LEMMA RefusalIs ==
    ASSUME NEW policy
    PROVE  /\ A!Refusal(policy).kind \in {"Deny", "Downgrade"}
           /\ A!Refusal(policy).kind = "Deny" <=> policy.downgrade_tier = NoTier
BY DEF A!Refusal, A!Plain

\* When authorize allows a tier, and when it sends the caller to another.
LEMMA AuthorizeKind ==
    ASSUME PolicyInv, NEW principal, NEW action, NEW tier \in Tiers,
           NEW policy \in tier_policies[tier]
    PROVE  /\ A!authorize(principal, action, tier).kind = "Allow"
              <=> /\ principal.tenant_id # BlankTenant /\ A!MayAct(principal, action)
                  /\ principal.tenant_id \in policy.allowed_tenants
                  /\ A!HasRole(principal, policy.allowed_roles)
           /\ A!authorize(principal, action, tier).kind = "Downgrade"
              <=> /\ principal.tenant_id # BlankTenant /\ A!MayAct(principal, action)
                  /\ ~(/\ principal.tenant_id \in policy.allowed_tenants
                       /\ A!HasRole(principal, policy.allowed_roles))
                  /\ policy.downgrade_tier # NoTier
<1>1. /\ A!Plain("InvalidInput").kind = "InvalidInput" /\ A!Plain("Deny").kind = "Deny"
      /\ A!Plain("Allow").kind = "Allow"
  BY DEF A!Plain
<1> QED BY <1>1, AuthorizeIs, RefusalIs

\* authorize allows a tier exactly when authorized_tiers lists it, of a valid principal
\* that may act: the two functions of access_control.rs that read the policies agree.
THEOREM AllowedIsListed == A!Spec => []ListedIsAllowed
<1>1. PolicyInv => ListedIsAllowed
  <2> SUFFICES ASSUME PolicyInv, NEW principal \in A!Principals, NEW action \in Actions,
                      NEW tier \in Tiers
               PROVE  A!authorize(principal, action, tier) = A!Plain("Allow")
                      <=> /\ principal.tenant_id # BlankTenant
                          /\ A!MayAct(principal, action)
                          /\ tier \in A!authorized_tiers(principal)
    BY DEF ListedIsAllowed, A!ListedIsAllowed
  <2>1. CASE tier_policies[tier] = {}
    <3>1. A!authorize(principal, action, tier).kind # "Allow"
      BY <2>1, TiersAssumption DEF A!authorize, A!Plain
    <3>2. tier \notin A!authorized_tiers(principal)
      BY <2>1 DEF A!authorized_tiers
    <3> QED BY <3>1, <3>2 DEF A!Plain
  <2>2. ASSUME NEW policy \in tier_policies[tier]
        PROVE  A!authorize(principal, action, tier) = A!Plain("Allow")
               <=> /\ principal.tenant_id # BlankTenant
                   /\ A!MayAct(principal, action)
                   /\ tier \in A!authorized_tiers(principal)
    <3>1. tier \in A!authorized_tiers(principal)
          <=> /\ principal.tenant_id \in policy.allowed_tenants
              /\ A!HasRole(principal, policy.allowed_roles)
      BY DEF A!authorized_tiers, PolicyInv, Entry
    <3>2. /\ A!Refusal(policy) # A!Plain("Allow")
          /\ A!Plain("InvalidInput") # A!Plain("Allow") /\ A!Plain("Deny") # A!Plain("Allow")
      BY RefusalIs DEF A!Plain
    <3> QED BY <3>1, <3>2, AuthorizeIs
  <2> QED BY <2>1, <2>2
<1> QED BY <1>1, PolicyInvariant, PTL

\* A principal of one tenant with all the roles of another is answered no worse.
LEMMA MoreIsNoWorse ==
    ASSUME PolicyInv, NEW principal, NEW more, NEW action, NEW tier \in Tiers \cup {NoTier},
           more.tenant_id = principal.tenant_id, principal.roles \subseteq more.roles
    PROVE  /\ A!authorize(principal, action, tier).kind = "Allow"
              => A!authorize(more, action, tier).kind = "Allow"
           /\ A!authorize(principal, action, tier).kind = "Downgrade"
              => A!authorize(more, action, tier).kind \in {"Allow", "Downgrade"}
<1>1. ASSUME NEW roles, A!HasRole(principal, roles) PROVE A!HasRole(more, roles)
  BY <1>1 DEF A!HasRole
<1>2. A!MayAct(principal, action) => A!MayAct(more, action)
  BY <1>1 DEF A!MayAct
<1>3. CASE tier = NoTier
  BY <1>2, <1>3 DEF A!authorize, A!Plain
<1>4. CASE tier # NoTier /\ tier_policies[tier] = {}
  BY <1>2, <1>4 DEF A!authorize, A!Plain
<1>5. ASSUME tier # NoTier, NEW policy \in tier_policies[tier]
      PROVE  /\ A!authorize(principal, action, tier).kind = "Allow"
                => A!authorize(more, action, tier).kind = "Allow"
             /\ A!authorize(principal, action, tier).kind = "Downgrade"
                => A!authorize(more, action, tier).kind \in {"Allow", "Downgrade"}
  <2>1. tier \in Tiers
    BY <1>5
  <2>2. A!HasRole(principal, policy.allowed_roles) => A!HasRole(more, policy.allowed_roles)
    BY <1>1
  <2> QED BY <1>2, <2>1, <2>2, AuthorizeKind
<1> QED BY <1>3, <1>4, <1>5

\* One more role never takes a permission away, whatever roles and policies are set:
\* the checks of authorize ask for some listed role and never for the absence of one.
THEOREM MoreRolesHelp == A!Spec => []RolesOnlyHelp
<1>1. PolicyInv => RolesOnlyHelp
  <2> SUFFICES ASSUME PolicyInv, NEW principal \in A!Principals, NEW role \in Roles,
                      NEW action \in Actions, NEW tier \in Tiers \cup {NoTier},
                      NEW more, more = [principal EXCEPT !.roles = principal.roles \cup {role}]
               PROVE  /\ A!authorize(principal, action, tier).kind = "Allow"
                         => A!authorize(more, action, tier).kind = "Allow"
                      /\ A!authorize(principal, action, tier).kind = "Downgrade"
                         => A!authorize(more, action, tier).kind \in {"Allow", "Downgrade"}
    BY DEF RolesOnlyHelp, A!RolesOnlyHelp
  <2>1. more.tenant_id = principal.tenant_id /\ principal.roles \subseteq more.roles
    BY DEF A!Principals
  <2> QED BY <2>1, MoreIsNoWorse
<1> QED BY <1>1, PolicyInvariant, PTL

-----------------------------------------------------------------------------
(* Fnv64.                                                                  *)

Byte == 0 .. 255
BytePowers == {1, 2, 4, 8, 16, 32, 64, 128}

\* A bit is zero or one.
LEMMA BitIsBit ==
    ASSUME NEW n \in 0 .. 255, NEW p \in BytePowers
    PROVE  F!Bit(n, p) \in {0, 1}
BY DEF F!Bit, BytePowers

\* A byte is the sum of its bits.
LEMMA ByteIsItsBits ==
    ASSUME NEW n \in 0 .. 255
    PROVE  n = F!Bit(n, 1) + 2 * F!Bit(n, 2) + 4 * F!Bit(n, 4) + 8 * F!Bit(n, 8)
               + 16 * F!Bit(n, 16) + 32 * F!Bit(n, 32) + 64 * F!Bit(n, 64)
               + 128 * F!Bit(n, 128)
BY DEF F!Bit

\* Bytes with the same bits are the same.
LEMMA BitsDetermine ==
    ASSUME NEW n \in 0 .. 255, NEW m \in 0 .. 255,
           \A p \in BytePowers : F!Bit(n, p) = F!Bit(m, p)
    PROVE  n = m
<1>1. /\ F!Bit(n, 1) = F!Bit(m, 1) /\ F!Bit(n, 2) = F!Bit(m, 2) /\ F!Bit(n, 4) = F!Bit(m, 4)
      /\ F!Bit(n, 8) = F!Bit(m, 8) /\ F!Bit(n, 16) = F!Bit(m, 16)
      /\ F!Bit(n, 32) = F!Bit(m, 32) /\ F!Bit(n, 64) = F!Bit(m, 64)
      /\ F!Bit(n, 128) = F!Bit(m, 128)
  BY DEF BytePowers
<1>2. n = F!Bit(n, 1) + 2 * F!Bit(n, 2) + 4 * F!Bit(n, 4) + 8 * F!Bit(n, 8)
          + 16 * F!Bit(n, 16) + 32 * F!Bit(n, 32) + 64 * F!Bit(n, 64) + 128 * F!Bit(n, 128)
  BY ByteIsItsBits
<1>3. m = F!Bit(m, 1) + 2 * F!Bit(m, 2) + 4 * F!Bit(m, 4) + 8 * F!Bit(m, 8)
          + 16 * F!Bit(m, 16) + 32 * F!Bit(m, 32) + 64 * F!Bit(m, 64) + 128 * F!Bit(m, 128)
  BY ByteIsItsBits
<1> QED BY <1>1, <1>2, <1>3

\* The exclusive or of two bytes is a byte.
LEMMA XorByteIsByte ==
    ASSUME NEW a \in 0 .. 255, NEW b \in 0 .. 255
    PROVE  F!XorByte(a, b) \in 0 .. 255
BY DEF F!XorByte, F!XorBit

\* The exclusive or of bytes can be undone, on either side.
LEMMA XorByteInjective ==
    ASSUME NEW a \in Byte, NEW b \in Byte, NEW c \in Byte, NEW d \in Byte,
           F!XorByte(a, b) = F!XorByte(c, d)
    PROVE  a = c <=> b = d
<1>1. \A p \in BytePowers : F!Bit(a, p) = F!Bit(b, p) <=> F!Bit(c, p) = F!Bit(d, p)
  <2>1. F!XorBit(a, b, 1) \in {0, 1} /\ F!XorBit(c, d, 1) \in {0, 1}
    BY DEF F!XorBit
  <2>2. F!XorBit(a, b, 2) \in {0, 2} /\ F!XorBit(c, d, 2) \in {0, 2}
    BY DEF F!XorBit
  <2>3. F!XorBit(a, b, 4) \in {0, 4} /\ F!XorBit(c, d, 4) \in {0, 4}
    BY DEF F!XorBit
  <2>4. F!XorBit(a, b, 8) \in {0, 8} /\ F!XorBit(c, d, 8) \in {0, 8}
    BY DEF F!XorBit
  <2>5. F!XorBit(a, b, 16) \in {0, 16} /\ F!XorBit(c, d, 16) \in {0, 16}
    BY DEF F!XorBit
  <2>6. F!XorBit(a, b, 32) \in {0, 32} /\ F!XorBit(c, d, 32) \in {0, 32}
    BY DEF F!XorBit
  <2>7. F!XorBit(a, b, 64) \in {0, 64} /\ F!XorBit(c, d, 64) \in {0, 64}
    BY DEF F!XorBit
  <2>8. F!XorBit(a, b, 128) \in {0, 128} /\ F!XorBit(c, d, 128) \in {0, 128}
    BY DEF F!XorBit
  <2>9. \A p \in BytePowers : F!XorBit(a, b, p) = F!XorBit(c, d, p)
    BY <2>1, <2>2, <2>3, <2>4, <2>5, <2>6, <2>7, <2>8 DEF F!XorByte, BytePowers
  <2> QED BY <2>9 DEF F!XorBit, BytePowers
<1>2. ASSUME NEW p \in BytePowers
      PROVE  /\ F!Bit(a, p) \in {0, 1} /\ F!Bit(b, p) \in {0, 1}
             /\ F!Bit(c, p) \in {0, 1} /\ F!Bit(d, p) \in {0, 1}
  BY BitIsBit DEF Byte
<1>3. ASSUME a = c PROVE b = d
  <2>1. \A p \in BytePowers : F!Bit(b, p) = F!Bit(d, p)
    BY <1>1, <1>2, <1>3
  <2> QED BY <2>1, BitsDetermine DEF Byte
<1>4. ASSUME b = d PROVE a = c
  <2>1. \A p \in BytePowers : F!Bit(a, p) = F!Bit(c, p)
    BY <1>1, <1>2, <1>4
  <2> QED BY <2>1, BitsDetermine DEF Byte
<1> QED BY <1>3, <1>4

\* The high bits and the low byte of a hash determine it, and the exclusive or with a
\* byte stays in the word.
LEMMA XorFacts ==
    ASSUME NEW h \in 0 .. (Word - 1), NEW g \in 0 .. (Word - 1),
           NEW b \in HashedBytes, NEW c \in HashedBytes
    PROVE  /\ F!Xor(h, b) \in 0 .. (Word - 1)
           /\ F!Xor(h, b) = F!Xor(g, c) => (h = g <=> b = c)
<1>1. /\ Word \in Nat \ {0} /\ Word % 256 = 0 /\ h \in Nat /\ g \in Nat
      /\ b \in 0 .. 255 /\ c \in 0 .. 255
  BY FnvAssumption, BytesAssumption DEF FnvConstants
<1>2. PICK hh \in Int, hl \in 0 .. 255 : h = 256 * hh + hl /\ hl = h % 256
  <2>1. h = 256 * (h \div 256) + (h % 256) /\ h % 256 \in 0 .. 255 /\ h \div 256 \in Int
    BY <1>1
  <2> QED BY <2>1
<1>3. PICK gh \in Int, gl \in 0 .. 255 : g = 256 * gh + gl /\ gl = g % 256
  <2>1. g = 256 * (g \div 256) + (g % 256) /\ g % 256 \in 0 .. 255 /\ g \div 256 \in Int
    BY <1>1
  <2> QED BY <2>1
<1>4. PICK k \in Int : Word = 256 * k
  <2>1. Word = 256 * (Word \div 256) + (Word % 256) /\ Word \div 256 \in Int
    BY <1>1
  <2> QED BY <1>1, <2>1
<1>5. F!XorByte(hl, b) \in 0 .. 255 /\ F!XorByte(gl, c) \in 0 .. 255
  BY <1>1, XorByteIsByte
<1>6. F!Xor(h, b) = 256 * hh + F!XorByte(hl, b)
  BY <1>1, <1>2, <1>5 DEF F!Xor
<1>7. F!Xor(g, c) = 256 * gh + F!XorByte(gl, c)
  BY <1>1, <1>3, <1>5 DEF F!Xor
<1>8. F!Xor(h, b) \in 0 .. (Word - 1)
  BY <1>2, <1>4, <1>5, <1>6
<1>9. ASSUME F!Xor(h, b) = F!Xor(g, c) PROVE h = g <=> b = c
  <2>1. hh = gh /\ F!XorByte(hl, b) = F!XorByte(gl, c)
    <3> DEFINE u == F!XorByte(hl, b)
               v == F!XorByte(gl, c)
    <3>1. u \in 0 .. 255 /\ v \in 0 .. 255 /\ 256 * hh + u = 256 * gh + v
      BY <1>5, <1>6, <1>7, <1>9
    <3> HIDE DEF u, v
    <3>2. hh = gh /\ u = v
      BY <3>1
    <3> QED BY <3>2 DEF u, v
  <2>2. hl = gl <=> b = c
    <3>1. hl \in Byte /\ gl \in Byte /\ b \in Byte /\ c \in Byte
      BY <1>1 DEF Byte
    <3> QED BY <2>1, <3>1, XorByteInjective
  <2> QED BY <1>2, <1>3, <2>1, <2>2
<1> QED BY <1>8, <1>9

\* The product with the prime can be undone in the word.
LEMMA ProductInjective ==
    ASSUME NEW x \in 0 .. (Word - 1), NEW y \in 0 .. (Word - 1),
           (x * Prime) % Word = (y * Prime) % Word
    PROVE  x = y
<1>1. Word \in Nat \ {0} /\ Prime \in Nat
  BY FnvAssumption, BytesAssumption DEF FnvConstants
<1>2. PICK q \in Nat : (Prime * q) % Word = 1
  BY FnvAssumption, BytesAssumption DEF FnvConstants
<1>3. PICK k \in Int : Prime * q = Word * k + 1
  <2>1. Prime * q \in Int
    BY <1>1
  <2> DEFINE n == Prime * q
  <2> HIDE DEF n
  <2>2. n \in Int => n = Word * (n \div Word) + (n % Word) /\ n \div Word \in Int
    BY <1>1
  <2> QED BY <1>2, <2>1, <2>2 DEF n
<1>4. PICK i \in Int : x * Prime - y * Prime = Word * i
  <2>1. ASSUME NEW n \in Int PROVE n = Word * (n \div Word) + (n % Word) /\ n \div Word \in Int
    BY <1>1
  <2>2. x * Prime \in Int /\ y * Prime \in Int
    BY <1>1
  <2> DEFINE n == x * Prime
             m == y * Prime
  <2> HIDE DEF n, m
  <2>3. n \in Int /\ m \in Int /\ n % Word = m % Word
    BY <2>2 DEF n, m
  <2>4. PICK u \in Int, v \in Int, r \in Int : n = Word * u + r /\ m = Word * v + r
    <3>1. /\ n = Word * (n \div Word) + (n % Word) /\ n \div Word \in Int
          /\ m = Word * (m \div Word) + (m % Word) /\ m \div Word \in Int
      BY <2>1, <2>3
    <3>2. n % Word \in Int
      BY <1>1, <2>3
    <3> QED BY <2>3, <3>1, <3>2
  <2>5. n - m = Word * (u - v)
    BY <1>1, <2>4
  <2> QED BY <2>5 DEF n, m
<1>5. x - y = Word * (i * q - k * (x - y))
  <2>1. (x - y) * (Prime * q) = (x * Prime - y * Prime) * q
    BY <1>1
  <2>2. (x - y) * (Word * k + 1) = (Word * i) * q
    BY <1>3, <1>4, <2>1
  <2> QED BY <1>1, <2>2
<1>6. PICK j \in Int : x - y = Word * j
  BY <1>5
<1>7. j = 0
  <2>1. - Word < Word * j /\ Word * j < Word
    BY <1>1, <1>6
  <2>2. ~(j >= 1)
    BY <1>1, <2>1
  <2>3. ~(j <= -1)
    BY <1>1, <2>1
  <2> QED BY <2>2, <2>3
<1> QED BY <1>1, <1>6, <1>7

\* One turn of the loop stays in the word and, of hash and byte, forgets neither when
\* it is told the other.
LEMMA RoundFacts ==
    ASSUME NEW h \in 0 .. (Word - 1), NEW g \in 0 .. (Word - 1),
           NEW b \in HashedBytes, NEW c \in HashedBytes
    PROVE  /\ F!Round(h, b) \in 0 .. (Word - 1)
           /\ F!Round(h, b) = F!Round(g, c) => (h = g <=> b = c)
<1>1. F!Xor(h, b) \in 0 .. (Word - 1) /\ F!Xor(g, c) \in 0 .. (Word - 1)
  BY XorFacts
<1> DEFINE x == F!Xor(h, b)
           y == F!Xor(g, c)
<1>2. F!Round(h, b) \in 0 .. (Word - 1)
  <2>1. Word \in Nat \ {0} /\ Prime \in Nat
    BY FnvAssumption, BytesAssumption DEF FnvConstants
  <2>2. x * Prime \in Int
    <3> HIDE DEF x
    <3> QED BY <1>1, <2>1 DEF x
  <2>3. \A n \in Int : n % Word \in 0 .. (Word - 1)
    BY <2>1
  <2> QED BY <2>2, <2>3 DEF F!Round
<1>3. ASSUME F!Round(h, b) = F!Round(g, c) PROVE h = g <=> b = c
  <2>1. x = y
    <3>1. (x * Prime) % Word = (y * Prime) % Word
      BY <1>3 DEF F!Round
    <3> HIDE DEF x, y
    <3> QED BY <1>1, <3>1, ProductInjective DEF x, y
  <2> QED BY <2>1, XorFacts
<1> QED BY <1>2, <1>3

\* The two hashes are equal as long as the inputs are, and different from then on.
FnvInv ==
    /\ left \in 0 .. (Word - 1) /\ right \in 0 .. (Word - 1)
    /\ differs \in BOOLEAN
    /\ ~differs => left = right
    /\ differs => left # right

\* fnv64_hex of two inputs of one length that differ in one byte differs, for every
\* word and every prime with an inverse: not only for the low bits a run can count.
THEOREM FnvTellsOneByte == F!Spec => []OneByteNeverCollides
<1>1. F!Init => FnvInv
  BY FnvAssumption DEF FnvConstants, F!Init, FnvInv
<1>2. FnvInv /\ [F!Next]_(F!vars) => FnvInv'
  <2> SUFFICES ASSUME FnvInv, [F!Next]_(F!vars) PROVE FnvInv'
    OBVIOUS
  <2>1. ASSUME NEW byte \in HashedBytes, F!Same(byte) PROVE FnvInv'
    <3>1. left' = F!Round(left, byte) /\ right' = F!Round(right, byte) /\ differs' = differs
      BY <2>1 DEF F!Same
    <3>2. left' \in 0 .. (Word - 1) /\ right' \in 0 .. (Word - 1)
      BY <3>1, RoundFacts DEF FnvInv
    <3>3. F!Round(left, byte) = F!Round(right, byte) => (left = right <=> byte = byte)
      BY RoundFacts DEF FnvInv
    <3> QED BY <3>1, <3>2, <3>3 DEF FnvInv
  <2>2. ASSUME NEW a \in HashedBytes, NEW b \in HashedBytes, F!Differ(a, b) PROVE FnvInv'
    <3>1. /\ left' = F!Round(left, a) /\ right' = F!Round(right, b) /\ differs' = TRUE
          /\ ~differs /\ a # b
      BY <2>2 DEF F!Differ
    <3>2. left' \in 0 .. (Word - 1) /\ right' \in 0 .. (Word - 1)
      BY <3>1, RoundFacts DEF FnvInv
    <3>3. left' # right'
      BY <3>1, RoundFacts DEF FnvInv
    <3> QED BY <3>1, <3>2, <3>3 DEF FnvInv
  <2>3. CASE UNCHANGED F!vars
    BY <2>3 DEF F!vars, FnvInv
  <2> QED BY <2>1, <2>2, <2>3 DEF F!Next
<1>3. FnvInv => OneByteNeverCollides
  BY DEF OneByteNeverCollides, FnvInv, F!OneByteNeverCollides
<1> QED BY <1>1, <1>2, <1>3, PTL DEF F!Spec

\* The offset and the prime of fnv64_hex in types.rs are such constants, for its word of
\* 64 bits: the number the product leaves 1 with is the inverse of the prime.
THEOREM ConstantsOfTheCode ==
    FnvConstants(18446744073709551616, 14695981039346656037, 1099511628211)
<1>1. (1099511628211 * 14886173955864302971) % 18446744073709551616 = 1
  OBVIOUS
<1> QED BY <1>1 DEF FnvConstants

-----------------------------------------------------------------------------
(* Zeroization.                                                            *)

TrackedEvents == [session : Sessions, buffer : Z!Buffers]

\* What holds between the calls: the buffers, the tracker and the history have their
\* types, no buffer was filled after events that are not there, and the tracker tells
\* the truth.
ZeroizationInv ==
    /\ secret \in [Sessions -> SUBSET Z!Buffers]
    /\ events \in Seq(TrackedEvents)
    /\ filled \in [Sessions -> [Z!Buffers -> Int]]
    /\ \A s \in Sessions, b \in Z!Buffers : filled[s][b] <= Len(events)
    /\ Z!EventsTellTruth

\* The sequence has the element behind its first n.
OccursAfter(s, n, e) == \E i \in (n + 1) .. Len(s) : s[i] = e

\* Searching a sequence that was appended to.
LEMMA OccursInConcat ==
    ASSUME NEW S, NEW a \in Seq(S), NEW r \in Seq(S), NEW n \in Int, 0 <= n, n <= Len(a), NEW e
    PROVE  OccursAfter(a \o r, n, e) <=> OccursAfter(a, n, e) \/ OccursAfter(r, 0, e)
<1>1. /\ Len(a) \in Nat /\ Len(r) \in Nat /\ Len(a \o r) = Len(a) + Len(r)
      /\ \A i \in 1 .. Len(a) : (a \o r)[i] = a[i]
      /\ \A i \in (Len(a) + 1) .. (Len(a) + Len(r)) : (a \o r)[i] = r[i - Len(a)]
  OBVIOUS
<1>2. ASSUME NEW i \in (n + 1) .. Len(a \o r), (a \o r)[i] = e
      PROVE  \/ \E k \in (n + 1) .. Len(a) : a[k] = e
             \/ \E j \in 1 .. Len(r) : r[j] = e
  <2>1. CASE i <= Len(a)
    BY <1>1, <1>2, <2>1
  <2>2. CASE i > Len(a)
    <3>1. i - Len(a) \in 1 .. Len(r) /\ r[i - Len(a)] = e
      BY <1>1, <1>2, <2>2
    <3> QED BY <3>1
  <2> QED BY <1>1, <2>1, <2>2
<1>3. ASSUME NEW i \in (n + 1) .. Len(a), a[i] = e
      PROVE  \E k \in (n + 1) .. Len(a \o r) : (a \o r)[k] = e
  <2>1. i \in (n + 1) .. Len(a \o r) /\ (a \o r)[i] = e
    BY <1>1, <1>3
  <2> QED BY <2>1
<1>4. ASSUME NEW j \in 1 .. Len(r), r[j] = e
      PROVE  \E k \in (n + 1) .. Len(a \o r) : (a \o r)[k] = e
  <2>1. Len(a) + j \in (n + 1) .. Len(a \o r) /\ (a \o r)[Len(a) + j] = e
    BY <1>1, <1>4
  <2> QED BY <2>1
<1> QED BY <1>2, <1>3, <1>4 DEF OccursAfter

\* The sequence of one element, or none.
LEMMA OccursInOptional ==
    ASSUME NEW S, NEW x \in S, NEW P \in BOOLEAN, NEW s, s = (IF P THEN <<x>> ELSE <<>>), NEW e
    PROVE  s \in Seq(S) /\ (OccursAfter(s, 0, e) <=> P /\ x = e)
<1>1. CASE P
  BY <1>1 DEF OccursAfter
<1>2. CASE ~P
  BY <1>2 DEF OccursAfter
<1> QED BY <1>1, <1>2

\* A call records exactly the buffers it clears.
LEMMA RecordsAreCleared ==
    ASSUME NEW session \in Sessions, NEW policy \in Z!Policies
    PROVE  /\ Z!Records(session, policy) \in Seq(TrackedEvents)
           /\ \A s \in Sessions, b \in Z!Buffers :
                OccursAfter(Z!Records(session, policy), 0, Z!Event(s, b))
                <=> s = session /\ b \in Z!Clears(policy)
<1>1. PICK k \in TrackedEvents : k = Z!Event(session, "keys")
  BY DEF TrackedEvents, Z!Event, Z!Buffers
<1>2. PICK v \in TrackedEvents : v = Z!Event(session, "kv")
  BY DEF TrackedEvents, Z!Event, Z!Buffers
<1>3. PICK P \in BOOLEAN : P <=> "keys" \in Z!Clears(policy)
  OBVIOUS
<1>4. PICK Q \in BOOLEAN : Q <=> "kv" \in Z!Clears(policy)
  OBVIOUS
<1>5. PICK a : a = (IF P THEN <<k>> ELSE <<>>)
  OBVIOUS
<1>6. PICK r : r = (IF Q THEN <<v>> ELSE <<>>)
  OBVIOUS
<1>7. Z!Records(session, policy) = a \o r
  BY <1>1, <1>2, <1>3, <1>4, <1>5, <1>6 DEF Z!Records
<1>8. a \in Seq(TrackedEvents) /\ \A e : OccursAfter(a, 0, e) <=> P /\ k = e
  BY <1>5, OccursInOptional
<1>9. r \in Seq(TrackedEvents) /\ \A e : OccursAfter(r, 0, e) <=> Q /\ v = e
  BY <1>6, OccursInOptional
<1>10. a \o r \in Seq(TrackedEvents)
  BY <1>8, <1>9
<1>11. \A e : OccursAfter(a \o r, 0, e) <=> OccursAfter(a, 0, e) \/ OccursAfter(r, 0, e)
  <2>1. Len(a) \in Nat
    BY <1>8
  <2> QED BY <1>8, <1>9, <2>1, OccursInConcat
<1>12. ASSUME NEW s \in Sessions, NEW b \in Z!Buffers
       PROVE  /\ k = Z!Event(s, b) <=> s = session /\ b = "keys"
              /\ v = Z!Event(s, b) <=> s = session /\ b = "kv"
              /\ b \in {"keys", "kv"}
  BY <1>1, <1>2 DEF Z!Event, Z!Buffers
<1>13. ASSUME NEW s \in Sessions, NEW b \in Z!Buffers
       PROVE  OccursAfter(a \o r, 0, Z!Event(s, b)) <=> s = session /\ b \in Z!Clears(policy)
  BY <1>3, <1>4, <1>8, <1>9, <1>11, <1>12
<1> QED BY <1>7, <1>10, <1>13

\* Every step keeps the invariant.
LEMMA ZeroizationStep ==
    ASSUME ZeroizationInv, [Z!Next]_(Z!vars)
    PROVE  ZeroizationInv'
<1>1. ASSUME NEW session \in Sessions, NEW buffer \in Z!Buffers, Z!Fill(session, buffer)
      PROVE  ZeroizationInv'
  <2>1. /\ secret' = [secret EXCEPT ![session] = secret[session] \cup {buffer}]
        /\ filled' = [filled EXCEPT ![session] =
                         [filled[session] EXCEPT ![buffer] = Len(events)]]
        /\ events' = events /\ Len(events) \in Nat
    BY <1>1 DEF Z!Fill, ZeroizationInv
  <2>2. /\ secret' \in [Sessions -> SUBSET Z!Buffers]
        /\ filled' \in [Sessions -> [Z!Buffers -> Int]]
    BY <2>1 DEF ZeroizationInv
  <2>3. ASSUME NEW s \in Sessions, NEW b \in Z!Buffers
        PROVE  /\ filled'[s][b] <= Len(events)
               /\ filled'[s][b] >= 0
                  => (b \notin secret'[s] <=> OccursAfter(events, filled'[s][b], Z!Event(s, b)))
    <3>1. CASE s = session /\ b = buffer
      <4>1. filled'[s][b] = Len(events) /\ b \in secret'[s]
        BY <2>1, <3>1 DEF ZeroizationInv
      <4> QED BY <2>1, <4>1 DEF OccursAfter
    <3>2. CASE ~(s = session /\ b = buffer)
      <4>1. filled'[s][b] = filled[s][b] /\ (b \in secret'[s] <=> b \in secret[s])
        BY <2>1, <3>2 DEF ZeroizationInv
      <4> QED BY <4>1 DEF ZeroizationInv, Z!EventsTellTruth, OccursAfter
    <3> QED BY <3>1, <3>2
  <2> QED BY <2>1, <2>2, <2>3 DEF ZeroizationInv, Z!EventsTellTruth, OccursAfter
<1>2. ASSUME NEW session \in Sessions, NEW policy \in Z!Policies,
             Z!zeroize_session_buffers(session, policy)
      PROVE  ZeroizationInv'
  <2>1. CASE UNCHANGED <<secret, events, filled>>
    BY <2>1 DEF ZeroizationInv, Z!EventsTellTruth, OccursAfter
  <2>2. CASE /\ secret' = [secret EXCEPT ![session] = secret[session] \ Z!Clears(policy)]
             /\ events' = events \o Z!Records(session, policy)
             /\ filled' = filled
    <3>1. /\ events \in Seq(TrackedEvents) /\ Z!Records(session, policy) \in Seq(TrackedEvents)
          /\ Len(events) \in Nat
      BY RecordsAreCleared DEF ZeroizationInv
    <3>2. events' \in Seq(TrackedEvents) /\ Len(events') \in Nat /\ Len(events) <= Len(events')
      BY <2>2, <3>1
    <3>3. secret' \in [Sessions -> SUBSET Z!Buffers]
      BY <2>2 DEF ZeroizationInv
    <3>4. ASSUME NEW s \in Sessions, NEW b \in Z!Buffers
          PROVE  /\ filled[s][b] <= Len(events')
                 /\ filled[s][b] >= 0
                    => (b \notin secret'[s] <=> OccursAfter(events', filled[s][b], Z!Event(s, b)))
      <4>1. filled[s][b] \in Int /\ filled[s][b] <= Len(events)
        BY DEF ZeroizationInv
      <4>2. b \notin secret'[s] <=> b \notin secret[s] \/ (s = session /\ b \in Z!Clears(policy))
        BY <2>2 DEF ZeroizationInv
      <4>3. ASSUME filled[s][b] >= 0
            PROVE  OccursAfter(events', filled[s][b], Z!Event(s, b))
                   <=> \/ OccursAfter(events, filled[s][b], Z!Event(s, b))
                       \/ OccursAfter(Z!Records(session, policy), 0, Z!Event(s, b))
        <5>1. PICK r \in Seq(TrackedEvents) : r = Z!Records(session, policy)
          BY <3>1
        <5>2. PICK n \in Int : n = filled[s][b]
          BY <4>1
        <5>3. PICK e : e = Z!Event(s, b)
          OBVIOUS
        <5>4. OccursAfter(events \o r, n, e) <=> OccursAfter(events, n, e) \/ OccursAfter(r, 0, e)
          <6>1. 0 <= n /\ n <= Len(events)
            BY <4>1, <4>3, <5>2
          <6> QED BY <3>1, <6>1, OccursInConcat
        <5> QED BY <2>2, <5>1, <5>2, <5>3, <5>4
      <4>4. OccursAfter(Z!Records(session, policy), 0, Z!Event(s, b))
            <=> s = session /\ b \in Z!Clears(policy)
        BY RecordsAreCleared
      <4>5. filled[s][b] >= 0
            => (b \notin secret[s] <=> OccursAfter(events, filled[s][b], Z!Event(s, b)))
        BY DEF ZeroizationInv, Z!EventsTellTruth, OccursAfter
      <4>6. filled[s][b] <= Len(events')
        BY <3>1, <3>2, <4>1
      <4> QED BY <4>2, <4>3, <4>4, <4>5, <4>6
    <3> QED BY <2>2, <3>2, <3>3, <3>4 DEF ZeroizationInv, Z!EventsTellTruth, OccursAfter
  <2> QED BY <1>2, <2>1, <2>2 DEF Z!zeroize_session_buffers
<1>3. CASE UNCHANGED Z!vars
  BY <1>3 DEF Z!vars, ZeroizationInv, Z!EventsTellTruth
<1> QED BY <1>1, <1>2, <1>3 DEF Z!Next

\* The tracker of zeroization.rs can be relied on for any number of sessions, calls and
\* events: a buffer that was filled is clear exactly when a later event names it.
THEOREM TrackerTellsTruth == Z!Spec => []EventsTellTruth
<1>1. Z!Init => ZeroizationInv
  <2> SUFFICES ASSUME Z!Init PROVE ZeroizationInv
    OBVIOUS
  <2>1. events = <<>> /\ Len(events) = 0 /\ events \in Seq(TrackedEvents)
    BY DEF Z!Init
  <2>2. \A s \in Sessions, b \in Z!Buffers : filled[s][b] = -1
    BY DEF Z!Init
  <2>3. secret \in [Sessions -> SUBSET Z!Buffers] /\ filled \in [Sessions -> [Z!Buffers -> Int]]
    BY DEF Z!Init
  <2> QED BY <2>1, <2>2, <2>3 DEF ZeroizationInv, Z!EventsTellTruth, OccursAfter
<1>2. ZeroizationInv => EventsTellTruth
  BY DEF ZeroizationInv, EventsTellTruth
<1> QED BY <1>1, <1>2, ZeroizationStep, PTL DEF Z!Spec

-----------------------------------------------------------------------------
(* Compliance.                                                             *)

\* A report is what evaluate computes from the profile of the engine.
ComplianceInv ==
    /\ profile \subseteq C!Fields
    /\ \A r \in report : \E regulation \in C!Regulation, day \in Days :
                            r = C!Evaluated(profile, regulation, day)

\* The tables agree: every control a regulation requires is in the engine's list.
LEMMA RequiredIsListed ==
    ASSUME NEW regulation \in C!Regulation
    PROVE  C!required_controls(regulation) \subseteq C!all_controls
<1>1. CASE regulation = "Gdpr"
  BY <1>1 DEF C!required_controls, C!all_controls
<1>2. CASE regulation \in {"Ccpa", "Cpra"}
  BY <1>2 DEF C!required_controls, C!all_controls
<1>3. CASE regulation = "Hipaa"
  BY <1>3 DEF C!required_controls, C!all_controls
<1>4. CASE regulation \in {"Soc2", "Iso27001"}
  BY <1>4 DEF C!required_controls, C!all_controls
<1> QED BY <1>1, <1>2, <1>3, <1>4 DEF C!Regulation

\* The arms of control_enabled.
LEMMA FieldOfIs ==
    /\ C!FieldOf("data_minimization") = {"data_minimization"}
    /\ C!FieldOf("encryption_at_rest") = {"encryption_at_rest"}
    /\ C!FieldOf("access_control") = {"access_control"}
    /\ C!FieldOf("audit_logging") = {"audit_logging"}
    /\ C!FieldOf("zeroization") = {"zeroization"}
    /\ C!FieldOf("deletion_requests") = {"deletion_requests_supported"}
    /\ C!FieldOf("incident_response") = {"incident_response_plan"}
    /\ C!FieldOf("telemetry_redaction") = {"telemetry_pii_redaction"}
BY DEF C!FieldOf

\* Every control of the list stands for one field of the profile.
LEMMA ControlHasField ==
    ASSUME NEW c \in C!all_controls
    PROVE  \E f \in C!Fields : C!FieldOf(c) = {f}
BY FieldOfIs DEF C!all_controls, C!Fields

\* No field stands for two of them.
LEMMA FieldHasControl ==
    ASSUME NEW c \in C!all_controls, NEW d \in C!all_controls, C!FieldOf(c) = C!FieldOf(d)
    PROVE  c = d
BY FieldOfIs DEF C!all_controls

\* Every step keeps the invariant: the profile is fixed.
LEMMA ComplianceInvariant == C!Spec => []ComplianceInv
<1>1. C!Init => ComplianceInv
  BY DEF C!Init, ComplianceInv
<1>2. ComplianceInv /\ [C!Next]_(C!vars) => ComplianceInv'
  <2> SUFFICES ASSUME ComplianceInv, [C!Next]_(C!vars) PROVE ComplianceInv'
    OBVIOUS
  <2>1. ASSUME NEW regulation \in C!Regulation, NEW day \in Days, C!evaluate(regulation, day)
        PROVE  ComplianceInv'
    <3>1. profile' = profile /\ report' = {C!Evaluated(profile, regulation, day)}
      BY <2>1 DEF C!evaluate
    <3>2. C!Evaluated(profile', regulation, day) = C!Evaluated(profile, regulation, day)
      BY <3>1
    <3> QED BY <3>1, <3>2 DEF ComplianceInv
  <2>2. CASE UNCHANGED C!vars
    BY <2>2 DEF C!vars, ComplianceInv
  <2> QED BY <2>1, <2>2 DEF C!Next
<1> QED BY <1>1, <1>2, PTL DEF C!Spec

\* What a report says.
LEMMA EvaluatedIs ==
    ASSUME NEW p, NEW regulation \in C!Regulation, NEW day, NEW r,
           r = C!Evaluated(p, regulation, day)
    PROVE  /\ r.regulation = regulation
           /\ r.missing_controls = C!required_controls(regulation) \ C!enabled_controls(p)
           /\ r.ready <=> C!required_controls(regulation) \subseteq C!enabled_controls(p)
<1>1. /\ r.regulation = regulation
      /\ r.missing_controls = {c \in C!required_controls(regulation) : ~C!control_enabled(p, c)}
      /\ r.ready <=> {c \in C!required_controls(regulation) : ~C!control_enabled(p, c)} = {}
  BY DEF C!Evaluated
<1>2. ASSUME NEW c \in C!required_controls(regulation)
      PROVE  c \in C!enabled_controls(p) <=> C!control_enabled(p, c)
  BY RequiredIsListed DEF C!enabled_controls
<1> QED BY <1>1, <1>2

\* evaluate and enabled_controls of compliance.rs agree on every profile, regulation and
\* day: the four tables of control names are consistent.
THEOREM ReportsAgreeWithListing == C!Spec => []ReportAgreesWithListing
<1>1. ComplianceInv => ReportAgreesWithListing
  <2> SUFFICES ASSUME ComplianceInv, NEW r \in report
               PROVE  /\ r.ready <=> C!required_controls(r.regulation)
                                       \subseteq C!enabled_controls(profile)
                      /\ r.missing_controls = C!required_controls(r.regulation)
                                                \ C!enabled_controls(profile)
    BY DEF ReportAgreesWithListing, C!ReportAgreesWithListing
  <2>1. PICK regulation \in C!Regulation, day \in Days : r = C!Evaluated(profile, regulation, day)
    BY DEF ComplianceInv
  <2> QED BY <2>1, EvaluatedIs
<1> QED BY <1>1, ComplianceInvariant, PTL

\* Every control a report misses is met by turning on one profile field, which changes
\* nothing else in it.
THEOREM EveryMissingCanBeMended == C!Spec => []MissingCanBeMended
<1>1. ComplianceInv => MissingCanBeMended
  <2> SUFFICES ASSUME ComplianceInv, NEW r \in report
               PROVE  \A c \in r.missing_controls : \E field \in C!Fields \ profile :
                         C!Evaluated(profile \cup {field}, r.regulation, 0).missing_controls
                           = r.missing_controls \ {c}
    BY DEF MissingCanBeMended, C!MissingCanBeMended
  <2>1. PICK regulation \in C!Regulation, day \in Days : r = C!Evaluated(profile, regulation, day)
    BY DEF ComplianceInv
  <2>2. /\ r.regulation = regulation
        /\ r.missing_controls = C!required_controls(regulation) \ C!enabled_controls(profile)
    BY <2>1, EvaluatedIs
  <2> TAKE c \in r.missing_controls
  <2>3. c \in C!all_controls /\ ~C!control_enabled(profile, c)
    BY <2>2, RequiredIsListed DEF C!enabled_controls
  <2>4. PICK f \in C!Fields : C!FieldOf(c) = {f}
    BY <2>3, ControlHasField
  <2>5. f \notin profile
    BY <2>3, <2>4 DEF C!control_enabled
  <2>6. PICK p : p = profile \cup {f}
    OBVIOUS
  <2>7. C!Evaluated(p, regulation, 0).missing_controls
          = C!required_controls(regulation) \ C!enabled_controls(p)
    BY EvaluatedIs
  <2>8. ASSUME NEW d \in C!all_controls
        PROVE  d \in C!enabled_controls(p) <=> d \in C!enabled_controls(profile) \/ d = c
    <3>1. PICK g \in C!Fields : C!FieldOf(d) = {g}
      BY ControlHasField
    <3>2. g = f <=> d = c
      BY <2>3, <2>4, <3>1, FieldHasControl
    <3>3. C!control_enabled(p, d) <=> C!control_enabled(profile, d) \/ g = f
      BY <2>6, <3>1 DEF C!control_enabled
    <3> QED BY <3>2, <3>3 DEF C!enabled_controls
  <2>9. C!required_controls(regulation) \ C!enabled_controls(p) = r.missing_controls \ {c}
    BY <2>2, <2>8, RequiredIsListed
  <2> QED BY <2>2, <2>5, <2>6, <2>7, <2>9
<1> QED BY <1>1, ComplianceInvariant, PTL

-----------------------------------------------------------------------------
(* Hardening.                                                              *)

ListedIds == Ids \cup {"HC-001", "HC-002", "HC-003", "HC-004", "HC-005", "HC-006"}
ChecklistItem == [id : ListedIds, severity : Severities \cup {3, 4, 5}, completed : BOOLEAN]

CompletedAt(s) == {i \in 1 .. Len(s) : s[i].completed}

\* Position i is the first of its id.
IsFirstOf(s, i) == \A j \in 1 .. (i - 1) : s[j].id # s[i].id

\* An item is completed exactly when it is the first of its id and the id was marked;
\* marked ids are listed, and there are as many of them as completed items.
HardeningInv ==
    /\ items \in Seq(ChecklistItem)
    /\ \A i \in 1 .. Len(items) :
          items[i].completed <=> IsFirstOf(items, i) /\ items[i].id \in marked
    /\ marked \subseteq {items[i].id : i \in 1 .. Len(items)}
    /\ IsFiniteSet(CompletedAt(items)) /\ IsFiniteSet(marked)
    /\ Cardinality(CompletedAt(items)) = Cardinality(marked)

\* The module counts with the library's cardinality.
LEMMA SameCardinality == \A S : H!Cardinality(S) = Cardinality(S)
BY DEF H!Cardinality, Cardinality

\* Where mark_completed returns is the first item of the id.
LEMMA FoundIsFirst ==
    ASSUME NEW s, NEW id, NEW i
    PROVE  i \in H!Found(s, id) <=> i \in 1 .. Len(s) /\ s[i].id = id /\ IsFirstOf(s, i)
BY DEF H!Found, IsFirstOf

\* A pushed item is open, and leaves what was first first.
LEMMA PushKeepsInv ==
    ASSUME HardeningInv, NEW id \in Ids, NEW severity \in Severities, H!Push(id, severity)
    PROVE  HardeningInv'
<1>1. PICK x \in ChecklistItem : x = H!Item(id, severity)
  BY DEF ChecklistItem, ListedIds, H!Item
<1>2. x.id = id /\ x.completed = FALSE
  BY <1>1 DEF H!Item
<1>3. items \in Seq(ChecklistItem) /\ items' = Append(items, x) /\ marked' = marked
  BY <1>1 DEF HardeningInv, H!Push
<1>4. PICK n \in Nat : n = Len(items)
  BY <1>3
<1>5. /\ items' \in Seq(ChecklistItem) /\ Len(items') = n + 1 /\ items'[n + 1] = x
      /\ \A i \in 1 .. n : items'[i] = items[i]
  BY <1>3, <1>4
<1>6. ASSUME NEW i \in 1 .. n PROVE IsFirstOf(items', i) <=> IsFirstOf(items, i)
  BY <1>5 DEF IsFirstOf
<1>7. ASSUME NEW i \in 1 .. Len(items')
      PROVE  items'[i].completed <=> IsFirstOf(items', i) /\ items'[i].id \in marked'
  <2>1. CASE i \in 1 .. n
    BY <1>3, <1>4, <1>5, <1>6, <2>1 DEF HardeningInv
  <2>2. CASE i = n + 1
    <3>1. ~items'[i].completed /\ items'[i].id = id
      BY <1>2, <1>5, <2>2
    <3>2. ASSUME id \in marked PROVE ~IsFirstOf(items', i)
      <4>1. PICK j \in 1 .. n : items[j].id = id
        BY <1>4, <3>2 DEF HardeningInv
      <4>2. j \in 1 .. (i - 1) /\ items'[j].id = id
        BY <1>4, <1>5, <2>2, <4>1
      <4> QED BY <3>1, <4>2 DEF IsFirstOf
    <3> QED BY <1>3, <3>1, <3>2
  <2> QED BY <1>4, <1>5, <2>1, <2>2
<1>8. CompletedAt(items') = CompletedAt(items)
  BY <1>2, <1>4, <1>5 DEF CompletedAt
<1>9. marked' \subseteq {items'[i].id : i \in 1 .. Len(items')}
  BY <1>3, <1>4, <1>5 DEF HardeningInv
<1> QED BY <1>3, <1>5, <1>7, <1>8, <1>9 DEF HardeningInv

\* Marking completes the first item of the id, once.
LEMMA MarkKeepsInv ==
    ASSUME HardeningInv, NEW id \in Ids, NEW i \in H!Found(items, id),
           items' = [items EXCEPT ![i].completed = TRUE], marked' = marked \cup {id}
    PROVE  HardeningInv'
<1>1. /\ i \in 1 .. Len(items) /\ items[i].id = id /\ IsFirstOf(items, i)
      /\ items \in Seq(ChecklistItem) /\ Len(items) \in Nat
  BY FoundIsFirst DEF HardeningInv
<1>2. PICK x \in ChecklistItem :
         x = [items[i] EXCEPT !.completed = TRUE] /\ x.completed = TRUE /\ x.id = id
  <2>1. PICK y \in ChecklistItem : y = items[i]
    BY <1>1
  <2>2. /\ [y EXCEPT !.completed = TRUE] \in ChecklistItem
        /\ [y EXCEPT !.completed = TRUE].completed = TRUE
        /\ [y EXCEPT !.completed = TRUE].id = y.id
    BY DEF ChecklistItem
  <2> QED BY <1>1, <2>1, <2>2
<1>3. items' = [items EXCEPT ![i] = x]
  BY <1>1, <1>2
<1>4. /\ items' \in Seq(ChecklistItem) /\ Len(items') = Len(items) /\ items'[i] = x
      /\ \A j \in 1 .. Len(items) : j # i => items'[j] = items[j]
  <2>1. items \in [1 .. Len(items) -> ChecklistItem]
    BY <1>1
  <2>2. /\ [items EXCEPT ![i] = x] \in [1 .. Len(items) -> ChecklistItem]
        /\ [items EXCEPT ![i] = x][i] = x
        /\ \A j \in 1 .. Len(items) : j # i => [items EXCEPT ![i] = x][j] = items[j]
    BY <1>1, <2>1
  <2>3. \A f \in [1 .. Len(items) -> ChecklistItem] :
           f \in Seq(ChecklistItem) /\ Len(f) = Len(items)
    BY <1>1
  <2> QED BY <1>3, <2>2, <2>3
<1>5. \A j \in 1 .. Len(items) : items'[j].id = items[j].id
  BY <1>1, <1>2, <1>4
<1>6. ASSUME NEW j \in 1 .. Len(items) PROVE IsFirstOf(items', j) <=> IsFirstOf(items, j)
  BY <1>1, <1>5 DEF IsFirstOf
<1>7. ASSUME NEW j \in 1 .. Len(items')
      PROVE  items'[j].completed <=> IsFirstOf(items', j) /\ items'[j].id \in marked'
  <2>1. CASE j = i
    <3>1. items'[j].completed = TRUE /\ items'[j].id = id /\ IsFirstOf(items', j)
      BY <1>1, <1>2, <1>4, <1>6, <2>1
    <3> QED BY <3>1
  <2>2. CASE j # i
    <3>1. items'[j] = items[j] /\ j \in 1 .. Len(items)
      BY <1>4, <2>2
    <3>2. items[j].id = id => ~IsFirstOf(items, j)
      <4>1. CASE i < j
        BY <1>1, <3>1, <4>1 DEF IsFirstOf
      <4>2. CASE j < i
        BY <1>1, <3>1, <4>2 DEF IsFirstOf
      <4> QED BY <1>1, <2>2, <3>1, <4>1, <4>2
    <3>3. items[j].completed <=> IsFirstOf(items, j) /\ items[j].id \in marked
      BY <3>1 DEF HardeningInv
    <3>4. IsFirstOf(items', j) <=> IsFirstOf(items, j)
      BY <1>6, <3>1
    <3>5. items[j].id \in marked' <=> items[j].id \in marked \/ items[j].id = id
      OBVIOUS
    <3> QED BY <3>1, <3>2, <3>3, <3>4, <3>5, Zenon
  <2> QED BY <2>1, <2>2
<1>8. CompletedAt(items') = CompletedAt(items) \cup {i}
  BY <1>1, <1>2, <1>4 DEF CompletedAt
<1>9. i \in CompletedAt(items) <=> id \in marked
  BY <1>1 DEF CompletedAt, HardeningInv
<1>10. /\ IsFiniteSet(CompletedAt(items')) /\ IsFiniteSet(marked')
       /\ Cardinality(CompletedAt(items')) = Cardinality(marked')
  <2>1. CASE id \in marked
    <3>1. CompletedAt(items') = CompletedAt(items) /\ marked' = marked
      BY <1>8, <1>9, <2>1
    <3> QED BY <3>1 DEF HardeningInv
  <2>2. CASE id \notin marked
    <3>1. i \notin CompletedAt(items)
      BY <1>9, <2>2
    <3>2. /\ IsFiniteSet(CompletedAt(items) \cup {i})
          /\ Cardinality(CompletedAt(items) \cup {i}) = Cardinality(CompletedAt(items)) + 1
      BY <3>1, FS_AddElement DEF HardeningInv
    <3>3. /\ IsFiniteSet(marked \cup {id})
          /\ Cardinality(marked \cup {id}) = Cardinality(marked) + 1
      BY <2>2, FS_AddElement DEF HardeningInv
    <3> QED BY <1>8, <3>2, <3>3 DEF HardeningInv
  <2> QED BY <2>1, <2>2
<1>11. marked' \subseteq {items'[j].id : j \in 1 .. Len(items')}
  BY <1>1, <1>4, <1>5 DEF HardeningInv
<1> QED BY <1>4, <1>7, <1>10, <1>11 DEF HardeningInv

\* The invariant holds in every reachable state.
LEMMA HardeningInvariant == H!Spec => []HardeningInv
<1>1. H!Init => HardeningInv
  <2> SUFFICES ASSUME H!Init PROVE HardeningInv
    OBVIOUS
  <2>1. items \in Seq(ChecklistItem) /\ Len(items) = 6 /\ marked = {}
    BY DEF H!Init, H!default_items, H!Item, ChecklistItem, ListedIds
  <2>2. \A i \in 1 .. Len(items) : ~items[i].completed
    BY <2>1 DEF H!Init, H!default_items, H!Item
  <2>3. CompletedAt(items) = {}
    BY <2>2 DEF CompletedAt
  <2> QED BY <2>1, <2>2, <2>3, FS_EmptySet DEF HardeningInv
<1>2. HardeningInv /\ [H!Next]_(H!vars) => HardeningInv'
  <2> SUFFICES ASSUME HardeningInv, [H!Next]_(H!vars) PROVE HardeningInv'
    OBVIOUS
  <2>1. ASSUME NEW id \in Ids, NEW severity \in Severities, H!Push(id, severity)
        PROVE  HardeningInv'
    BY <2>1, PushKeepsInv
  <2>2. CASE UNCHANGED <<items, marked>>
    BY <2>2 DEF HardeningInv, CompletedAt, IsFirstOf
  <2>3. ASSUME NEW id \in Ids, H!mark_completed(id) PROVE HardeningInv'
    BY <2>2, <2>3, MarkKeepsInv DEF H!mark_completed
  <2> QED BY <2>1, <2>2, <2>3 DEF H!Next, H!vars
<1> QED BY <1>1, <1>2, PTL DEF H!Spec

\* report follows mark_completed for lists of every length: an id listed once is
\* completed exactly when it was marked, later items of an id stay open, and the number
\* of completed items is the number of marked ids.
THEOREM ReportsFollowMarks == H!Spec => []ReportFollowsMarks
<1>1. HardeningInv => ReportFollowsMarks
  <2> SUFFICES ASSUME HardeningInv PROVE H!ReportFollowsMarks
    BY DEF ReportFollowsMarks
  <2>1. Len(items) \in Nat
    BY DEF HardeningInv
  <2>2. ASSUME NEW id \in Ids, Cardinality(H!Occurrences(id)) = 1, NEW i \in H!Occurrences(id)
        PROVE  items[i].completed <=> id \in marked
    <3>1. H!Occurrences(id) \subseteq 1 .. Len(items) /\ i \in 1 .. Len(items) /\ items[i].id = id
      BY DEF H!Occurrences
    <3>2. IsFiniteSet(H!Occurrences(id))
      <4>1. IsFiniteSet(1 .. Len(items))
        BY <2>1, FS_Interval
      <4>2. H!Occurrences(id) \in SUBSET (1 .. Len(items))
        BY <3>1
      <4> QED BY <4>1, <4>2, FS_Subset, Zenon
    <3>3. PICK k : H!Occurrences(id) = {k}
      BY <2>2, <3>2, FS_Singleton
    <3>4. IsFirstOf(items, i)
      <4> SUFFICES ASSUME NEW j \in 1 .. (i - 1), items[j].id = items[i].id PROVE FALSE
        BY DEF IsFirstOf
      <4>1. j \in H!Occurrences(id)
        BY <2>1, <3>1 DEF H!Occurrences
      <4>2. j # i
        BY <2>1, <3>1
      <4> QED BY <3>3, <4>1, <4>2
    <3> QED BY <3>1, <3>4 DEF HardeningInv
  <2>3. ASSUME NEW id \in Ids, NEW i \in H!Occurrences(id) \ H!Found(items, id),
               items[i].severity >= 4
        PROVE  id \in H!missing_critical(items)
    <3>1. i \in 1 .. Len(items) /\ items[i].id = id /\ ~IsFirstOf(items, i)
      BY FoundIsFirst DEF H!Occurrences
    <3>2. ~items[i].completed
      BY <3>1 DEF HardeningInv
    <3> QED BY <2>3, <3>1, <3>2 DEF H!missing_critical
  <2>4. H!completed_items(items) = Cardinality(marked)
    <3>1. H!completed_items(items) = Cardinality(CompletedAt(items))
      BY SameCardinality DEF H!completed_items, CompletedAt
    <3> QED BY <3>1 DEF HardeningInv
  <2>5. marked \subseteq {items[i].id : i \in 1 .. Len(items)}
    BY DEF HardeningInv
  <2> QED BY <2>2, <2>3, <2>4, <2>5, SameCardinality, Zenon DEF H!ReportFollowsMarks
<1> QED BY <1>1, HardeningInvariant, PTL

-----------------------------------------------------------------------------
(* The hex codec.                                                          *)

Digit == 0 .. 15

\* No two digits are written alike, in either case.
LEMMA DigitsDiffer ==
    ASSUME NEW d \in Digit, NEW e \in Digit
    PROVE  /\ X!Lower[d + 1] = X!Lower[e + 1] => d = e
           /\ X!Upper[d + 1] = X!Upper[e + 1] => d = e
           /\ X!Lower[d + 1] = X!Upper[e + 1] => d = e
<1>1. X!Lower[d + 1] = X!Lower[e + 1] => d = e
  BY DEF X!Lower, Digit
<1>2. X!Upper[d + 1] = X!Upper[e + 1] => d = e
  BY DEF X!Upper, Digit
<1>3. X!Lower[d + 1] = X!Upper[e + 1] => d = e
  BY DEF X!Lower, X!Upper, Digit
<1> QED BY <1>1, <1>2, <1>3

\* A character is at most one digit.
LEMMA DigitIsUnique ==
    ASSUME NEW c, NEW d \in X!to_digit(c)
    PROVE  d \in Digit /\ X!to_digit(c) = {d}
<1>1. d \in Digit /\ (c = X!Lower[d + 1] \/ c = X!Upper[d + 1])
  BY DEF X!to_digit, Digit
<1>2. ASSUME NEW e \in X!to_digit(c) PROVE e = d
  <2>1. e \in Digit /\ (c = X!Lower[e + 1] \/ c = X!Upper[e + 1])
    BY DEF X!to_digit, Digit
  <2> QED BY <1>1, <2>1, DigitsDiffer
<1> QED BY <1>1, <1>2

\* A digit that is written is read again.
LEMMA WrittenDigit ==
    ASSUME NEW d \in Digit
    PROVE  X!to_digit(X!Lower[d + 1]) = {d}
<1>1. d \in X!to_digit(X!Lower[d + 1])
  BY DEF X!to_digit, Digit
<1> QED BY <1>1, DigitIsUnique

\* The two digits of a byte.
LEMMA EncodedDigits ==
    ASSUME NEW b \in Byte
    PROVE  /\ X!to_digit(X!Encoded(b)[1]) = {b \div 16}
           /\ X!to_digit(X!Encoded(b)[2]) = {b % 16}
<1>1. b \div 16 \in Digit /\ b % 16 \in Digit
  BY DEF Byte, Digit
<1>2. X!Encoded(b)[1] = X!Lower[b \div 16 + 1] /\ X!Encoded(b)[2] = X!Lower[(b % 16) + 1]
  BY DEF X!Encoded
<1>3. PICK h \in Digit, l \in Digit : h = b \div 16 /\ l = b % 16
  BY <1>1
<1>4. X!to_digit(X!Lower[h + 1]) = {h} /\ X!to_digit(X!Lower[l + 1]) = {l}
  BY WrittenDigit
<1> QED BY <1>2, <1>3, <1>4

\* A function on the first n naturals is a sequence of length n.
LEMMA LenOfFunction ==
    ASSUME NEW n \in Nat, NEW S, NEW f \in [1 .. n -> S]
    PROVE  f \in Seq(S) /\ Len(f) = n
OBVIOUS

\* The length and the characters of hex_encode.
LEMMA EncodeIs ==
    ASSUME NEW bs \in Seq(Byte)
    PROVE  /\ Len(X!hex_encode(bs)) = 2 * Len(bs)
           /\ \A i \in 1 .. Len(bs) : /\ X!hex_encode(bs)[2 * i - 1] = X!Encoded(bs[i])[1]
                                      /\ X!hex_encode(bs)[2 * i] = X!Encoded(bs[i])[2]
<1>1. PICK n \in Nat : n = Len(bs)
  OBVIOUS
<1> DEFINE E(i) == X!Encoded(bs[(i + 1) \div 2])[IF i % 2 = 1 THEN 1 ELSE 2]
<1>2. X!hex_encode(bs) = [i \in 1 .. (2 * n) |-> E(i)]
  BY <1>1 DEF X!hex_encode
<1>3. Len(X!hex_encode(bs)) = 2 * n
  <2> HIDE DEF E
  <2>1. [i \in 1 .. (2 * n) |-> E(i)] \in [1 .. (2 * n) -> {E(i) : i \in 1 .. (2 * n)}]
    OBVIOUS
  <2>2. 2 * n \in Nat
    OBVIOUS
  <2> QED BY <1>2, <2>1, <2>2, LenOfFunction
<1>4. ASSUME NEW i \in 1 .. n
      PROVE  /\ X!hex_encode(bs)[2 * i - 1] = X!Encoded(bs[i])[1]
             /\ X!hex_encode(bs)[2 * i] = X!Encoded(bs[i])[2]
  <2>1. /\ 2 * i - 1 \in 1 .. (2 * n) /\ (2 * i - 1) % 2 = 1 /\ ((2 * i - 1) + 1) \div 2 = i
        /\ 2 * i \in 1 .. (2 * n) /\ (2 * i) % 2 # 1 /\ ((2 * i) + 1) \div 2 = i
    OBVIOUS
  <2>2. X!hex_encode(bs)[2 * i - 1] = E(2 * i - 1) /\ X!hex_encode(bs)[2 * i] = E(2 * i)
    <3> HIDE DEF E
    <3> QED BY <1>2, <2>1
  <2> QED BY <2>1, <2>2
<1> QED BY <1>1, <1>3, <1>4

\* What a pair of digits reads as.
LEMMA ByteOfIs ==
    ASSUME NEW hi, NEW lo, NEW h, NEW l, X!to_digit(hi) = {h}, X!to_digit(lo) = {l}
    PROVE  X!ByteOf(hi, lo) = {16 * h + l}
BY DEF X!ByteOf

\* A text that is the encoding of bytes up to case decodes to them.
LEMMA EncodingDecodes ==
    ASSUME NEW bs \in Seq(Byte), NEW t, X!SameUpToCase(t, X!hex_encode(bs))
    PROVE  X!hex_decode(t) = {bs}
<1>1. PICK n \in Nat : n = Len(bs)
  OBVIOUS
<1>2. Len(t) = 2 * n /\ Len(t) % 2 = 0 /\ Len(t) \div 2 = n
  <2>1. Len(t) = 2 * n
    BY <1>1, EncodeIs DEF X!SameUpToCase
  <2>2. (2 * n) % 2 = 0 /\ (2 * n) \div 2 = n
    OBVIOUS
  <2> QED BY <2>1, <2>2
<1>3. ASSUME NEW i \in 1 .. n PROVE X!ByteOf(t[2 * i - 1], t[2 * i]) = {bs[i]}
  <2>1. 2 * i - 1 \in 1 .. (2 * n) /\ 2 * i \in 1 .. (2 * n)
    OBVIOUS
  <2>2. /\ X!to_digit(t[2 * i - 1]) = X!to_digit(X!hex_encode(bs)[2 * i - 1])
        /\ X!to_digit(t[2 * i]) = X!to_digit(X!hex_encode(bs)[2 * i])
    BY <1>2, <2>1 DEF X!SameUpToCase
  <2>3. PICK b \in Byte : b = bs[i]
    BY <1>1
  <2>4. /\ X!to_digit(t[2 * i - 1]) = {b \div 16}
        /\ X!to_digit(t[2 * i]) = {b % 16}
    BY <1>1, <2>2, <2>3, EncodeIs, EncodedDigits
  <2>5. X!ByteOf(t[2 * i - 1], t[2 * i]) = {16 * (b \div 16) + (b % 16)}
    BY <2>4, ByteOfIs
  <2>6. 16 * (b \div 16) + (b % 16) = b
    BY DEF Byte
  <2> QED BY <2>3, <2>5, <2>6
<1>4. X!hex_decode(t) = {[i \in 1 .. n |-> CHOOSE b \in X!ByteOf(t[2 * i - 1], t[2 * i]) : TRUE]}
  <2>1. ~\E i \in 1 .. (Len(t) \div 2) : X!ByteOf(t[2 * i - 1], t[2 * i]) = {}
    BY <1>2, <1>3
  <2> QED BY <1>2, <2>1 DEF X!hex_decode
<1>5. [i \in 1 .. n |-> CHOOSE b \in X!ByteOf(t[2 * i - 1], t[2 * i]) : TRUE]
        = [i \in 1 .. n |-> bs[i]]
  BY <1>3
<1>6. [i \in 1 .. n |-> bs[i]] = bs
  BY <1>1
<1> QED BY <1>4, <1>5, <1>6

\* A text that decodes is the encoding, up to case, of what it decodes to.
LEMMA DecodesToEncoding ==
    ASSUME NEW t, Len(t) \in Nat, NEW bs \in X!hex_decode(t)
    PROVE  X!SameUpToCase(t, X!hex_encode(bs))
<1>1. PICK n \in Nat : Len(t) = 2 * n /\ Len(t) \div 2 = n
  <2>1. Len(t) % 2 = 0
    BY DEF X!hex_decode
  <2>2. Len(t) \div 2 \in Nat /\ Len(t) = 2 * (Len(t) \div 2)
    BY <2>1
  <2> QED BY <2>2
<1>2. /\ \A i \in 1 .. n : X!ByteOf(t[2 * i - 1], t[2 * i]) # {}
      /\ bs = [i \in 1 .. n |-> CHOOSE b \in X!ByteOf(t[2 * i - 1], t[2 * i]) : TRUE]
  BY <1>1 DEF X!hex_decode
<1>3. ASSUME NEW i \in 1 .. n
      PROVE  /\ bs[i] \in Byte
             /\ X!to_digit(t[2 * i - 1]) = {bs[i] \div 16}
             /\ X!to_digit(t[2 * i]) = {bs[i] % 16}
  <2>1. bs[i] \in X!ByteOf(t[2 * i - 1], t[2 * i])
    BY <1>2
  <2>2. PICK h \in X!to_digit(t[2 * i - 1]), l \in X!to_digit(t[2 * i]) : bs[i] = 16 * h + l
    BY <2>1 DEF X!ByteOf
  <2>3. /\ h \in Digit /\ X!to_digit(t[2 * i - 1]) = {h}
        /\ l \in Digit /\ X!to_digit(t[2 * i]) = {l}
    BY DigitIsUnique
  <2>4. 16 * h + l \in Byte /\ (16 * h + l) \div 16 = h /\ (16 * h + l) % 16 = l
    BY <2>3 DEF Digit, Byte
  <2> QED BY <2>2, <2>3, <2>4
<1>4. bs \in Seq(Byte) /\ Len(bs) = n
  <2>1. bs \in [1 .. n -> Byte]
    BY <1>2, <1>3
  <2> QED BY <2>1, LenOfFunction
<1>5. Len(t) = Len(X!hex_encode(bs))
  BY <1>1, <1>4, EncodeIs
<1>6. ASSUME NEW k \in 1 .. Len(t)
      PROVE  X!to_digit(t[k]) = X!to_digit(X!hex_encode(bs)[k])
  <2>1. PICK i \in 1 .. n : k = 2 * i - 1 \/ k = 2 * i
    <3>1. /\ (k + 1) \div 2 \in 1 .. n
          /\ k = 2 * ((k + 1) \div 2) - 1 \/ k = 2 * ((k + 1) \div 2)
      BY <1>1
    <3> QED BY <3>1
  <2>2. /\ X!hex_encode(bs)[2 * i - 1] = X!Encoded(bs[i])[1]
        /\ X!hex_encode(bs)[2 * i] = X!Encoded(bs[i])[2]
    BY <1>4, EncodeIs
  <2>3. PICK b \in Byte : b = bs[i]
    BY <1>3
  <2>4. X!to_digit(X!Encoded(b)[1]) = {b \div 16} /\ X!to_digit(X!Encoded(b)[2]) = {b % 16}
    BY EncodedDigits
  <2>5. X!to_digit(t[2 * i - 1]) = {b \div 16} /\ X!to_digit(t[2 * i]) = {b % 16}
    BY <1>3, <2>3
  <2> QED BY <2>1, <2>2, <2>3, <2>4, <2>5
<1> QED BY <1>5, <1>6 DEF X!SameUpToCase
\* The characters a text may have.
HexChars == Others \cup {X!Lower[d] : d \in 1 .. 16}

\* What was encoded are bytes and what arrives is a text.
HexInv ==
    /\ bytes \in Seq(Byte)
    /\ text \in Seq(HexChars)

\* Every step keeps both, whatever the way does to the text.
LEMMA HexInvariant == X!Spec => []HexInv
<1>1. X!Init => HexInv
  BY DEF X!Init, HexInv
<1>2. HexInv /\ [X!Next]_(X!vars) => HexInv'
  <2> SUFFICES ASSUME HexInv, [X!Next]_(X!vars) PROVE HexInv'
    OBVIOUS
  <2>1. ASSUME NEW b \in EncodedBytes, X!EncodeByte(b) PROVE HexInv'
    <3>1. b \in Byte /\ b \div 16 + 1 \in 1 .. 16 /\ (b % 16) + 1 \in 1 .. 16
      BY BytesAssumption DEF Byte
    <3>2. X!Encoded(b) \in Seq(HexChars)
      BY <3>1 DEF X!Encoded, HexChars
    <3> QED BY <2>1, <3>1, <3>2 DEF X!EncodeByte, HexInv
  <2>2. ASSUME NEW i \in 1 .. Len(text), NEW c \in Others, X!Change(i, c) PROVE HexInv'
    <3>1. text \in [1 .. Len(text) -> HexChars] /\ Len(text) \in Nat
      BY DEF HexInv
    <3>2. text' \in [1 .. Len(text) -> HexChars]
      BY <2>2, <3>1 DEF X!Change, HexChars
    <3> QED BY <2>2, <3>1, <3>2, LenOfFunction DEF X!Change, HexInv
  <2>3. CASE X!Lose
    BY <2>3 DEF X!Lose, HexInv
  <2>4. CASE UNCHANGED X!vars
    BY <2>4 DEF X!vars, HexInv
  <2> QED BY <2>1, <2>2, <2>3, <2>4 DEF X!Next
<1> QED BY <1>1, <1>2, PTL DEF X!Spec

\* hex_decode of types.rs gives back what hex_encode was given, for bytes of any number
\* and in either case of the digits.
THEOREM DecodeInvertsEncode == X!Spec => []ArrivedDecodes
<1>1. HexInv => ArrivedDecodes
  BY EncodingDecodes DEF HexInv, ArrivedDecodes, X!ArrivedDecodes
<1> QED BY <1>1, HexInvariant, PTL

\* Whatever happened to a text of any length, if it decodes then it is the encoding, up
\* to case, of what it decodes to.
THEOREM OnlyEncodingsDecode == X!Spec => []DecodedIsEncoding
<1>1. HexInv => DecodedIsEncoding
  <2> SUFFICES ASSUME HexInv PROVE X!DecodedIsEncoding
    BY DEF DecodedIsEncoding
  <2>1. Len(text) \in Nat
    BY DEF HexInv
  <2> QED BY <2>1, DecodesToEncoding DEF X!DecodedIsEncoding
<1> QED BY <1>1, HexInvariant, PTL

-----------------------------------------------------------------------------
(* The composition.                                                        *)

\* A behaviour of the composition is a behaviour of every part: nothing one part does
\* touches another, so what is proved of a part holds of the crate.
THEOREM EveryPartIsItself == Spec => A!Spec /\ Z!Spec /\ C!Spec /\ H!Spec /\ X!Spec /\ F!Spec
<1>1. Init => A!Init /\ Z!Init /\ C!Init /\ H!Init /\ X!Init /\ F!Init
  BY DEF Init
<1>2. [Next]_vars => /\ [A!Next]_(A!vars) /\ [Z!Next]_(Z!vars) /\ [C!Next]_(C!vars) /\ [H!Next]_(H!vars)
                     /\ [X!Next]_(X!vars) /\ [F!Next]_(F!vars)
  <2> SUFFICES ASSUME [Next]_vars
               PROVE  /\ [A!Next]_(A!vars) /\ [Z!Next]_(Z!vars) /\ [C!Next]_(C!vars) /\ [H!Next]_(H!vars)
                      /\ [X!Next]_(X!vars) /\ [F!Next]_(F!vars)
    OBVIOUS
  <2>1. [Z!Next]_(Z!vars)
    BY DEF Next, vars, zeroVars, Z!vars
  <2>2. [C!Next]_(C!vars)
    BY DEF Next, vars, complianceVars, C!vars
  <2>3. [H!Next]_(H!vars)
    BY DEF Next, vars, listVars, H!vars
  <2>4. [X!Next]_(X!vars)
    BY DEF Next, vars, hexVars, X!vars
  <2>5. [F!Next]_(F!vars)
    BY DEF Next, vars, fnvVars, F!vars
  <2>6. [A!Next]_(A!vars)
    BY DEF Next, vars, accessVars, A!vars
  <2> QED BY <2>1, <2>2, <2>3, <2>4, <2>5, <2>6
<1> QED BY <1>1, <1>2, PTL DEF Spec, A!Spec, Z!Spec, C!Spec, H!Spec, X!Spec, F!Spec
==============================================================================
