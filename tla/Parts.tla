-------------------------------- MODULE Parts --------------------------------
(***************************************************************************)
(* The six parts of the crate that share no state with another part:       *)
(* access control, zeroization, compliance, hardening, the hex codec and   *)
(* fnv64.  A behaviour is a behaviour of one of them, chosen at the start; *)
(* the variables of the others keep their initial values.                  *)
(***************************************************************************)
EXTENDS Integers, Sequences, FiniteSets

CONSTANTS
    Roles, Tenants, BlankTenant, Actions, Tiers, NoTier, TierPolicies,  \* of AccessControl
    Sessions, BlankSession, MaxEvents,  \* of Zeroization
    Days,                               \* of Compliance
    Ids, Severities, MaxItems,          \* of Hardening
    EncodedBytes, Others, MaxBytes,     \* of HexCodec
    Word, Offset, Prime, HashedBytes    \* of Fnv64

ASSUME TiersAssumption == NoTier \notin Tiers
ASSUME PoliciesAssumption ==
    TierPolicies \subseteq [allowed_roles : SUBSET Roles, allowed_tenants : SUBSET Tenants,
                            downgrade_tier : Tiers \cup {NoTier}]
ASSUME BoundsAssumption == MaxEvents \in Nat /\ MaxItems \in Nat /\ MaxBytes \in Nat
ASSUME BytesAssumption == EncodedBytes \subseteq 0 .. 255 /\ HashedBytes \subseteq 0 .. 255

\* The word holds whole bytes and the prime has an inverse modulo the word, as every
\* odd number has modulo a power of two.
FnvConstants(word, offset, prime) ==
    /\ word \in Nat \ {0} /\ word % 256 = 0
    /\ offset \in 0 .. (word - 1)
    /\ prime \in Nat /\ \E q \in 0 .. (word - 1) : (prime * q) % word = 1
ASSUME FnvAssumption == FnvConstants(Word, Offset, Prime)

VARIABLES
    part,                                 \* the part this behaviour is about
    action_roles, tier_policies,          \* AccessControl
    secret, events, filled, zeroized,     \* Zeroization; zeroized is its response
    profile, report,                      \* Compliance
    items, marked, markResponse,          \* Hardening; markResponse is its response
    bytes, text,                          \* HexCodec
    left, right, differs                  \* Fnv64

A == INSTANCE AccessControl
Z == INSTANCE Zeroization WITH response <- zeroized
C == INSTANCE Compliance
H == INSTANCE Hardening WITH response <- markResponse
X == INSTANCE HexCodec WITH Bytes <- EncodedBytes
F == INSTANCE Fnv64 WITH Bytes <- HashedBytes

Parts == {"access", "zeroization", "compliance", "hardening", "hex", "fnv64"}
accessVars == <<action_roles, tier_policies>>
zeroVars == <<secret, events, filled, zeroized>>
complianceVars == <<profile, report>>
listVars == <<items, marked, markResponse>>
hexVars == <<bytes, text>>
fnvVars == <<left, right, differs>>
vars == <<part, accessVars, zeroVars, complianceVars, listVars, hexVars, fnvVars>>

\* One profile stands for all where it does not matter.
Init ==
    /\ part \in Parts
    /\ A!Init /\ Z!Init /\ C!Init /\ H!Init /\ X!Init /\ F!Init
    /\ part # "compliance" => profile = {}

Next ==
    /\ UNCHANGED part
    /\ \/ /\ part = "access" /\ A!Next
          /\ UNCHANGED <<zeroVars, complianceVars, listVars, hexVars, fnvVars>>
       \/ /\ part = "zeroization" /\ Z!Next
          /\ UNCHANGED <<accessVars, complianceVars, listVars, hexVars, fnvVars>>
       \/ /\ part = "compliance" /\ C!Next
          /\ UNCHANGED <<accessVars, zeroVars, listVars, hexVars, fnvVars>>
       \/ /\ part = "hardening" /\ H!Next
          /\ UNCHANGED <<accessVars, zeroVars, complianceVars, hexVars, fnvVars>>
       \/ /\ part = "hex" /\ X!Next
          /\ UNCHANGED <<accessVars, zeroVars, complianceVars, listVars, fnvVars>>
       \/ /\ part = "fnv64" /\ F!Next
          /\ UNCHANGED <<accessVars, zeroVars, complianceVars, listVars, hexVars>>

Spec == Init /\ [][Next]_vars

-----------------------------------------------------------------------------
(* The parts' properties.                                                  *)

\* authorize and authorized_tiers agree on every tier, for a valid principal that may act.
ListedIsAllowed == A!ListedIsAllowed

\* Another role never takes a permission or a downgrade away.
RolesOnlyHelp == A!RolesOnlyHelp

\* The zeroization tracker can be relied on: a buffer that was filled is clear if and
\* only if an event after it was last filled names it.
EventsTellTruth == Z!EventsTellTruth

\* evaluate and enabled_controls agree on what is ready and what is missing.
ReportAgreesWithListing == C!ReportAgreesWithListing

\* Every missing control can be met by turning on one profile field.
MissingCanBeMended == C!MissingCanBeMended

\* The checklist report follows mark_completed, also when an id is listed twice.
ReportFollowsMarks == H!ReportFollowsMarks

\* hex_decode gives back what hex_encode was given, in either case of digits.
ArrivedDecodes == X!ArrivedDecodes

\* What hex_decode accepts is, up to case, the encoding of what it returns.
DecodedIsEncoding == X!DecodedIsEncoding

\* Inputs of one length that differ in one byte never have one fnv64.
OneByteNeverCollides == F!OneByteNeverCollides
==============================================================================
