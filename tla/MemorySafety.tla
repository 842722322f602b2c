---------------------------- MODULE MemorySafety ----------------------------
(***************************************************************************)
(* The memory-safety audit of src/src/memory_safety.rs: a verdict on a     *)
(* crate's unsafe blocks and foreign-function boundaries under a profile.  *)
(* The crate under audit grows block by block and is reviewed over time;   *)
(* audit_memory_safety may be called at any moment.                        *)
(***************************************************************************)
EXTENDS Integers, Sequences, FiniteSets

CONSTANTS
    Profiles,     \* the profiles audited under
    MaxUnsafe,    \* bound: unsafe blocks of the crate
    MaxFfi        \* bound: its foreign-function boundaries

UnsafeBlockPolicy == {"Deny", "AllowWithReview", "AllowWithAudit"}

\* A text that trims to nothing, and one that does not; None is Rust's.
Texts == {"blank", "text"}
None == "None"

MemorySafetyProfile ==
    [require_miri : BOOLEAN, require_fuzzing : BOOLEAN, unsafe_policy : UnsafeBlockPolicy,
     max_unsafe_blocks : Nat, require_ffi_layout_validation : BOOLEAN,
     require_ffi_lifetime_validation : BOOLEAN]
UnsafeUsageRecord == [reason : Texts, reviewed : BOOLEAN]
FfiBoundaryAudit ==
    [uses_unsafe : BOOLEAN, layout_validated : BOOLEAN, lifetime_validated : BOOLEAN,
     reviewed_by : Texts \cup {None}]

ASSUME ProfileAssumption == Profiles \subseteq MemorySafetyProfile
ASSUME BoundsAssumption == MaxUnsafe \in Nat /\ MaxFfi \in Nat

VARIABLES
    profile,         \* the profile, fixed for the crate
    unsafe_records,  \* Vec<UnsafeUsageRecord>
    ffi_audits,      \* Vec<FfiBoundaryAudit>
    passed,          \* [miri, fuzzing]: whether the two runs passed
    report           \* what the last audit returned

vars == <<profile, unsafe_records, ffi_audits, passed, report>>

-----------------------------------------------------------------------------
(* The audit.  A violation message is represented by what it is about; the *)
(* sorted list of messages by the set of them.                             *)

\* Variant: each block's message replaces the one before.
PolicyViolationsLast(p, blocks) ==
    IF blocks = <<>> THEN {}
    ELSE CASE p.unsafe_policy = "Deny" -> {<<"unsafe blocks are denied">>}
           [] p.unsafe_policy = "AllowWithReview" ->
                {<<"lacks review", i>> : i \in {j \in {Len(blocks)} : ~blocks[j].reviewed}}
           [] p.unsafe_policy = "AllowWithAudit" ->
                {<<"lacks justification", i>> : i \in {j \in {Len(blocks)} : blocks[j].reason = "blank"}}

\* Variant: a denied block is only held against the limit.
PolicyViolationsDenyByLimit(p, blocks) ==
    CASE p.unsafe_policy = "Deny" -> {}
      [] p.unsafe_policy = "AllowWithReview" ->
           {<<"lacks review", i>> : i \in {j \in 1 .. Len(blocks) : ~blocks[j].reviewed}}
      [] p.unsafe_policy = "AllowWithAudit" ->
           {<<"lacks justification", i>> : i \in {j \in 1 .. Len(blocks) : blocks[j].reason = "blank"}}

PolicyViolations(p, blocks) ==
    CASE p.unsafe_policy = "Deny" ->
           IF Len(blocks) > 0 THEN {<<"unsafe blocks are denied">>} ELSE {}
      [] p.unsafe_policy = "AllowWithReview" ->
           {<<"lacks review", i>> : i \in {j \in 1 .. Len(blocks) : ~blocks[j].reviewed}}
      [] p.unsafe_policy = "AllowWithAudit" ->
           {<<"lacks justification", i>> : i \in {j \in 1 .. Len(blocks) : blocks[j].reason = "blank"}}

\* as_deref().unwrap_or("{}"): no reviewer at all counts as the text "{}".
ReviewerText(reviewed_by) == IF reviewed_by = None THEN "text" ELSE reviewed_by

FfiViolations(p, ffis) ==
    LET Unsafe == {i \in 1 .. Len(ffis) : ffis[i].uses_unsafe}
    IN  {<<"lacks reviewer", i>> : i \in {j \in Unsafe : ReviewerText(ffis[j].reviewed_by) = "blank"}}
        \cup (IF p.require_ffi_layout_validation
              THEN {<<"missing layout validation", i>> : i \in {j \in Unsafe : ~ffis[j].layout_validated}}
              ELSE {})
        \cup (IF p.require_ffi_lifetime_validation
              THEN {<<"missing lifetime validation", i>> : i \in {j \in Unsafe : ~ffis[j].lifetime_validated}}
              ELSE {})

Violations(p, blocks, ffis, runs) ==
    (IF p.require_miri /\ ~runs.miri THEN {<<"miri">>} ELSE {})
    \cup (IF p.require_fuzzing /\ ~runs.fuzzing THEN {<<"fuzzing">>} ELSE {})
    \cup (IF Len(blocks) > p.max_unsafe_blocks THEN {<<"count exceeds limit">>} ELSE {})
    \cup PolicyViolations(p, blocks)
    \cup FfiViolations(p, ffis)

\* A profile that allows unsafe blocks and then none of them is refused.
Misconfigured(p) == p.max_unsafe_blocks = 0 /\ p.unsafe_policy # "Deny"

Accepts(p, blocks, ffis, runs) ==
    ~Misconfigured(p) /\ Violations(p, blocks, ffis, runs) = {}

Reviewed(blocks) == Cardinality({i \in 1 .. Len(blocks) : blocks[i].reviewed})

audit_memory_safety ==
    /\ \/ /\ Misconfigured(profile)
          /\ report' = [result |-> "InvalidConfig"]
       \/ /\ ~Misconfigured(profile)
          /\ report' = [result |-> "Ok",
                        accepted |-> Accepts(profile, unsafe_records, ffi_audits, passed),
                        unsafe_block_count |-> Len(unsafe_records),
                        reviewed_unsafe_block_count |-> Reviewed(unsafe_records)]
    /\ UNCHANGED <<profile, unsafe_records, ffi_audits, passed>>

-----------------------------------------------------------------------------
(* The crate under audit.                                                  *)

Init ==
    /\ profile \in Profiles
    /\ unsafe_records = <<>>
    /\ ffi_audits = <<>>
    /\ passed \in [miri : BOOLEAN, fuzzing : BOOLEAN]
    /\ report = [result |-> "none"]

AddUnsafe(record) ==
    /\ Len(unsafe_records) < MaxUnsafe
    /\ unsafe_records' = Append(unsafe_records, record)
    /\ UNCHANGED <<profile, ffi_audits, passed, report>>

AddFfi(audit) ==
    /\ Len(ffi_audits) < MaxFfi
    /\ ffi_audits' = Append(ffi_audits, audit)
    /\ UNCHANGED <<profile, unsafe_records, passed, report>>

ReviewBlock(i) ==
    /\ ~unsafe_records[i].reviewed
    /\ unsafe_records' = [unsafe_records EXCEPT ![i].reviewed = TRUE]
    /\ UNCHANGED <<profile, ffi_audits, passed, report>>

Next ==
    \/ audit_memory_safety
    \/ \E record \in UnsafeUsageRecord : AddUnsafe(record)
    \/ \E audit \in FfiBoundaryAudit : AddFfi(audit)
    \/ \E i \in 1 .. Len(unsafe_records) : ReviewBlock(i)

Spec == Init /\ [][Next]_vars

-----------------------------------------------------------------------------
(* Properties.                                                             *)

AcceptedNow == Accepts(profile, unsafe_records, ffi_audits, passed)

\* More unsafe code never turns a rejected crate into an accepted one, and a review
\* never turns an accepted one into a rejected one: no check of the audit hides
\* what another block or boundary did.
VerdictIsMonotone ==
    [][/\ Len(unsafe_records') + Len(ffi_audits') > Len(unsafe_records) + Len(ffi_audits)
          => (AcceptedNow' => AcceptedNow)
       /\ Len(unsafe_records') = Len(unsafe_records) /\ ffi_audits' = ffi_audits
          => (AcceptedNow => AcceptedNow')]_vars

\* What passes under Deny passes under either other policy with a positive limit:
\* Deny is the strictest of the three, also for a limit above zero.
DenyIsStrictest ==
    \A policy \in UnsafeBlockPolicy :
        LET strict == [profile EXCEPT !.unsafe_policy = "Deny"]
            other == [profile EXCEPT !.unsafe_policy = policy]
        IN  /\ ~Misconfigured(other)
            /\ Accepts(strict, unsafe_records, ffi_audits, passed)
            => Accepts(other, unsafe_records, ffi_audits, passed)

\* An accepted report means that every unsafe boundary names its reviewer, which is
\* what the violation message "ffi boundary '{}' lacks reviewer" is for.
AcceptedBoundariesHaveReviewers ==
    AcceptedNow =>
        \A i \in 1 .. Len(ffi_audits) :
            ffi_audits[i].uses_unsafe => ffi_audits[i].reviewed_by \notin {None, "blank"}
=============================================================================
