-------------------------- MODULE MemorySafetyProofs --------------------------
(***************************************************************************)
(* Theorems about the memory-safety audit, for crates and profiles of any  *)
(* size.  An empty set of violations is first restated as a condition on   *)
(* each block and boundary; both properties follow from that condition.    *)
(***************************************************************************)
EXTENDS MemorySafety, TLAPS

Runs == [miri : BOOLEAN, fuzzing : BOOLEAN]

\* A block and a boundary that add no violation.
GoodBlock(p, block) ==
    /\ p.unsafe_policy # "Deny"
    /\ p.unsafe_policy = "AllowWithReview" => block.reviewed
    /\ p.unsafe_policy = "AllowWithAudit" => block.reason # "blank"
GoodFfi(p, ffi) ==
    ffi.uses_unsafe => /\ ReviewerText(ffi.reviewed_by) # "blank"
                       /\ p.require_ffi_layout_validation => ffi.layout_validated
                       /\ p.require_ffi_lifetime_validation => ffi.lifetime_validated
GoodRuns(p, runs) == (p.require_miri => runs.miri) /\ (p.require_fuzzing => runs.fuzzing)

\* The policy finds nothing exactly when every block is good.
LEMMA PolicyClean ==
    ASSUME NEW p \in MemorySafetyProfile, NEW blocks \in Seq(UnsafeUsageRecord)
    PROVE  PolicyViolations(p, blocks) = {} <=> \A i \in 1 .. Len(blocks) : GoodBlock(p, blocks[i])
<1>0. Len(blocks) \in Nat
  OBVIOUS
<1>1. CASE p.unsafe_policy = "Deny"
  <2>1. PolicyViolations(p, blocks) = {} <=> ~(Len(blocks) > 0)
    BY <1>1 DEF PolicyViolations
  <2>2. ~(Len(blocks) > 0) <=> \A i \in 1 .. Len(blocks) : FALSE
    BY <1>0
  <2> QED  BY <1>1, <2>1, <2>2 DEF GoodBlock
<1>2. CASE p.unsafe_policy = "AllowWithReview"
  <2>1. PolicyViolations(p, blocks)
          = {<<"lacks review", i>> : i \in {j \in 1 .. Len(blocks) : ~blocks[j].reviewed}}
    BY <1>2 DEF PolicyViolations
  <2>2. PolicyViolations(p, blocks) = {} <=> \A i \in 1 .. Len(blocks) : blocks[i].reviewed
    BY <2>1, Zenon
  <2> QED  BY <1>2, <2>2 DEF GoodBlock
<1>3. CASE p.unsafe_policy = "AllowWithAudit"
  <2>1. PolicyViolations(p, blocks)
          = {<<"lacks justification", i>> : i \in {j \in 1 .. Len(blocks) : blocks[j].reason = "blank"}}
    BY <1>3 DEF PolicyViolations
  <2>2. PolicyViolations(p, blocks) = {} <=> \A i \in 1 .. Len(blocks) : blocks[i].reason # "blank"
    BY <2>1, Zenon
  <2> QED  BY <1>3, <2>2 DEF GoodBlock
<1> QED  BY <1>1, <1>2, <1>3 DEF MemorySafetyProfile, UnsafeBlockPolicy

\* The boundaries are clean exactly when every one is.
LEMMA FfiClean ==
    ASSUME NEW p \in MemorySafetyProfile, NEW ffis \in Seq(FfiBoundaryAudit)
    PROVE  FfiViolations(p, ffis) = {} <=> \A i \in 1 .. Len(ffis) : GoodFfi(p, ffis[i])
<1> DEFINE Unsafe == {i \in 1 .. Len(ffis) : ffis[i].uses_unsafe}
           A == {<<"lacks reviewer", i>> :
                    i \in {j \in Unsafe : ReviewerText(ffis[j].reviewed_by) = "blank"}}
           B == {<<"missing layout validation", i>> : i \in {j \in Unsafe : ~ffis[j].layout_validated}}
           C == {<<"missing lifetime validation", i>> : i \in {j \in Unsafe : ~ffis[j].lifetime_validated}}
<1>1. A = {} <=> \A i \in 1 .. Len(ffis) :
                    ffis[i].uses_unsafe => ReviewerText(ffis[i].reviewed_by) # "blank"
  BY Zenon
<1>2. B = {} <=> \A i \in 1 .. Len(ffis) : ffis[i].uses_unsafe => ffis[i].layout_validated
  BY Zenon
<1>3. C = {} <=> \A i \in 1 .. Len(ffis) : ffis[i].uses_unsafe => ffis[i].lifetime_validated
  BY Zenon
<1>4. FfiViolations(p, ffis) = A \cup (IF p.require_ffi_layout_validation THEN B ELSE {})
                                 \cup (IF p.require_ffi_lifetime_validation THEN C ELSE {})
  BY DEF FfiViolations
<1> HIDE DEF A, B, C
<1>5. FfiViolations(p, ffis) = {} <=> /\ A = {}
                                      /\ p.require_ffi_layout_validation => B = {}
                                      /\ p.require_ffi_lifetime_validation => C = {}
  BY <1>4
<1> QED  BY <1>1, <1>2, <1>3, <1>5, Zenon DEF GoodFfi

\* A crate is accepted exactly when runs, count, blocks and boundaries are good.
LEMMA AcceptedIs ==
    ASSUME NEW p \in MemorySafetyProfile, NEW blocks \in Seq(UnsafeUsageRecord),
           NEW ffis \in Seq(FfiBoundaryAudit), NEW runs \in Runs
    PROVE  Accepts(p, blocks, ffis, runs)
           <=> /\ ~Misconfigured(p)
               /\ GoodRuns(p, runs)
               /\ Len(blocks) <= p.max_unsafe_blocks
               /\ \A i \in 1 .. Len(blocks) : GoodBlock(p, blocks[i])
               /\ \A i \in 1 .. Len(ffis) : GoodFfi(p, ffis[i])
<1> DEFINE M == IF p.require_miri /\ ~runs.miri THEN {<<"miri">>} ELSE {}
           F == IF p.require_fuzzing /\ ~runs.fuzzing THEN {<<"fuzzing">>} ELSE {}
           N == IF Len(blocks) > p.max_unsafe_blocks THEN {<<"count exceeds limit">>} ELSE {}
<1>1. (M = {} /\ F = {}) <=> GoodRuns(p, runs)
  BY Zenon DEF GoodRuns
<1>2. N = {} <=> Len(blocks) <= p.max_unsafe_blocks
  <2>1. Len(blocks) \in Nat /\ p.max_unsafe_blocks \in Nat
    BY DEF MemorySafetyProfile
  <2>2. N = {} <=> ~(Len(blocks) > p.max_unsafe_blocks)
    BY Zenon
  <2>3. ~(Len(blocks) > p.max_unsafe_blocks) <=> Len(blocks) <= p.max_unsafe_blocks
    BY <2>1
  <2> HIDE DEF N
  <2> QED  BY <2>2, <2>3
<1>3. Violations(p, blocks, ffis, runs)
        = M \cup F \cup N \cup PolicyViolations(p, blocks) \cup FfiViolations(p, ffis)
  BY DEF Violations
<1> HIDE DEF M, F, N
<1>4. Violations(p, blocks, ffis, runs) = {}
        <=> /\ M = {} /\ F = {} /\ N = {}
            /\ PolicyViolations(p, blocks) = {} /\ FfiViolations(p, ffis) = {}
  BY <1>3
<1> QED  BY <1>1, <1>2, <1>4, PolicyClean, FfiClean, Zenon DEF Accepts

-----------------------------------------------------------------------------

Crate ==
    /\ profile \in MemorySafetyProfile
    /\ unsafe_records \in Seq(UnsafeUsageRecord)
    /\ ffi_audits \in Seq(FfiBoundaryAudit)
    /\ passed \in Runs

\* The crate under audit is well formed.
THEOREM CrateInvariant == Spec => []Crate
<1>1. Init => Crate
  BY ProfileAssumption DEF Init, Crate, Runs
<1>2. Crate /\ [Next]_vars => Crate'
  <2> SUFFICES ASSUME Crate, [Next]_vars PROVE Crate'
    OBVIOUS
  <2>1. CASE UNCHANGED <<profile, unsafe_records, ffi_audits, passed>>
    BY <2>1 DEF Crate
  <2>2. ASSUME NEW record \in UnsafeUsageRecord, AddUnsafe(record) PROVE Crate'
    BY <2>2 DEF AddUnsafe, Crate
  <2>3. ASSUME NEW audit \in FfiBoundaryAudit, AddFfi(audit) PROVE Crate'
    BY <2>3 DEF AddFfi, Crate
  <2>4. ASSUME NEW i \in 1 .. Len(unsafe_records), ReviewBlock(i) PROVE Crate'
    <3>1. unsafe_records[i] \in UnsafeUsageRecord
      BY DEF Crate
    <3>2. [unsafe_records[i] EXCEPT !.reviewed = TRUE] \in UnsafeUsageRecord
      BY <3>1 DEF UnsafeUsageRecord
    <3>3. unsafe_records' \in Seq(UnsafeUsageRecord)
      BY <2>4, <3>2 DEF ReviewBlock, Crate
    <3> QED  BY <2>4, <3>3 DEF ReviewBlock, Crate
  <2> QED  BY <2>1, <2>2, <2>3, <2>4 DEF Next, audit_memory_safety, vars
<1> QED  BY <1>1, <1>2, PTL DEF Spec

\* What Deny lets pass, every policy with a positive limit lets pass: Deny accepts
\* only crates without unsafe blocks, which no policy holds against them.
THEOREM DenyIsTheStrictest == Spec => []DenyIsStrictest
<1>1. Crate => DenyIsStrictest
  <2> SUFFICES ASSUME Crate, NEW policy \in UnsafeBlockPolicy,
                      ~Misconfigured([profile EXCEPT !.unsafe_policy = policy]),
                      Accepts([profile EXCEPT !.unsafe_policy = "Deny"],
                              unsafe_records, ffi_audits, passed)
               PROVE  Accepts([profile EXCEPT !.unsafe_policy = policy],
                              unsafe_records, ffi_audits, passed)
    BY DEF DenyIsStrictest
  <2> DEFINE strict == [profile EXCEPT !.unsafe_policy = "Deny"]
             other == [profile EXCEPT !.unsafe_policy = policy]
  <2>1. strict \in MemorySafetyProfile /\ other \in MemorySafetyProfile
    BY DEF Crate, MemorySafetyProfile, UnsafeBlockPolicy
  <2>2. /\ strict.unsafe_policy = "Deny"
        /\ strict.require_miri = other.require_miri
        /\ strict.require_fuzzing = other.require_fuzzing
        /\ strict.max_unsafe_blocks = other.max_unsafe_blocks
        /\ strict.require_ffi_layout_validation = other.require_ffi_layout_validation
        /\ strict.require_ffi_lifetime_validation = other.require_ffi_lifetime_validation
    BY DEF Crate, MemorySafetyProfile
  <2>3. Accepts(strict, unsafe_records, ffi_audits, passed) /\ ~Misconfigured(other)
    OBVIOUS
  <2> HIDE DEF strict, other
  <2>4. /\ GoodRuns(strict, passed)
        /\ Len(unsafe_records) <= strict.max_unsafe_blocks
        /\ \A i \in 1 .. Len(unsafe_records) : GoodBlock(strict, unsafe_records[i])
        /\ \A i \in 1 .. Len(ffi_audits) : GoodFfi(strict, ffi_audits[i])
    BY <2>1, <2>3, AcceptedIs DEF Crate
  <2>5. \A i \in 1 .. Len(unsafe_records) : GoodBlock(other, unsafe_records[i])
    BY <2>2, <2>4 DEF GoodBlock
  <2>6. GoodRuns(other, passed)
    BY <2>2, <2>4 DEF GoodRuns
  <2>7. \A i \in 1 .. Len(ffi_audits) : GoodFfi(other, ffi_audits[i])
    BY <2>2, <2>4 DEF GoodFfi
  <2>8. Len(unsafe_records) <= other.max_unsafe_blocks
    BY <2>2, <2>4
  <2>9. Accepts(other, unsafe_records, ffi_audits, passed)
    BY <2>1, <2>3, <2>5, <2>6, <2>7, <2>8, AcceptedIs DEF Crate
  <2> QED  BY <2>9 DEF other
<1> QED  BY <1>1, CrateInvariant, PTL

\* A crate that grows is accepted only if the smaller one was.
LEMMA GrowthNeverHelps ==
    ASSUME Crate, NEW blocks \in Seq(UnsafeUsageRecord), NEW ffis \in Seq(FfiBoundaryAudit),
           Len(unsafe_records) <= Len(blocks), Len(ffi_audits) <= Len(ffis),
           \A i \in 1 .. Len(unsafe_records) : blocks[i] = unsafe_records[i],
           \A i \in 1 .. Len(ffi_audits) : ffis[i] = ffi_audits[i],
           Accepts(profile, blocks, ffis, passed)
    PROVE  AcceptedNow
<1>1. /\ ~Misconfigured(profile)
      /\ GoodRuns(profile, passed)
      /\ Len(blocks) <= profile.max_unsafe_blocks
      /\ \A i \in 1 .. Len(blocks) : GoodBlock(profile, blocks[i])
      /\ \A i \in 1 .. Len(ffis) : GoodFfi(profile, ffis[i])
  BY AcceptedIs DEF Crate
<1>2. /\ Len(unsafe_records) \in Nat /\ Len(ffi_audits) \in Nat /\ Len(blocks) \in Nat
      /\ Len(ffis) \in Nat /\ profile.max_unsafe_blocks \in Nat
  BY DEF Crate, MemorySafetyProfile
<1>3. Len(unsafe_records) <= profile.max_unsafe_blocks
  BY <1>1, <1>2
<1>4. \A i \in 1 .. Len(unsafe_records) : i \in 1 .. Len(blocks)
  BY <1>2
<1>5. \A i \in 1 .. Len(unsafe_records) : GoodBlock(profile, unsafe_records[i])
  BY <1>1, <1>4
<1>6. \A i \in 1 .. Len(ffi_audits) : i \in 1 .. Len(ffis)
  BY <1>2
<1>7. \A i \in 1 .. Len(ffi_audits) : GoodFfi(profile, ffi_audits[i])
  BY <1>1, <1>6
<1> QED  BY <1>1, <1>3, <1>5, <1>7, AcceptedIs DEF Crate, AcceptedNow

\* More unsafe code never makes a rejected crate accepted, and a review never makes
\* an accepted one rejected.
THEOREM VerdictsAreMonotone == Spec => VerdictIsMonotone
<1> DEFINE Grew == Len(unsafe_records') + Len(ffi_audits') > Len(unsafe_records) + Len(ffi_audits)
           Same == Len(unsafe_records') = Len(unsafe_records) /\ ffi_audits' = ffi_audits
           Monotone == (Grew => (AcceptedNow' => AcceptedNow)) /\ (Same => (AcceptedNow => AcceptedNow'))
<1>1. Crate /\ Crate' /\ [Next]_vars => [Monotone]_vars
  <2> SUFFICES ASSUME Crate, Crate', [Next]_vars PROVE Monotone
    OBVIOUS
  <2>0. Len(unsafe_records) \in Nat /\ Len(ffi_audits) \in Nat
    BY DEF Crate
  <2>1. CASE UNCHANGED <<profile, unsafe_records, ffi_audits, passed>>
    <3>1. ~Grew
      BY <2>0, <2>1
    <3>2. AcceptedNow' <=> AcceptedNow
      BY <2>1 DEF AcceptedNow, Accepts, Misconfigured, Violations, PolicyViolations,
                  FfiViolations, ReviewerText
    <3> QED  BY <3>1, <3>2
  <2>2. ASSUME NEW record \in UnsafeUsageRecord, AddUnsafe(record) PROVE Monotone
    <3>1. /\ unsafe_records' = Append(unsafe_records, record)
          /\ UNCHANGED <<profile, ffi_audits, passed>>
      BY <2>2 DEF AddUnsafe
    <3>2. /\ Len(unsafe_records') = Len(unsafe_records) + 1
          /\ \A i \in 1 .. Len(unsafe_records) : unsafe_records'[i] = unsafe_records[i]
      BY <3>1 DEF Crate
    <3>3. ~Same
      BY <2>0, <3>2
    <3>4. ASSUME AcceptedNow' PROVE AcceptedNow
      <4>1. Accepts(profile, unsafe_records', ffi_audits, passed)
        BY <3>1, <3>4 DEF AcceptedNow, Accepts, Misconfigured, Violations, PolicyViolations,
                          FfiViolations, ReviewerText
      <4>2. unsafe_records' \in Seq(UnsafeUsageRecord) /\ ffi_audits \in Seq(FfiBoundaryAudit)
        BY DEF Crate
      <4>3. Len(unsafe_records) <= Len(unsafe_records') /\ Len(ffi_audits) <= Len(ffi_audits)
        BY <2>0, <3>2
      <4> QED  BY <3>2, <4>1, <4>2, <4>3, GrowthNeverHelps
    <3> QED  BY <3>3, <3>4
  <2>3. ASSUME NEW audit \in FfiBoundaryAudit, AddFfi(audit) PROVE Monotone
    <3>1. /\ ffi_audits' = Append(ffi_audits, audit)
          /\ UNCHANGED <<profile, unsafe_records, passed>>
      BY <2>3 DEF AddFfi
    <3>2. /\ Len(ffi_audits') = Len(ffi_audits) + 1
          /\ \A i \in 1 .. Len(ffi_audits) : ffi_audits'[i] = ffi_audits[i]
      BY <3>1 DEF Crate
    <3>3. ~Same
      BY <2>0, <3>2
    <3>4. ASSUME AcceptedNow' PROVE AcceptedNow
      <4>1. Accepts(profile, unsafe_records, ffi_audits', passed)
        BY <3>1, <3>4 DEF AcceptedNow, Accepts, Misconfigured, Violations, PolicyViolations,
                          FfiViolations, ReviewerText
      <4>2. ffi_audits' \in Seq(FfiBoundaryAudit) /\ unsafe_records \in Seq(UnsafeUsageRecord)
        BY DEF Crate
      <4>3. Len(unsafe_records) <= Len(unsafe_records) /\ Len(ffi_audits) <= Len(ffi_audits')
        BY <2>0, <3>2
      <4> QED  BY <3>2, <4>1, <4>2, <4>3, GrowthNeverHelps
    <3> QED  BY <3>3, <3>4
  <2>4. ASSUME NEW i \in 1 .. Len(unsafe_records), ReviewBlock(i) PROVE Monotone
    <3>1. UNCHANGED <<profile, ffi_audits, passed>>
      BY <2>4 DEF ReviewBlock
    <3>2. /\ Len(unsafe_records') = Len(unsafe_records)
          /\ \A j \in 1 .. Len(unsafe_records) :
                /\ unsafe_records'[j].reason = unsafe_records[j].reason
                /\ unsafe_records[j].reviewed => unsafe_records'[j].reviewed
      <4>1. unsafe_records[i] \in UnsafeUsageRecord
        BY DEF Crate
      <4>2. \A j \in 1 .. Len(unsafe_records) : unsafe_records'[j]
               = IF j = i THEN [unsafe_records[i] EXCEPT !.reviewed = TRUE] ELSE unsafe_records[j]
        BY <2>4 DEF ReviewBlock, Crate
      <4>3. Len(unsafe_records') = Len(unsafe_records)
        BY <2>4 DEF ReviewBlock, Crate
      <4> QED  BY <4>1, <4>2, <4>3 DEF UnsafeUsageRecord
    <3>3. ~Grew
      BY <2>0, <3>1, <3>2
    <3>4. ASSUME AcceptedNow PROVE AcceptedNow'
      <4>1. /\ ~Misconfigured(profile)
            /\ GoodRuns(profile, passed)
            /\ Len(unsafe_records) <= profile.max_unsafe_blocks
            /\ \A j \in 1 .. Len(unsafe_records) : GoodBlock(profile, unsafe_records[j])
            /\ \A j \in 1 .. Len(ffi_audits) : GoodFfi(profile, ffi_audits[j])
        BY <3>4, AcceptedIs DEF Crate, AcceptedNow
      <4>2. \A j \in 1 .. Len(unsafe_records') : GoodBlock(profile, unsafe_records'[j])
        BY <3>2, <4>1 DEF GoodBlock
      <4>3. unsafe_records' \in Seq(UnsafeUsageRecord)
        BY DEF Crate
      <4>4. Accepts(profile, unsafe_records', ffi_audits, passed)
        BY <3>2, <4>1, <4>2, <4>3, AcceptedIs DEF Crate
      <4> QED  BY <3>1, <4>4 DEF AcceptedNow, Accepts, Misconfigured, Violations,
                                 PolicyViolations, FfiViolations, ReviewerText
    <3> QED  BY <3>3, <3>4
  <2> QED  BY <2>1, <2>2, <2>3, <2>4 DEF Next, audit_memory_safety, vars
<1> QED  BY <1>1, CrateInvariant, PTL DEF Spec, VerdictIsMonotone
===============================================================================
