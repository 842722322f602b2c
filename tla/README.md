# A formal model of lite-llm-security

lite-llm-security is a Rust library with the security building blocks of an LLM
runtime: keys, signed model manifests, an audit log, encryption at rest, access
rules, a plugin sandbox and several audits. This directory models it in TLA+,
checks the models with TLC on small instances and proves every safety property the
passing runs check with TLAPS, for every value of the constants. Where the code does
not do what its texts say, a run shows it (see Findings).

The library is sequential. It starts no thread, holds no lock and waits for
nothing: every operation is a call that returns. What is hard about it is the
order of calls (any caller may make any call at any time), what a failed call
leaves behind, integers at the end of their range, state that has changed since
something was computed from it, and the environment between two calls or, for the
loader, within one.

## Inventory

| component | state | operations | what is hard | what makes it correct |
|---|---|---|---|---|
| key management (`key_management.rs`) | rotation policy, buckets of keys per identifier, access policies | `new`, `add_access_policy`, `generate_key`, `rotate_key`, `revoke_key`, `retrieve_key` | versions generated in any order and repeatedly; lookups find the first of equal versions; `u32` versions and days | buckets sorted; revocation is for good; rotation takes a new version; a key is served in its window and not after it |
| audit log (`audit.rs`) | chained, signed records | `append`, `verify_chain`, `root_hash` | stale sequence numbers; appends on a damaged log; damage that leaves a consistent chain; texts that contain the separator | a verified log vouches for its records; an append does not change the verdict; the root hash pins the content |
| integrity and loading (`integrity.rs`) | manifest with stored hash and envelope, verifying keys, artifact store | `recompute_hash`, `sign_with`, `register_key`, `register_key_from_hex`, `verify_signature`, `load` | edits after hashing or signing, replaced keys, names with separators in them, a store that changes during a load | only what the registered key signed is loaded; each shard matched its digest; listing order is irrelevant |
| memory-safety audit (`memory_safety.rs`) | none: a function of profile, unsafe blocks, boundaries, two test results | `audit_memory_safety` | interplay of policy, limit and validation flags; optional reviewer | more unsafe code never helps, a review never harms, Deny is the strictest policy |
| encryption at rest (`encryption.rs`) | none; encrypted shards carry metadata | `DerivedKey::derive`, `encrypt_shard_at_rest`, `decrypt_shard_at_rest`, `compute_shard_digest` | versions of a key between encryption and decryption; damaged metadata; repeated seeds | decryption yields the plaintext that was encrypted or fails |
| access control (`access_control.rs`) | roles per action, policies per tier | `set_action_roles`, `set_tier_policy`, `authorize`, `authorized_tiers` | two pieces of code read the same policies; a downgrade may name any tier | an allowed tier is an authorized one; a further role never hurts |
| sandbox (`sandbox.rs`) | configuration, capability tokens, usage per plugin | `configure`, `grant_capabilities`, `validate_capability`, `validate_syscall`, `record_usage`, revocation | token identifiers do not depend on the capabilities; `u64` expiry; limits lowered after usage was recorded | a plugin has a capability only under a live token that grants it |
| zeroization (`zeroization.rs`) | tracker of events; buffers of the caller | `zeroize_session_buffers`, `secure_zeroize_bytes`, `secure_zeroize_f32` | three flags over two buffers, early return | an event is recorded exactly for the buffers that were cleared |
| compliance (`compliance.rs`) | a profile | `evaluate`, `enabled_controls` | tables per regulation | ready exactly when no required control is missing |
| hardening (`hardening.rs`) | a checklist | `mark_completed`, `report` | repeated identifiers | completed items are never reported as missing |
| hex and hash helpers (`types.rs`) | none | `fnv64_hex`, `pseudo_sha256_hex`, `hex_encode`, `hex_decode` | odd lengths, digits of either case | decode inverts encode |
| errors, crate root (`error.rs`, `lib.rs`) | none | none | | |

How they interact. The modules of the crate do not call each other, except for the
helpers and the error type; `encryption.rs` uses the type `KeyMaterialRef` of
`key_management.rs`. The composition is the caller's: the material `retrieve_key`
returns is what `encrypt_shard_at_rest` takes, and loads, decisions and revocations
are what a caller appends to the audit log. The only callback is the artifact store,
a trait object `load` reads once per shard.

## Modules

`KeyManagement` models `KeyManager`. `keys` maps each identifier to its
`Vec<ManagedKey>`; an absent entry is the empty sequence. There is one action per
method, with one disjunct per outcome (early return, panic, success), and `response`
is what the call returned. `generate_key` and `rotate_key` share `Generate`, as in
the code; the `push` and stable sort are the insertion point `InsertPoint`.
Arithmetic on `u32` is `AddU32` modulo `Word`, and `OverflowChecks` chooses between
a debug build, which panics, and a release build, which wraps. Derived material is
identified by the inputs it is derived from.

`AuditLog` models `DeterministicAuditLog` together with its surroundings: appenders
with any sequence number, an observer that keeps the root hash of logs it saw
verified, and faults of the storage that alter, drop or swap records. A fault may
recompute the digests, which take no key, but can only copy signatures.
`canonical_event_payload` joins the three texts with a bar, as the code does, so
different events can have one payload. `receipts` and `anchors` are history: what
was acknowledged, and what was seen verified.

`ModelLoader` models the manifest, `SignatureVerifier` and `SecureModelLoader::load`. The
manifest and the verifier are borrowed by `load`, so nothing but the store can change
while it runs; `LoadStart` makes the checks of the manifest in the order of the code
and `LoadShard` is one turn of the loop, between which `ChangeStore` may happen.
`CheckShard` is the body of that loop with the digest verifier in it. Digests and
signatures are terms over what they are made from. `sign_with` signs the stored hash.
The fields of a manifest are public: between calls anyone who holds it may edit it,
damage its hash, or put another key id, damage or an older signature into its envelope.

The canonical form is made in two steps. `canonical_fields` sorts: tiers become the
number of occurrences of each, shards keep their content and get a `Place` in the list
sorted by path, stably. `Text` writes the fields out as the code does, as a sequence of
words and separators; names are such sequences too and are written as they are, so a
name with a bar or a newline in it can make two manifests have one text. `hashed`,
`signed` and `held` are history: what the stored hash was computed from, what was
signed, and what the store held during a load.

`MemorySafety` models `audit_memory_safety` and a crate that grows and is reviewed.

`EncryptedStorage` composes `encryption.rs` with `KeyManagement`. A client retrieves
key material and keeps it, encrypts and decrypts with what it keeps, while `Manage`
takes any step of the key manager and `Damage` lets the storage return any ciphertext
it was ever given, or noise, under any metadata. `derive` is HKDF and the nonce,
`Seal`, `Opens` and `Opened` are AES-GCM. `written` is history.

`Sandbox` models `SandboxRuntime`: capability tokens, the syscall list and resource
usage. `token_id` hashes plugin, step, lifetime and seed; the hash is the constant
`Fnv64`, so that a run can choose which requests collide. `standing` and `fresh` are
history: the last grant of each request not revoked since, and the plugins whose usage
was recorded under the present configuration. `Builds` says whether a `u64` sum that
overflows panics, wraps, or may do either; a panic changes nothing, so both together are
the release build with some calls that fail.

`AccessControl` models `AccessController`: the two setters are actions, `authorize` and
`authorized_tiers`, which keep nothing of a decision, are operators on the state the
setters leave. It is one of the parts put side by side in `Parts`.

`Zeroization` models `zeroize_session_buffers` and sessions that fill their buffers
again; `Compliance` the tables of control names and `evaluate`; `Hardening` the
checklist with items pushed by a deployment; `HexCodec` the hex functions with a text
that changes on its way; `Fnv64` two inputs of the hash read side by side, with the word,
the offset and the prime as constants. `Parts` puts these five and `AccessControl`, which
share no state with another module, side by side; each of its behaviours is one of one of them, chosen at
the start.

`KeyRegistry` is the abstract specification of the key manager and `KeyRefinement` the
mapping to it, `ApprovedModels` and `LoaderRefinement` those of the loader; see below.

The modules whose names end in `Proofs` hold the theorems, and those whose names start
with `MC` give the constants small values.

### The refinements

A bucket of the key manager may hold several keys of one version, of different kinds
and materials. `KeyRegistry` has none of that: a set with at most one key per
identifier and version, no positions, no dates. `Registry` maps the buckets to it by
taking, of each version, the first key. `generate_key` for a version that is taken is
a call that succeeds and changes nothing; `revoke_key` changes the one key of that
name; a refused call, for whatever reason, changes nothing. The registry may refuse at
any time: when a key is served is the matter of `NeverServedLate` and
`ServedThroughWindow`. One thing shows through the abstraction: `rotate_key` takes the
kind of the last key of the bucket, which may be a duplicate no lookup finds, so the
registry allows a rotation to any kind.

`ApprovedModels` is what a user of the loader relies on: keys are trusted under
identifiers, the holders of keys approve contents (a name, tiers and shards), and a load
answers with a model some content describes that the key trusted under some identifier
approved, or with nothing. There is no manifest in it that could be edited, no stored
hash, no signature, no store and no loop. `LoaderRefinement` maps every signature to the
approval of the fields its hash was computed from. A load takes effect in the step in
which it returns. What must then be shown is that the model, put together from the
manifest field by field and path by path while the store changed, is all of the approved
content and nothing else. What the files contained is the matter of
`ShardsMatchedDuringLoad`.

This holds only of manifests whose texts tell them apart: `TextsUnambiguous` says that
drafts with one text have the same fields. The runs `publishing` and `loading` have
plain names and assert it (`ASSUME` in `MCModelLoader`), the theorem assumes it, and the
run `manifest_names` shows what happens without it.

### Abstractions

- SHA-256, SHA-512 and Ed25519 are ideal: a digest is identified with its input, a
  signature with its key and message. Nothing is said of collisions.
- Strings are members of small sets, except where they are joined: the texts of an
  event and the names in a manifest are sequences of words and separators, because
  joining them loses where one ends. The words written for numbers, digests and
  algorithms have no separators in the instances. Strings that trim to the empty
  string are represented by one.
- Error values are represented by their variant; panics are the outcome `"panic"`.
  After a panic the manager goes on: a panic leaves it unchanged in every case
  modelled, so a caller that catches it finds that state.
- The violation messages of the memory audit are a set of what they are about.

Behaviours the models keep that a reader may not expect:

- `retrieve_key` asks the policy about the reference the caller presents; the `kind`
  in it is not compared with the kind of the stored key.
- `load` reports the tiers of the manifest as loaded and requires no shard for each:
  the quick start of the repository's README lists two tiers and a shard for one.
- Decryption reads neither `algorithm` nor `auth_tag_hex` nor the prefix of the nonce,
  and the metadata is not authenticated. It is bound indirectly: tier and seed enter
  the derivation, identifier and version the material (`DecryptedWasEncrypted`).
- Material retrieved before a revocation still decrypts after it.
- Tokens can be granted and used before `configure`, and are valid before the step
  they were issued at. A second grant of one request replaces the capabilities of the
  first.
- `authorized_tiers` checks neither a blank principal nor the roles of an action. An
  action without an entry is open to everyone, and a request without a tier is allowed
  once the action is.
- `zeroize_session_on_end` alone clears the cache and leaves the keys.
- `mark_completed` finds the first item of an id: a second one is never completed.

## Runs

| run | instance | what it shows |
|---|---|---|
| `key_lifecycle` | one usable and one blank identifier, 2 kinds, `Word` = 4, 3 keys, wrapping sums | any order of generating, rotating and revoking keeps buckets sorted, revocations permanent, rotated versions new, and keys in use retrievable with the same material; the key manager implements `KeyRegistry` |
| `key_expiry` | every day of a clock with `Word` = 8, all periods to 3 and overlaps to 3, wrapping sums | a key is never served after activation + period + overlap in unbounded integers, and always until then while that day fits the word |
| `audit` | 3 records, 1 fault, texts with and without a bar | an untouched log verifies; each record of a verified log was acknowledged with its canonical payload and, unless a bar is in its actor or action, with its event; an append keeps the verdict, also on a damaged log; the root hash tells a truncated log from the one seen before |
| `audit_events` | 1 record, actors and actions with and without a bar | violated: see the findings |
| `publishing` | 3 drafts, 2 keys, 2 key identifiers, 2 signatures | whatever the order of editing, hashing, signing, registering and changing envelopes, the loader implements `ApprovedModels`: only what the key now registered signed is loaded; a fresh signature is accepted |
| `loading` | 8 manifests, 3 paths, 3 payloads | shards are verified while the store changes, listing order does not matter; the loader implements `ApprovedModels`, shard by shard; a load succeeds if the store matches from its start on, also when a path is listed twice |
| `manifest_names` | 2 manifests, one with a path that spells the line of another shard | violated: see the findings |
| `memory_verdict` | 72 profiles, 2 blocks, 1 boundary | the verdict is monotone in the crate, and Deny is the strictest policy |
| `memory_reviewer` | 1 block, 1 boundary | violated: see the findings |
| `storage` | one key of 2 versions, 2 keys in all, 2 tiers, seeds and plaintexts, 2 writes; sums panic | what decrypts was encrypted under what the metadata names; what was encrypted stays readable while its key is served; key and nonce are shared only by a repeated seed |
| `sandbox` | 2 plugins and a blank one, `Word` = 4, a hash under which the requests for a lifetime of 1 collide and the others do not; limits and usage to 2; sums wrap or panic | collisions, re-grants and wrapping sums never give anyone more than was granted; a grant whose hash is its own is served to its last step whatever else is granted or revoked; usage recorded under the present configuration is within its limits |
| `parts` | one part at a time: 2 tiers with policies that downgrade to a lower, a higher, the same or no tier; 2 sessions and 4 events; all 256 profiles and all regulations; the 6 default items and 2 pushed; 2 bytes at the edges of a digit; the low 8 bits of the hash (which depend on nothing else) over digits and the separator | `authorize` and `authorized_tiers` agree and a further role never hurts; the events tell exactly which buffers are clear; report and listing agree and each missing control is one field away; the checklist report follows the marks, also when an id is listed twice; what arrives unharmed decodes, and nothing that is no encoding does; one changed byte always changes the hash, from every state of it |

### Bounds

`MaxVersions` limits the keys of an identifier. Three are needed for the interesting
case of the lifecycle: two keys of one version and a third of another. `Word` replaces
2^32; with 4 the versions are 1, 2 and 3, so a rotation into the limit takes two
steps. In `key_expiry` the word exceeds the largest single period while period and
overlap together pass it from all but the first days. `MaxRecords` = 3 lets a record in the middle
be damaged, dropped or swapped with one on either side, and `MaxFaults` = 1 keeps one
fault of each kind between any two calls; `AuditLogProofs` lifts both bounds.
`MaxSignatures` = 2 leaves one stale signature beside the current one, which can be put
back into the envelope. `MaxUnsafe` = 2
makes one block hide behind another if a check looked at one only. The bounds appear
in guards of actions only, and only on what makes state grow.

`MaxWrites` = 2 compares two encryptions, and two keys are enough for a rotated pair or
a version generated twice. In `sandbox` some sums pass the
word and some do not, and a grant at step 0 for 2 steps is asked for at its last step.
Tokens and limits share no variable, so that run goes on only from states that have no
token or no configuration (`MCOneAtATime`): each half is explored in full, their product
is not. The proofs have no such restriction. `MaxEvents` = 4 clears both buffers twice. `MaxItems` = 8 adds two
items, so an id may be listed three times. The runs with a `VIEW` leave out what the
last call returned: no guard and no invariant reads it, and `AppendKeepsVerdict` reads
the response of the very step it judges, so the states the view identifies have the
same futures.

### Deadlock and fairness

Deadlock is checked in every run but `parts`: some call is always possible. In the hex
part of `parts` the encoding ends after `MaxBytes` bytes and the whole text may then be
lost.

Fairness is assumed in one place: in `loading`, weak fairness of `LoadShard`, for
`StableLoadSucceeds`. A load that has begun is a running call, and its loop goes on. The
store may change between any two turns, without fairness. Nothing else in the library
goes on by itself, so no other fairness is justified.

## Findings

**A missing reviewer.** `memory_safety.rs:109` tests `reviewed_by.as_deref().unwrap_or("{}").trim()` for
emptiness. With `reviewed_by` = `None` the text is `{}`, which is not blank, so an
unsafe boundary that has no reviewer produces no violation and the crate is
accepted, although the message of that check is `ffi boundary '{}' lacks reviewer`
(line 111). Only an empty or blank name is reported. The run `memory_reviewer` finds
an accepted crate with such a boundary.

**Names with separators in a manifest.** `integrity.rs:163-185` writes the model name and
each path into the canonical text as they are, and `validate_shape` (196-217) forbids no
separator in them. A manifest with two shards and one with a single shard whose path
contains a bar and a newline can therefore have one text, and so one hash and one
signature. The code calls the text the "canonical serialized form of the manifest for
hashing" (`integrity.rs:155`) and the repository's README speaks of a "cryptographically
signed model manifest with canonical serialization" (line 44). The run `manifest_names`
loads a manifest that does not say what the signed one said (`LoadedAsPublished`). What
holds for all names is `LoadedHashWasSigned`; with names that keep texts apart,
`LoadedAsPublished` and `ImplementsApproval` are proved.

**Texts with bars in an event.** `audit.rs:160` joins actor, action and payload with a
bar that each of them may contain. A record in which such a bar belongs to another text
than before keeps its digests and its signature, and `verify_chain` accepts it, although
the log is described as tamper-evident (line 34 of the repository's README,
`hardening.rs:90`) and a test expects a changed event to be reported (`audit.rs:202`). The
run `audit_events` verifies a log with an event nobody appended
(`VerifiedEventsWereAppended`). What holds for all texts is that each canonical payload
was appended; where actor and action have no bar, the event was
(`VerifiedRecordsWereAppended`, proved).

## Proofs

TLAPS checks the following for every value of the constants that satisfies the
assumptions in the modules.

| theorem | property | argument |
|---|---|---|
| `TypeCorrect` | `TypeOK` of `KeyManagement` | inductive. Every step inserts one key in one bucket, flags one key or changes no bucket (`NextStep`); sums of `u32` are `u32` in both builds |
| `BucketsAreOrdered` | `BucketsOrdered` | inductive with `TypeOK`: the insertion point keeps a sorted bucket sorted, a flag changes no version |
| `RevokedStaysRevoked` | `RevocationIsPermanent` | a lookup is the least index with the version (`LeastNat`); insertion puts a key behind its equals, so the first stays the first (`InsertKeepsFirst`), and no step clears a flag |
| `RotationIssuesFreshVersions` | `RotationIsFresh` | the last key of a sorted bucket has the largest version; a sum that wraps is 0, which `generate_key` refuses |
| `ServiceStaysStable` | `ServiceIsStable` | a step that revokes nothing leaves the key found the same one (`LookupStep`), the rotation policy never changes, and only `add_access_policy` changes a policy |
| `NotServedLate`, `ServedUntilThen` | `NeverServedLate`, `ServedThroughWindow` | the invariant `ExpiriesSet`: `expires_day` is the `u32` sum of activation and period; the rest is arithmetic |
| `LogInvariant`, `EventsInvariant` | | inductive invariants below |
| `UntouchedVerifies` | `UntouchedLogVerifies` | invariant while no fault happened: an append extends a chain that verifies |
| `AppendKeepsTheVerdict` | `AppendKeepsVerdict` | an append leaves the old records as they are and its own record always verifies on top of them |
| `VerifiedMeansAppended` | `VerifiedRecordsWereAppended` | a record that verifies carries a signature, which some receipt carries too; digests then determine chain hash, previous hash and payload. The text of an event whose actor and action have no bar determines the event: the first bar ends the actor, the next the action (`SplitAtBar`, `PayloadTellsEvents`) |
| `RootPinsContent` | `RootHashPinsContent` | two verified logs with one root agree backwards from their ends, by induction on the distance from the end in the form of a least counterexample (`SameRoot`) |
| `LoaderInvariant` | | inductive invariant below |
| `LoadedWasSigned` | `LoadedHashWasSigned` | a load that ends well began with an accepted manifest, which nothing changes until it ends; a signature in the envelope was made by `sign_with` |
| `SignedIsAccepted` | `SignedManifestIsAccepted` | the hash does not depend on the envelope (`HashOfFields`), so each check passes |
| `LoadedShardsMatched` | `ShardsMatchedDuringLoad` | each turn of the loop that succeeds matched what the store held then, and history keeps it |
| `TypesInvariant`, `LoaderTypeCorrect` | `TypeOK` of `ModelLoader` | inductive relative to `LoaderInv`, which bounds the shard a load is at |
| `OrderIsIrrelevant` | `VerdictIgnoresOrder` | exchanging neighbours maps positions to positions and is its own inverse, so what is counted keeps its cardinality: occurrences of a tier (`SortedForgets`) and, for shards with different paths, places in the sorted list (`PlacedForgets`); every other check is about elements and not positions (`ExchangeKeepsElements`) |
| `HashesInvariant`, `LoadedWasPublished` | `LoadedAsPublished`, assuming `TextsUnambiguous` | each hash stored or signed is that of the fields history names (`HashesMade`); the manifest that loads has the text of such fields, so by the assumption the same fields (`AcceptedWasPublished`) |
| `LoaderImplementsApproval` | `ImplementsApproval`, assuming `TextsUnambiguous` | step simulation with `LoaderInv`, `LoaderTypes` and `HashesMade`: the step that returns a model maps to `Load`, signing to `Approve`, store changes and the turns before the last to no step. Places in the sorted list differ (`PlacesDiffer`), so the canonical list has an entry for each shard (`EntriesCount`) and the sorted paths are the ones the content describes (`LoadedIsDescribed`) |
| `ManagerImplementsRegistry` | `ImplementsRegistry` | step simulation: inserting a key changes what lookups find by that key or not at all (`InsertLooked`), flagging the first key changes just that one (`FlagRegistry`); one lemma per method |
| `TokensGiveNoMore` | `NoCapabilityOutlivesGrant` | invariant `TokensWereGranted`: each token is the last grant of some request that stands |
| `GrantsAreServed` | `GrantIsServed` | invariant `GrantsHaveTokens`: each grant that stands, and whose request the hash tells from all others, has its token in the map |
| `LimitsHold` | `FreshUsageWithinLimits` | inductive with the validity of the configuration |
| `ClientInvariant` | | inductive invariant of `EncryptedStorage`, below |
| `DecryptionIsRight` | `DecryptedWasEncrypted` | a ciphertext determines key and plaintext, the key its material and tier, the material its identifier and version |
| `WrittenIsReadable` | `ReadableWhileServed` | the material a version resolves to is the one it was encrypted with |
| `NonceReuseIsTheCallers` | `KeyAndNonceNotShared` | the derivation is injective and material names its version |
| `AllowedIsListed`, `MoreRolesHelp` | `ListedIsAllowed`, `RolesOnlyHelp` | each tier has at most one policy (`PolicyInvariant`); what `authorize` returns is then a condition on roles, tenants and that policy in which roles occur only positively (`AuthorizeKind`) |
| `TrackerTellsTruth` | `EventsTellTruth` | inductive with the types: the events a call appends name exactly the buffers it clears (`RecordsAreCleared`) |
| `ReportsAgreeWithListing`, `EveryMissingCanBeMended` | `ReportAgreesWithListing`, `MissingCanBeMended` | every required control is in the list (`RequiredIsListed`) and controls and profile fields correspond one to one (`ControlHasField`, `FieldHasControl`) |
| `ReportsFollowMarks` | `ReportFollowsMarks` | an item is completed exactly when it is the first of its id and the id was marked; a mark adds one to both counts or to neither |
| `DecodeInvertsEncode`, `OnlyEncodingsDecode` | `ArrivedDecodes`, `DecodedIsEncoding` | the digits are different (`DigitsDiffer`) and a byte is determined by its two; positions 2i - 1 and 2i of the text hold those of byte i (`EncodeIs`) |
| `FnvTellsOneByte` | `OneByteNeverCollides` | a round is injective in the hash and in the byte: xor is, bit by bit (`XorByteInjective`), and so is the product with a number that has an inverse (`ProductInjective`) |
| `ConstantsOfTheCode` | | the inverse of the prime of `types.rs` modulo 2^64, by computation: the theorem before holds for the word, offset and prime of the code |
| `EveryPartIsItself` | | a step of `Parts` is a step of one part and leaves the others unchanged |
| `DenyIsTheStrictest`, `VerdictsAreMonotone` | `DenyIsStrictest`, `VerdictIsMonotone` | `AcceptedIs`: no violations is a condition on each block and boundary by itself |

Why strengthened invariants are needed. `VerifiedRecordsWereAppended` speaks of logs
that verify, but a fault may produce one that does not and a second fault may change it
again; the induction therefore keeps facts about every reachable log: the receipts are
signed and hashed as `append` computes them, every signature in the log was issued or
is no signature, and every anchor is a log that verified. `EventsKnown` adds that what
the log and the receipts hold are events, which telling them apart by their text needs. `LoadedHashWasSigned` needs,
for every step of a load and not just the last, that the manifest passed its checks and
that the signature in the envelope, if it is one, is in `signed`. That a model is all of
the approved content needs, beside that, `VerifiedShape`: the list a running load keeps has
the paths of the shards behind it, in their order, and is empty when no load runs. The properties of
the sandbox speak of what validates now; the invariants speak of all tokens and grants,
and both need that each grant is recorded under the id of its own request
(`GrantsKnowTheirId`). The client of the storage needs that what it holds, and what it
wrote with, is still what its reference resolves to (`Resolves`), which rests on
`LookupStep` and on the material of each key naming its bucket (`MaterialsNamed`). As
every step of the client is a step of the key manager or leaves it alone
(`ManagerUnderneath`), the theorems about the key manager hold below the client.

`ReportFollowsMarks` counts; a count does not say which items are completed, and the
induction (`HardeningInv`) needs that. `EventsTellTruth` is inductive once no buffer was
filled after the end of the list of events (`ZeroizationInv`). For the hash, the two
states are equal as long as the inputs are and different from the byte on in which they
differ (`FnvInv`). The decisions of `AccessControl` and the reports of `Compliance` are
functions of the state, of which the invariants (`PolicyInv`, `ComplianceInv`) say only
that it has its shape; the work is in the functions.

The assumptions on constants are those of the modules: `Word` exceeds 1, days and
periods are `u32`, bounds are naturals, drafts and rules have their types, `NoKey` is
not a key, texts are sequences of strings, bytes are less than 256. For the hash the
word is a multiple of 256 and the prime has an inverse modulo the word
(`FnvAssumption`), which `ConstantsOfTheCode` proves of the constants of the code; TLC
evaluates it for those of the run. The two theorems about what a loaded manifest says
assume `TextsUnambiguous`, which the code does not ensure and the run `manifest_names`
shows to be needed; all other theorems about the loader do without.

Only model-checked: the liveness property `StableLoadSucceeds`, which is out of the
prover's reach. The `RotationIsFresh` property is
about the step of `rotate_key` itself; that no later key is found instead is
`ServiceIsStable`. What the proofs do not reach is below the abstractions: that a sorted
list is determined by its counts or places, and that hashes and signatures are injective.

## Not modelled

- `error.rs` and `lib.rs` hold no behaviour; errors are their variants.
- `SensitiveBytes` and the functions that wipe one slice: loops of volatile writes
  over a buffer, whose effect is one assignment in `Zeroization`.
- `pseudo_sha256_hex` and `deterministic_hash_hex`: strings made of hashes, used as
  labels. SHA-2, HKDF, AES-GCM and Ed25519 are external.
- `TierEncryptionPolicy`: a record that no function of the crate consults.
- The text of the incident response plan, the wording of messages, and the `f32`
  percentage of the hardening report, which is derived from the counts modelled.
- A caller that follows the downgrades `authorize` answers with: there is none in the
  crate. Policies that send a caller round in a circle are accepted by `set_tier_policy`
  and are among those of the run `parts`.

## Plan

1. An abstract specification of the sandbox, a table of grants, implemented by the token
   map for the requests whose hash is their own.
2. The same for the audit log without faults: a list that only grows, whose root hash
   names it.
