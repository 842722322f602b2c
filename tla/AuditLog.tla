------------------------------ MODULE AuditLog ------------------------------
(***************************************************************************)
(* The deterministic audit log of src/src/audit.rs: a hash-chained, signed *)
(* list of events, its append and its verify_chain.                        *)
(*                                                                         *)
(* Around the log the model puts what its users do and what it must        *)
(* withstand: callers that append events with any sequence number, an      *)
(* observer that keeps the root hash of logs it saw verified, and faults   *)
(* of the storage that alter, drop or swap records, as the test            *)
(* tamper_is_detected does.  A fault can redo the unkeyed SHA-256 digests; *)
(* a signature, which takes the signing secret, it can only copy or break. *)
(***************************************************************************)
EXTENDS Integers, Sequences

CONSTANTS
    NodeId, SignerId, Secret,   \* the arguments of DeterministicAuditLog::new
    Categories,                 \* AuditCategory
    Timestamps,                 \* the timestamps a caller may pass
    Actors, Actions, Payloads,  \* texts, as sequences of characters
    MaxRecords,                 \* bound: records in the log
    MaxFaults                   \* bound: storage faults

ASSUME BoundsAssumption == MaxRecords \in Nat /\ MaxFaults \in Nat
ASSUME TextAssumption ==
    /\ Actors \subseteq Seq(STRING)
    /\ Actions \subseteq Seq(STRING)
    /\ Payloads \subseteq Seq(STRING)

VARIABLES
    records,    \* Vec<AuditRecord>
    receipts,   \* history: every record an append returned
    anchors,    \* history: root hash and content of every log seen verified
    faults,     \* number of storage faults so far
    response    \* what the last call returned

vars == <<records, receipts, anchors, faults, response>>

AuditEvent ==
    [sequence : 0 .. MaxRecords, category : Categories, timestamp_ms : Timestamps,
     actor : Actors, action : Actions, payload : Payloads]

-----------------------------------------------------------------------------
(* Digests.  SHA-256 is taken to be collision free: a digest is identified *)
(* by its input.  Digests are hex of one length, so joining two with a bar *)
(* loses nothing; joining three free texts with bars does.                 *)

Sha256(input) == <<"sha256", input>>

\* The digest of the empty input, written out as a literal in the code.
Genesis == Sha256(<<>>)

\* Variant: the payload is left out.
canonical_event_payloadShort(e) ==
    <<NodeId, e.sequence, e.category, e.timestamp_ms, e.actor \o <<"|">> \o e.action>>

\* The node, sequence, category and timestamp come first and hold no bar of their
\* own (the node is the same in every payload); the three texts are free.
canonical_event_payload(e) ==
    <<NodeId, e.sequence, e.category, e.timestamp_ms,
      e.actor \o <<"|">> \o e.action \o <<"|">> \o e.payload>>

\* A signature that is not a digest of anything.
Garbage == <<"noise", <<>>>>

EventHash(e) == Sha256(canonical_event_payload(e))
ChainHash(previous, eventHash) == Sha256(<<previous, eventHash>>)
signature_material(chain) == Sha256(<<Secret, SignerId, chain>>)

-----------------------------------------------------------------------------
(* The log as a value.                                                     *)

\* Variant: the first record's hash.
RootHashFirst(s) == IF s = <<>> THEN Genesis ELSE s[1].chain_hash

root_hash(s) == IF s = <<>> THEN Genesis ELSE s[Len(s)].chain_hash

\* The value of "previous" when the loop of verify_chain reaches record i.
Previous(s, i) == IF i = 1 THEN Genesis ELSE s[i - 1].chain_hash

\* Variants: the stored event hash is believed; the signature is not looked at.
RecordVerifiesStoredHash(s, i) ==
    /\ s[i].event.sequence = i - 1
    /\ s[i].prev_hash = Previous(s, i)
    /\ s[i].chain_hash = ChainHash(Previous(s, i), s[i].event_hash)
    /\ s[i].signature_hex = signature_material(s[i].chain_hash)
RecordVerifiesUnsigned(s, i) ==
    /\ s[i].event.sequence = i - 1
    /\ s[i].prev_hash = Previous(s, i)
    /\ s[i].event_hash = EventHash(s[i].event)
    /\ s[i].chain_hash = ChainHash(Previous(s, i), EventHash(s[i].event))

\* The five checks of the loop body, each of which ends it with TamperDetected.
RecordVerifies(s, i) ==
    /\ s[i].event.sequence = i - 1
    /\ s[i].prev_hash = Previous(s, i)
    /\ s[i].event_hash = EventHash(s[i].event)
    /\ s[i].chain_hash = ChainHash(Previous(s, i), EventHash(s[i].event))
    /\ s[i].signature_hex = signature_material(s[i].chain_hash)

Verifies(s) == \A i \in 1 .. Len(s) : RecordVerifies(s, i)

NewRecord(s, e) ==
    LET chain == ChainHash(root_hash(s), EventHash(e))
    IN  [event |-> e, prev_hash |-> root_hash(s), event_hash |-> EventHash(e),
         chain_hash |-> chain, signature_hex |-> signature_material(chain)]

\* What the log says happened: the canonical payloads in order.
Content(s) == [i \in 1 .. Len(s) |-> canonical_event_payload(s[i].event)]

-----------------------------------------------------------------------------
(* Operations.                                                             *)

Init ==
    /\ records = <<>>
    /\ receipts = {}
    /\ anchors = {}
    /\ faults = 0
    /\ response = [op |-> "new", result |-> "Ok"]

Respond(op, result) == response' = [op |-> op, result |-> result]

Push(e) ==
    /\ Len(records) < MaxRecords
    /\ records' = Append(records, NewRecord(records, e))
    /\ receipts' = receipts \cup {NewRecord(records, e)}
    /\ Respond("append", "Ok")

\* Variant: the sequence number is not compared with the length of the log.
AppendUnchecked(e) == Push(e) /\ UNCHANGED <<anchors, faults>>

\* A stale or repeated sequence number is refused and leaves the log alone.  The
\* log is not verified first.
append(e) ==
    /\ \/ /\ e.sequence # Len(records)
          /\ Respond("append", "InvalidInput")
          /\ UNCHANGED <<records, receipts>>
       \/ /\ e.sequence = Len(records)
          /\ Push(e)
    /\ UNCHANGED <<anchors, faults>>

\* An observer runs verify_chain and, when it passes, keeps root_hash.
verify_chain ==
    /\ \/ /\ Verifies(records)
          /\ anchors' = anchors \cup {[root |-> root_hash(records), content |-> Content(records)]}
          /\ Respond("verify_chain", "Ok")
       \/ /\ ~Verifies(records)
          /\ Respond("verify_chain", "TamperDetected")
          /\ UNCHANGED anchors
    /\ UNCHANGED <<records, receipts, faults>>

-----------------------------------------------------------------------------
(* Storage faults.                                                         *)

Fault ==
    /\ faults < MaxFaults
    /\ faults' = faults + 1
    /\ response' = [op |-> "fault", result |-> "Ok"]
    /\ UNCHANGED <<receipts, anchors>>

Signatures == {r.signature_hex : r \in receipts} \cup {Garbage}

\* s with x in place of record i.
Replaced(s, i, x) == [s EXCEPT ![i] = x]

\* Record i with another event, its old digests or recomputed ones, and a signature
\* that was issued before or none.
Altered(i, e, recompute, signature) ==
    IF recompute
    THEN [event |-> e, prev_hash |-> Previous(records, i), event_hash |-> EventHash(e),
          chain_hash |-> ChainHash(Previous(records, i), EventHash(e)),
          signature_hex |-> signature]
    ELSE [event |-> e, prev_hash |-> records[i].prev_hash,
          event_hash |-> records[i].event_hash, chain_hash |-> records[i].chain_hash,
          signature_hex |-> signature]

Alter(i, e, recompute, signature) ==
    /\ Fault
    /\ records' = Replaced(records, i, Altered(i, e, recompute, signature))

Drop(i) ==
    /\ Fault
    /\ records' = [k \in 1 .. (Len(records) - 1) |->
                      IF k < i THEN records[k] ELSE records[k + 1]]

Swap(i, j) ==
    /\ Fault
    /\ records' = Replaced(Replaced(records, i, records[j]), j, records[i])

Next ==
    \/ \E e \in AuditEvent : append(e)
    \/ verify_chain
    \/ \E i \in 1 .. Len(records), e \in AuditEvent, b \in BOOLEAN, sig \in Signatures :
          Alter(i, e, b, sig)
    \/ \E i \in 1 .. Len(records) : Drop(i)
    \/ \E i, j \in 1 .. Len(records) : Swap(i, j)

Spec == Init /\ [][Next]_vars

-----------------------------------------------------------------------------
(* Properties.                                                             *)

\* However appends with right, stale and repeated sequence numbers interleave, a
\* log no fault has touched verifies, and holds exactly the acknowledged records.
UntouchedLogVerifies ==
    faults = 0 =>
        /\ Verifies(records)
        /\ receipts = {records[i] : i \in 1 .. Len(records)}

\* append builds on the last record without verifying the log, and still neither
\* breaks a log that verifies nor makes verify_chain accept a damaged one.
AppendKeepsVerdict ==
    [][response'.op = "append" => (Verifies(records) <=> Verifies(records)')]_vars

\* Neither the actor nor the action of an event has a bar in it.
Plain(e) ==
    /\ \A k \in 1 .. Len(e.actor) : e.actor[k] # "|"
    /\ \A k \in 1 .. Len(e.action) : e.action[k] # "|"

\* When verify_chain accepts a log, each of its records was acknowledged by an append
\* on top of the same previous hash, with the same canonical payload and, unless one of
\* the two events has a bar in its actor or its action, with the same event.
VerifiedRecordsWereAppended ==
    Verifies(records) =>
        \A i \in 1 .. Len(records) : \E r \in receipts :
            /\ canonical_event_payload(r.event) = canonical_event_payload(records[i].event)
            /\ r.prev_hash = records[i].prev_hash
            /\ r.chain_hash = records[i].chain_hash
            /\ Plain(r.event) /\ Plain(records[i].event) => r.event = records[i].event

\* When verify_chain accepts a log, each of its events is one that an append
\* acknowledged, whatever texts it has.
VerifiedEventsWereAppended ==
    Verifies(records) =>
        \A i \in 1 .. Len(records) : \E r \in receipts : r.event = records[i].event

\* root_hash stands for the whole log: a log that verifies and has the root hash
\* of an earlier verified log has its content, record for record.  (Dropping the
\* last records leaves a log that verifies; the root hash is what tells.)
RootHashPinsContent ==
    Verifies(records) =>
        \A a \in anchors : a.root = root_hash(records) => a.content = Content(records)
=============================================================================
