--------------------------- MODULE AuditLogProofs ---------------------------
(***************************************************************************)
(* Proofs about the audit log, for every log length, every set of events   *)
(* and every number of storage faults.                                     *)
(*                                                                         *)
(* Digests are identified by their inputs, so equal chain hashes have equal*)
(* previous hashes and equal event payloads.  From the last record of two  *)
(* logs down to their first this makes the logs equal (SameRoot); a record *)
(* whose signature was issued before is tied to the record it was issued   *)
(* for in the same way.                                                    *)
(***************************************************************************)
EXTENDS AuditLog, SequenceTheorems, WellFoundedInduction, TLAPS

\* A sequence, over whatever values it holds: digests have no simple type.
IsLog(s) == s \in Seq({s[i] : i \in 1 .. Len(s)})

\* A non-empty set of naturals has a least element.
LEMMA LeastNat ==
    ASSUME NEW T, T \subseteq Nat, T # {}
    PROVE  \E n \in T : \A m \in T : n <= m
<1> DEFINE R == {ss \in Nat \X Nat : ss[1] < ss[2]}
<1>1. IsWellFoundedOn(R, Nat)
  BY NatLessThanWellFounded, Zenon DEF OpToRel
<1>2. PICK x \in T : \A y \in T : ~(<<y, x>> \in R)
  <2> HIDE DEF R
  <2> QED BY <1>1, WFMin
<1>3. ASSUME NEW y \in T PROVE x <= y
  <2>1. x \in Nat /\ y \in Nat
    OBVIOUS
  <2>2. ~(<<y, x>> \in R)
    BY <1>2
  <2>3. ~(y < x)
    BY <2>1, <2>2
  <2> QED BY <2>1, <2>3
<1> QED BY <1>2, <1>3

-----------------------------------------------------------------------------
(* Digests.                                                                *)

\* Equal digests have equal inputs.
LEMMA ShaInjective ==
    ASSUME NEW x, NEW y, Sha256(x) = Sha256(y)
    PROVE  x = y
BY DEF Sha256

\* A chain hash determines what it was computed from.
LEMMA ChainHashInjective ==
    ASSUME NEW p, NEW e, NEW q, NEW f, ChainHash(p, e) = ChainHash(q, f)
    PROVE  p = q /\ e = f
<1>1. <<p, e>> = <<q, f>>
  BY ShaInjective DEF ChainHash
<1> QED BY <1>1

\* No chain hash is the hash an empty log starts from.
LEMMA ChainHashIsNotGenesis ==
    ASSUME NEW p, NEW e
    PROVE  ChainHash(p, e) # Genesis
<1>1. <<p, e>> # <<>>
  OBVIOUS
<1> QED BY <1>1, ShaInjective DEF ChainHash, Genesis

\* A signature determines the chain hash it signs, and is never garbage.
LEMMA SignatureInjective ==
    ASSUME NEW c, NEW d
    PROVE  /\ signature_material(c) = signature_material(d) => c = d
           /\ signature_material(c) # Garbage
<1>1. ASSUME signature_material(c) = signature_material(d) PROVE c = d
  <2>1. <<Secret, SignerId, c>> = <<Secret, SignerId, d>>
    BY <1>1, ShaInjective DEF signature_material
  <2> QED BY <2>1
<1>2. signature_material(c) # Garbage
  BY DEF signature_material, Garbage, Sha256
<1> QED BY <1>1, <1>2

\* Equal event hashes come from equal payloads, which hold the sequence number.
LEMMA EventHashInjective ==
    ASSUME NEW e, NEW f, EventHash(e) = EventHash(f)
    PROVE  /\ canonical_event_payload(e) = canonical_event_payload(f)
           /\ e.sequence = f.sequence
<1>1. canonical_event_payload(e) = canonical_event_payload(f)
  BY ShaInjective DEF EventHash
<1>2. e.sequence = canonical_event_payload(e)[2] /\ f.sequence = canonical_event_payload(f)[2]
  BY DEF canonical_event_payload
<1> QED BY <1>1, <1>2

-----------------------------------------------------------------------------
(* Two verified logs with one root hash.                                   *)

\* If two verified logs agree on a chain hash at position k, then on the payload at
\* k and, when k is not the first position, on the chain hash before it.
LEMMA AgreeBackwards ==
    ASSUME NEW s, NEW t, NEW k \in Nat, k > 0, RecordVerifies(s, k), RecordVerifies(t, k),
           s[k].chain_hash = t[k].chain_hash
    PROVE  /\ canonical_event_payload(s[k].event) = canonical_event_payload(t[k].event)
           /\ k > 1 => s[k - 1].chain_hash = t[k - 1].chain_hash
<1>1. ChainHash(Previous(s, k), EventHash(s[k].event)) = ChainHash(Previous(t, k), EventHash(t[k].event))
  BY DEF RecordVerifies
<1>2. Previous(s, k) = Previous(t, k) /\ EventHash(s[k].event) = EventHash(t[k].event)
  BY <1>1, ChainHashInjective
<1>3. canonical_event_payload(s[k].event) = canonical_event_payload(t[k].event)
  BY <1>2, EventHashInjective
<1> QED BY <1>2, <1>3 DEF Previous

\* A verified log that is not empty does not have the root hash of the empty one.
LEMMA RootOfNonEmpty ==
    ASSUME NEW s, IsLog(s), Verifies(s), s # <<>>
    PROVE  /\ Len(s) \in Nat /\ Len(s) > 0
           /\ RecordVerifies(s, Len(s))
           /\ root_hash(s) = s[Len(s)].chain_hash
           /\ root_hash(s) # Genesis
<1>1. Len(s) \in Nat /\ Len(s) > 0
  BY DEF IsLog
<1>2. RecordVerifies(s, Len(s))
  BY <1>1 DEF Verifies
<1>3. root_hash(s) = s[Len(s)].chain_hash
  BY DEF root_hash
<1>4. s[Len(s)].chain_hash = ChainHash(Previous(s, Len(s)), EventHash(s[Len(s)].event))
  BY <1>2 DEF RecordVerifies
<1> QED BY <1>1, <1>2, <1>3, <1>4, ChainHashIsNotGenesis

\* Verified logs with the same root hash have the same content.
LEMMA SameRoot ==
    ASSUME NEW s, NEW t, IsLog(s), IsLog(t), Verifies(s), Verifies(t),
           root_hash(s) = root_hash(t)
    PROVE  Content(s) = Content(t)
<1>1. CASE s = <<>>
  <2>1. root_hash(s) = Genesis
    BY <1>1 DEF root_hash
  <2>2. t = <<>>
    BY <2>1, RootOfNonEmpty
  <2> QED BY <1>1, <2>2
<1>2. CASE s # <<>>
  <2> DEFINE n == Len(s)
  <2>1. t # <<>>
    <3>1. root_hash(s) # Genesis
      BY <1>2, RootOfNonEmpty
    <3> QED BY <3>1 DEF root_hash
  <2>2. /\ n \in Nat /\ n > 0 /\ Len(t) \in Nat /\ Len(t) > 0
        /\ RecordVerifies(s, n) /\ RecordVerifies(t, Len(t))
        /\ s[n].chain_hash = t[Len(t)].chain_hash
    BY <1>2, <2>1, RootOfNonEmpty
  <2>3. Len(t) = n
    <3>1. ChainHash(Previous(s, n), EventHash(s[n].event))
            = ChainHash(Previous(t, Len(t)), EventHash(t[Len(t)].event))
      BY <2>2 DEF RecordVerifies
    <3>2. EventHash(s[n].event) = EventHash(t[Len(t)].event)
      BY <3>1, ChainHashInjective
    <3>3. s[n].event.sequence = t[Len(t)].event.sequence
      BY <3>2, EventHashInjective
    <3>4. n - 1 = Len(t) - 1
      BY <2>2, <3>3 DEF RecordVerifies
    <3> QED BY <2>2, <3>4
  <2>4. \A k \in 1 .. n : RecordVerifies(s, k) /\ RecordVerifies(t, k)
    BY <2>3 DEF Verifies
  <2>5. \A k \in 1 .. n : s[k].chain_hash = t[k].chain_hash
    <3> DEFINE T == {d \in Nat : d < n /\ s[n - d].chain_hash # t[n - d].chain_hash}
    <3>1. ASSUME T # {} PROVE FALSE
      <4>1. PICK d \in T : \A m \in T : d <= m
        <5>1. T \subseteq Nat
          OBVIOUS
        <5> HIDE DEF T
        <5> QED BY <3>1, <5>1, LeastNat
      <4>2. d \in Nat /\ d < n /\ s[n - d].chain_hash # t[n - d].chain_hash
        OBVIOUS
      <4>3. d > 0
        BY <2>2, <2>3, <4>2
      <4> DEFINE k == n - (d - 1)
      <4>4. k \in 1 .. n /\ k \in Nat /\ k > 1 /\ k - 1 = n - d
        BY <2>2, <4>2, <4>3
      <4>5. s[k].chain_hash = t[k].chain_hash
        <5>1. d - 1 \in Nat /\ d - 1 < n /\ ~(d <= d - 1)
          BY <2>2, <4>2, <4>3
        <5>2. d - 1 \notin T
          BY <4>1, <5>1
        <5> QED BY <5>1, <5>2
      <4> HIDE DEF k, T
      <4>6. s[k - 1].chain_hash = t[k - 1].chain_hash
        BY <2>4, <4>4, <4>5, AgreeBackwards
      <4> QED BY <4>2, <4>4, <4>6
    <3>2. ASSUME NEW k \in 1 .. n, s[k].chain_hash # t[k].chain_hash PROVE n - k \in T
      <4>1. n - k \in Nat /\ n - k < n /\ n - (n - k) = k
        BY <2>2
      <4> QED BY <3>2, <4>1
    <3> QED BY <3>1, <3>2
  <2>6. \A k \in 1 .. n : canonical_event_payload(s[k].event) = canonical_event_payload(t[k].event)
    <3> SUFFICES ASSUME NEW k \in 1 .. n
                 PROVE  canonical_event_payload(s[k].event) = canonical_event_payload(t[k].event)
      OBVIOUS
    <3>1. k \in Nat /\ k > 0
      BY <2>2
    <3> QED BY <2>4, <2>5, <3>1, AgreeBackwards
  <2> QED BY <2>3, <2>6 DEF Content
<1> QED BY <1>1, <1>2

-----------------------------------------------------------------------------
(* How the operations and the faults change a log.                         *)

\* Functions on 1 .. n are logs.
LEMMA LogFromFunction ==
    ASSUME NEW n \in Nat, NEW f, f = [i \in 1 .. n |-> f[i]]
    PROVE  IsLog(f) /\ Len(f) = n
<1>1. f \in [1 .. n -> {f[i] : i \in 1 .. n}]
  OBVIOUS
<1>2. f \in Seq({f[i] : i \in 1 .. n}) /\ Len(f) = n
  BY <1>1, SeqDef
<1> QED BY <1>2 DEF IsLog

\* The length of a log is a natural number.
LEMMA LogLength ==
    ASSUME NEW s, IsLog(s)
    PROVE  Len(s) \in Nat
BY DEF IsLog

\* Replacing a record.
LEMMA ReplaceInLog ==
    ASSUME NEW s, IsLog(s), NEW i \in 1 .. Len(s), NEW x
    PROVE  /\ IsLog(Replaced(s, i, x)) /\ Len(Replaced(s, i, x)) = Len(s)
           /\ Replaced(s, i, x)[i] = x
           /\ \A k \in 1 .. Len(s) : k # i => Replaced(s, i, x)[k] = s[k]
<1> DEFINE t == Replaced(s, i, x)
<1>1. s \in [1 .. Len(s) -> {s[k] : k \in 1 .. Len(s)}] /\ Len(s) \in Nat
  BY DEF IsLog
<1>2. /\ t = [k \in 1 .. Len(s) |-> t[k]]
      /\ t[i] = x
      /\ \A k \in 1 .. Len(s) : k # i => t[k] = s[k]
  BY <1>1 DEF Replaced
<1> HIDE DEF t
<1>3. IsLog(t) /\ Len(t) = Len(s)
  BY <1>1, <1>2, LogFromFunction
<1> QED BY <1>2, <1>3 DEF t

\* Adding a record, and why append keeps the verdict of verify_chain.
LEMMA AppendToLog ==
    ASSUME NEW s, IsLog(s), NEW e, e.sequence = Len(s)
    PROVE  LET t == Append(s, NewRecord(s, e))
           IN  /\ IsLog(t) /\ Len(t) = Len(s) + 1
               /\ \A k \in 1 .. Len(s) : t[k] = s[k]
               /\ t[Len(s) + 1] = NewRecord(s, e)
               /\ Verifies(s) <=> Verifies(t)
<1> DEFINE r == NewRecord(s, e)
           t == Append(s, r)
           n == Len(s)
<1>1. n \in Nat /\ s \in Seq({s[k] : k \in 1 .. n} \cup {r})
  BY DEF IsLog
<1>2. /\ Len(t) = n + 1
      /\ \A k \in 1 .. n : t[k] = s[k]
      /\ t[n + 1] = r
      /\ t = [k \in 1 .. (n + 1) |-> t[k]]
  <2> HIDE DEF r
  <2>1. t \in Seq({s[k] : k \in 1 .. n} \cup {r})
    BY <1>1
  <2>2. /\ Len(t) = n + 1
        /\ \A k \in 1 .. n : t[k] = s[k]
        /\ t[n + 1] = r
    BY <1>1, AppendProperties
  <2> HIDE DEF t
  <2>3. t = [k \in 1 .. (n + 1) |-> t[k]]
    BY <2>1, <2>2
  <2> QED BY <2>2, <2>3
<1>3. /\ r.event = e
      /\ r.prev_hash = root_hash(s)
      /\ r.event_hash = EventHash(e)
      /\ r.chain_hash = ChainHash(root_hash(s), EventHash(e))
      /\ r.signature_hex = signature_material(r.chain_hash)
  BY DEF NewRecord
<1> HIDE DEF r, t
<1>4. IsLog(t)
  BY <1>1, <1>2, LogFromFunction
<1>5. root_hash(s) = Previous(t, n + 1)
  <2>1. CASE n = 0
    <3>1. s = <<>>
      BY <1>1, <2>1
    <3> QED BY <2>1, <3>1 DEF root_hash, Previous
  <2>2. CASE n # 0
    <3>1. s # <<>> /\ n \in 1 .. n /\ n + 1 # 1 /\ (n + 1) - 1 = n
      BY <1>1, <2>2
    <3> QED BY <1>2, <3>1 DEF root_hash, Previous
  <2> QED BY <2>1, <2>2
<1>6. RecordVerifies(t, n + 1)
  BY <1>1, <1>2, <1>3, <1>5 DEF RecordVerifies
<1>7. ASSUME NEW k \in 1 .. n PROVE RecordVerifies(t, k) <=> RecordVerifies(s, k)
  <2>1. t[k] = s[k] /\ Previous(t, k) = Previous(s, k)
    <3>1. k = 1 \/ k - 1 \in 1 .. n
      BY <1>1
    <3> QED BY <1>2, <3>1 DEF Previous
  <2> QED BY <2>1 DEF RecordVerifies
<1>8. Verifies(s) <=> Verifies(t)
  <2>1. \A k \in 1 .. (n + 1) : k \in 1 .. n \/ k = n + 1
    BY <1>1
  <2>2. 1 .. n \subseteq 1 .. (n + 1)
    BY <1>1
  <2> QED BY <1>2, <1>6, <1>7, <2>1, <2>2 DEF Verifies
<1> QED BY <1>2, <1>4, <1>8 DEF t, r

-----------------------------------------------------------------------------
(* The inductive invariant.                                                *)

\* Every receipt is what append computes.
ReceiptsSound ==
    \A r \in receipts :
        /\ r.event_hash = EventHash(r.event)
        /\ r.chain_hash = ChainHash(r.prev_hash, EventHash(r.event))
        /\ r.signature_hex = signature_material(r.chain_hash)

\* Every signature in the log was issued by an append, or is not one.
SignaturesKnown == \A i \in 1 .. Len(records) : records[i].signature_hex \in Signatures

\* Every anchor was taken from a log that verified.
AnchorsSound ==
    \A a \in anchors : \E s : /\ IsLog(s) /\ Verifies(s)
                              /\ a.root = root_hash(s) /\ a.content = Content(s)

LogInv == IsLog(records) /\ ReceiptsSound /\ SignaturesKnown /\ AnchorsSound

\* The record an append stores is signed and hashed as append computes it.
LEMMA NewRecordFields ==
    ASSUME NEW s, NEW e
    PROVE  LET r == NewRecord(s, e)
           IN  /\ r.event = e
               /\ r.prev_hash = root_hash(s)
               /\ r.event_hash = EventHash(e)
               /\ r.chain_hash = ChainHash(root_hash(s), EventHash(e))
               /\ r.signature_hex = signature_material(r.chain_hash)
BY DEF NewRecord

\* An append keeps the invariant.
LEMMA AppendStep ==
    ASSUME LogInv, NEW e \in AuditEvent, append(e)
    PROVE  /\ LogInv'
           /\ Verifies(records) <=> Verifies(records')
<1>1. CASE UNCHANGED <<records, receipts>>
  <2>1. anchors' = anchors
    BY DEF append
  <2> QED BY <1>1, <2>1 DEF LogInv, ReceiptsSound, SignaturesKnown, AnchorsSound, Signatures, IsLog
<1>2. CASE e.sequence = Len(records) /\ Push(e)
  <2> DEFINE r == NewRecord(records, e)
             n == Len(records)
  <2>1. /\ IsLog(records') /\ Len(records') = n + 1
        /\ \A k \in 1 .. n : records'[k] = records[k]
        /\ records'[n + 1] = r
        /\ Verifies(records) <=> Verifies(records')
    BY <1>2, AppendToLog DEF LogInv, Push
  <2>2. receipts' = receipts \cup {r} /\ anchors' = anchors
    BY <1>2 DEF Push, append
  <2>3. /\ r.event_hash = EventHash(r.event)
        /\ r.chain_hash = ChainHash(r.prev_hash, EventHash(r.event))
        /\ r.signature_hex = signature_material(r.chain_hash)
    BY NewRecordFields
  <2> HIDE DEF r
  <2>4. ReceiptsSound'
    BY <2>2, <2>3 DEF LogInv, ReceiptsSound
  <2>5. SignaturesKnown'
    <3>1. Signatures \subseteq Signatures' /\ r.signature_hex \in Signatures'
      BY <2>2 DEF Signatures
    <3>2. n \in Nat
      BY LogLength DEF LogInv
    <3>3. ASSUME NEW i \in 1 .. (n + 1) PROVE records'[i].signature_hex \in Signatures'
      <4>1. CASE i = n + 1
        BY <2>1, <3>1, <4>1
      <4>2. CASE i # n + 1
        <5>1. i \in 1 .. n
          BY <3>2, <4>2
        <5>2. records[i].signature_hex \in Signatures
          BY <5>1 DEF LogInv, SignaturesKnown
        <5> QED BY <2>1, <3>1, <5>1, <5>2
      <4> QED BY <4>1, <4>2
    <3> QED BY <2>1, <3>3 DEF SignaturesKnown
  <2>6. AnchorsSound'
    BY <2>2 DEF LogInv, AnchorsSound
  <2> QED BY <2>1, <2>4, <2>5, <2>6 DEF LogInv, IsLog
<1> QED BY <1>1, <1>2 DEF append

\* The faults keep the invariant: they leave a sequence of records whose signatures
\* were issued before or are none.
LEMMA FaultStep ==
    ASSUME LogInv, Fault, IsLog(records'),
           \A i \in 1 .. Len(records') : records'[i].signature_hex \in Signatures
    PROVE  LogInv'
<1>1. receipts' = receipts /\ anchors' = anchors
  BY DEF Fault
<1> QED BY <1>1 DEF LogInv, ReceiptsSound, SignaturesKnown, AnchorsSound, Signatures, IsLog

\* Every step keeps the invariant.
LEMMA LogStep ==
    ASSUME LogInv, [Next]_vars
    PROVE  LogInv'
<1>0. IsLog(records) /\ Len(records) \in Nat
  BY LogLength DEF LogInv
<1>1. ASSUME NEW e \in AuditEvent, append(e) PROVE LogInv'
  BY <1>1, AppendStep
<1>2. CASE verify_chain
  <2>1. records' = records /\ receipts' = receipts
    BY <1>2 DEF verify_chain
  <2>2. AnchorsSound'
    <3>1. CASE anchors' = anchors
      BY <3>1 DEF LogInv, AnchorsSound
    <3>2. CASE /\ Verifies(records)
               /\ anchors' = anchors \cup {[root |-> root_hash(records), content |-> Content(records)]}
      BY <3>2 DEF LogInv, AnchorsSound
    <3> QED BY <1>2, <3>1, <3>2 DEF verify_chain
  <2> QED BY <2>1, <2>2 DEF LogInv, ReceiptsSound, SignaturesKnown, Signatures, IsLog
<1>3. ASSUME NEW i \in 1 .. Len(records), NEW e \in AuditEvent, NEW b \in BOOLEAN,
             NEW sig \in Signatures, Alter(i, e, b, sig)
      PROVE  LogInv'
  <2> DEFINE x == Altered(i, e, b, sig)
  <2>1. records' = Replaced(records, i, x) /\ x.signature_hex = sig
    BY <1>3 DEF Alter, Altered
  <2> HIDE DEF x
  <2>2. /\ IsLog(records') /\ Len(records') = Len(records)
        /\ records'[i] = x
        /\ \A k \in 1 .. Len(records) : k # i => records'[k] = records[k]
    BY <1>0, <2>1, ReplaceInLog
  <2>3. \A k \in 1 .. Len(records') : records'[k].signature_hex \in Signatures
    BY <2>1, <2>2 DEF LogInv, SignaturesKnown
  <2> QED BY <1>3, <2>2, <2>3, FaultStep DEF Alter
<1>4. ASSUME NEW i \in 1 .. Len(records), Drop(i) PROVE LogInv'
  <2>1. Len(records) - 1 \in Nat
    BY <1>0
  <2>2. /\ records' = [k \in 1 .. (Len(records) - 1) |-> records'[k]]
        /\ \A k \in 1 .. (Len(records) - 1) :
              records'[k] = IF k < i THEN records[k] ELSE records[k + 1]
    BY <1>4 DEF Drop
  <2>3. IsLog(records') /\ Len(records') = Len(records) - 1
    BY <2>1, <2>2, LogFromFunction
  <2>4. ASSUME NEW k \in 1 .. Len(records') PROVE records'[k].signature_hex \in Signatures
    <3>1. k \in 1 .. Len(records) /\ k + 1 \in 1 .. Len(records)
      BY <1>0, <2>3
    <3> QED BY <2>2, <2>3, <3>1 DEF LogInv, SignaturesKnown
  <2> QED BY <1>4, <2>3, <2>4, FaultStep DEF Drop
<1>5. ASSUME NEW i \in 1 .. Len(records), NEW j \in 1 .. Len(records), Swap(i, j) PROVE LogInv'
  <2> DEFINE t == Replaced(records, i, records[j])
  <2>1. /\ IsLog(t) /\ Len(t) = Len(records)
        /\ t[i] = records[j]
        /\ \A k \in 1 .. Len(records) : k # i => t[k] = records[k]
    BY <1>0, ReplaceInLog
  <2>2. records' = Replaced(t, j, records[i])
    BY <1>5 DEF Swap
  <2> HIDE DEF t
  <2>3. /\ IsLog(records') /\ Len(records') = Len(records)
        /\ records'[j] = records[i]
        /\ \A k \in 1 .. Len(records) : k # j => records'[k] = t[k]
    <3>1. j \in 1 .. Len(t)
      BY <2>1
    <3>2. /\ IsLog(records') /\ Len(records') = Len(t)
          /\ records'[j] = records[i]
          /\ \A k \in 1 .. Len(t) : k # j => records'[k] = t[k]
      BY <2>1, <2>2, <3>1, ReplaceInLog
    <3> QED BY <2>1, <3>2
  <2>4. \A k \in 1 .. Len(records') : records'[k].signature_hex \in Signatures
    BY <2>1, <2>3 DEF LogInv, SignaturesKnown
  <2> QED BY <1>5, <2>3, <2>4, FaultStep DEF Swap
<1>6. CASE UNCHANGED vars
  BY <1>6 DEF vars, LogInv, ReceiptsSound, SignaturesKnown, AnchorsSound, Signatures, IsLog
<1> QED BY <1>1, <1>2, <1>3, <1>4, <1>5, <1>6 DEF Next

\* The invariant holds in every reachable state.
THEOREM LogInvariant == Spec => []LogInv
<1>1. Init => LogInv
  <2> SUFFICES ASSUME Init PROVE LogInv
    OBVIOUS
  <2>1. IsLog(records)
    BY EmptySeq DEF Init, IsLog
  <2>2. 1 .. Len(records) = {}
    BY DEF Init
  <2> QED BY <2>1, <2>2 DEF Init, LogInv, ReceiptsSound, SignaturesKnown, AnchorsSound
<1>2. LogInv /\ [Next]_vars => LogInv'
  BY LogStep
<1> QED BY <1>1, <1>2, PTL DEF Spec

-----------------------------------------------------------------------------
(* What verify_chain and root_hash vouch for.                              *)

\* Every event in the log and in the receipts is an event.
EventsKnown ==
    /\ \A r \in receipts : r.event \in AuditEvent
    /\ \A i \in 1 .. Len(records) : records[i].event \in AuditEvent

\* Every step keeps it: faults put events in the place of events.
LEMMA EventsStep ==
    ASSUME LogInv, EventsKnown, [Next]_vars
    PROVE  EventsKnown'
<1>0. IsLog(records) /\ Len(records) \in Nat
  BY LogLength DEF LogInv
<1>1. ASSUME NEW e \in AuditEvent, append(e) PROVE EventsKnown'
  <2>1. CASE UNCHANGED <<records, receipts>>
    BY <2>1 DEF EventsKnown
  <2>2. CASE e.sequence = Len(records) /\ Push(e)
    <3>1. PICK r : r = NewRecord(records, e) /\ r.event = e
      BY NewRecordFields
    <3>2. /\ Len(records') = Len(records) + 1
          /\ \A k \in 1 .. Len(records) : records'[k] = records[k]
          /\ records'[Len(records) + 1] = r
      BY <1>0, <2>2, <3>1, AppendToLog DEF Push
    <3>3. receipts' = receipts \cup {r}
      BY <2>2, <3>1 DEF Push
    <3>4. ASSUME NEW k \in 1 .. (Len(records) + 1) PROVE records'[k].event \in AuditEvent
      <4>1. CASE k = Len(records) + 1
        BY <3>1, <3>2, <4>1
      <4>2. CASE k # Len(records) + 1
        <5>1. k \in 1 .. Len(records)
          BY <1>0, <4>2
        <5> QED BY <3>2, <5>1 DEF EventsKnown
      <4> QED BY <4>1, <4>2
    <3> QED BY <3>1, <3>2, <3>3, <3>4 DEF EventsKnown
  <2> QED BY <1>1, <2>1, <2>2 DEF append
<1>2. CASE verify_chain
  BY <1>2 DEF verify_chain, EventsKnown
<1>3. ASSUME NEW i \in 1 .. Len(records), NEW e \in AuditEvent, NEW b \in BOOLEAN,
             NEW sig \in Signatures, Alter(i, e, b, sig)
      PROVE  EventsKnown'
  <2>0. Altered(i, e, b, sig).event = e
    BY DEF Altered
  <2>1. PICK x : x = Altered(i, e, b, sig) /\ x.event = e
    BY <2>0
  <2>2. /\ Len(records') = Len(records) /\ records'[i] = x
        /\ \A k \in 1 .. Len(records) : k # i => records'[k] = records[k]
    BY <1>0, <1>3, <2>1, ReplaceInLog DEF Alter
  <2> QED BY <1>3, <2>1, <2>2 DEF Alter, Fault, EventsKnown
<1>4. ASSUME NEW i \in 1 .. Len(records), Drop(i) PROVE EventsKnown'
  <2>1. Len(records) - 1 \in Nat
    BY <1>0
  <2>2. /\ records' = [k \in 1 .. (Len(records) - 1) |-> records'[k]]
        /\ \A k \in 1 .. (Len(records) - 1) :
              records'[k] = IF k < i THEN records[k] ELSE records[k + 1]
    BY <1>4 DEF Drop
  <2>3. Len(records') = Len(records) - 1
    BY <2>1, <2>2, LogFromFunction
  <2>4. ASSUME NEW k \in 1 .. Len(records') PROVE records'[k].event \in AuditEvent
    <3>1. k \in 1 .. Len(records) /\ k + 1 \in 1 .. Len(records)
      BY <1>0, <2>3
    <3> QED BY <2>2, <2>3, <3>1 DEF EventsKnown
  <2> QED BY <1>4, <2>4 DEF Drop, Fault, EventsKnown
<1>5. ASSUME NEW i \in 1 .. Len(records), NEW j \in 1 .. Len(records), Swap(i, j)
      PROVE  EventsKnown'
  <2>1. PICK t : t = Replaced(records, i, records[j])
    OBVIOUS
  <2>2. /\ IsLog(t) /\ Len(t) = Len(records) /\ t[i] = records[j]
        /\ \A k \in 1 .. Len(records) : k # i => t[k] = records[k]
    BY <1>0, <2>1, ReplaceInLog
  <2>3. /\ Len(records') = Len(t) /\ records'[j] = records[i]
        /\ \A k \in 1 .. Len(t) : k # j => records'[k] = t[k]
    <3>1. j \in 1 .. Len(t) /\ records' = Replaced(t, j, records[i])
      BY <1>5, <2>1, <2>2 DEF Swap
    <3> QED BY <2>2, <3>1, ReplaceInLog
  <2> QED BY <1>5, <2>2, <2>3 DEF Swap, Fault, EventsKnown
<1>6. CASE UNCHANGED vars
  BY <1>6 DEF vars, EventsKnown
<1> QED BY <1>1, <1>2, <1>3, <1>4, <1>5, <1>6 DEF Next

\* In every reachable state the log holds events.
THEOREM EventsInvariant == Spec => []EventsKnown
<1>1. Init => EventsKnown
  BY DEF Init, EventsKnown
<1>2. LogInv /\ EventsKnown /\ [Next]_vars => EventsKnown'
  BY EventsStep
<1> QED BY <1>1, <1>2, LogInvariant, PTL DEF Spec

\* A text without a bar, and a text that begins with one followed by a bar.
Unbarred(s, bar) == \A k \in 1 .. Len(s) : s[k] # bar
Begun(s, bar, rest) == s \o <<bar>> \o rest

\* The characters of such a text.
Layout(w, s, bar, rest) ==
    /\ Len(s) \in Nat /\ Len(rest) \in Nat
    /\ Len(w) = Len(s) + 1 + Len(rest)
    /\ \A k \in 1 .. Len(s) : w[k] = s[k]
    /\ w[Len(s) + 1] = bar
    /\ \A k \in 1 .. Len(rest) : w[Len(s) + 1 + k] = rest[k]

LEMMA BegunCharacters ==
    ASSUME NEW S, NEW bar \in S, NEW s \in Seq(S), NEW rest \in Seq(S)
    PROVE  /\ Begun(s, bar, rest) \in Seq(S)
           /\ Layout(Begun(s, bar, rest), s, bar, rest)
<1>1. <<bar>> \in Seq(S) /\ Len(<<bar>>) = 1 /\ <<bar>>[1] = bar
  OBVIOUS
<1>2. PICK one : one = <<bar>>
  OBVIOUS
<1>3. one \in Seq(S) /\ Len(one) = 1 /\ one[1] = bar
  BY <1>1, <1>2
<1>4. PICK u : u = s \o one
  OBVIOUS
<1>5. /\ u \in Seq(S) /\ Len(u) = Len(s) + 1 /\ Len(s) \in Nat
      /\ \A k \in 1 .. (Len(s) + 1) : u[k] = IF k <= Len(s) THEN s[k] ELSE one[k - Len(s)]
  <2>1. /\ u \in Seq(S) /\ Len(u) = Len(s) + Len(one)
        /\ \A k \in 1 .. (Len(s) + Len(one)) : u[k] = IF k <= Len(s) THEN s[k] ELSE one[k - Len(s)]
    BY <1>3, <1>4, ConcatProperties
  <2>2. Len(s) \in Nat
    BY LenProperties
  <2>3. Len(s) + Len(one) = Len(s) + 1
    BY <1>3
  <2> QED BY <2>1, <2>2, <2>3
<1>6. \A k \in 1 .. Len(s) : u[k] = s[k]
  BY <1>5
<1>7. u[Len(s) + 1] = bar
  <2>1. PICK j : j = Len(s) + 1
    OBVIOUS
  <2>2. j \in 1 .. (Len(s) + 1) /\ ~(j <= Len(s)) /\ j - Len(s) = 1
    BY <1>5, <2>1
  <2> QED BY <1>3, <1>5, <2>1, <2>2
<1>8. PICK w : w = u \o rest
  OBVIOUS
<1>9. /\ w \in Seq(S) /\ Len(w) = Len(u) + Len(rest) /\ Len(rest) \in Nat
      /\ \A k \in 1 .. (Len(u) + Len(rest)) : w[k] = IF k <= Len(u) THEN u[k] ELSE rest[k - Len(u)]
  BY <1>5, <1>8, ConcatProperties, LenProperties
<1>10. Begun(s, bar, rest) = w
  BY <1>2, <1>4, <1>8 DEF Begun
<1>11. \A k \in 1 .. Len(s) : w[k] = s[k]
  BY <1>5, <1>6, <1>9
<1>12. w[Len(s) + 1] = bar
  BY <1>5, <1>7, <1>9
<1>13. ASSUME NEW k \in 1 .. Len(rest) PROVE w[Len(s) + 1 + k] = rest[k]
  <2>1. PICK j \in Nat : j = Len(s) + 1 + k
    BY <1>5, <1>9
  <2>2. j \in 1 .. (Len(u) + Len(rest)) /\ ~(j <= Len(u)) /\ j - Len(u) = k
    BY <1>5, <1>9, <2>1
  <2> QED BY <1>9, <2>1, <2>2
<1> QED BY <1>5, <1>9, <1>10, <1>11, <1>12, <1>13 DEF Layout

\* The text before the first bar is no longer than another text before a bar.
LEMMA NotLonger ==
    ASSUME NEW w, NEW bar, NEW s, NEW rest, NEW t, NEW other,
           Layout(w, s, bar, rest), Layout(w, t, bar, other), Unbarred(s, bar)
    PROVE  Len(s) <= Len(t)
<1>1. Len(s) \in Nat /\ Len(t) \in Nat
  BY DEF Layout
<1>2. ASSUME Len(t) < Len(s) PROVE FALSE
  <2>1. Len(t) + 1 \in 1 .. Len(s)
    BY <1>1, <1>2
  <2>2. w[Len(t) + 1] = s[Len(t) + 1]
    BY <2>1 DEF Layout
  <2>3. w[Len(t) + 1] = bar
    BY DEF Layout
  <2> QED BY <2>1, <2>2, <2>3 DEF Unbarred
<1> QED BY <1>1, <1>2

\* The first bar tells where an unbarred text ends.
LEMMA SplitAtBar ==
    ASSUME NEW S, NEW bar \in S, NEW s \in Seq(S), NEW rest \in Seq(S), Unbarred(s, bar),
           NEW t \in Seq(S), NEW other \in Seq(S), Unbarred(t, bar),
           Begun(s, bar, rest) = Begun(t, bar, other)
    PROVE  s = t /\ rest = other
<1>1. PICK w : w = Begun(s, bar, rest) /\ w = Begun(t, bar, other)
  OBVIOUS
<1>2. Layout(w, s, bar, rest)
  BY <1>1, BegunCharacters
<1>3. Layout(w, t, bar, other)
  BY <1>1, BegunCharacters
<1>4. Len(s) = Len(t)
  <2>1. Len(s) <= Len(t)
    BY <1>2, <1>3, NotLonger
  <2>2. Len(t) <= Len(s)
    BY <1>2, <1>3, NotLonger
  <2>3. Len(s) \in Nat /\ Len(t) \in Nat
    BY <1>2, <1>3 DEF Layout
  <2> QED BY <2>1, <2>2, <2>3
<1>5. Len(rest) = Len(other)
  BY <1>2, <1>3, <1>4 DEF Layout
<1>6. s = t
  <2>1. \A k \in 1 .. Len(s) : s[k] = t[k]
    BY <1>2, <1>3, <1>4 DEF Layout
  <2> QED BY <1>4, <2>1, SeqEqual
<1>7. rest = other
  <2>1. \A k \in 1 .. Len(rest) : w[Len(s) + 1 + k] = rest[k]
    BY <1>2 DEF Layout
  <2>2. \A k \in 1 .. Len(rest) : w[Len(s) + 1 + k] = other[k]
    BY <1>3, <1>4, <1>5 DEF Layout
  <2>3. \A k \in 1 .. Len(rest) : rest[k] = other[k]
    BY <2>1, <2>2
  <2> QED BY <1>5, <2>3, SeqEqual
<1> QED BY <1>6, <1>7

\* Three texts joined by bars.
Joined(a, bar, b, c) == a \o <<bar>> \o b \o <<bar>> \o c

\* They begin with the first text, and what follows begins with the second.
LEMMA JoinedTexts ==
    ASSUME NEW S, NEW bar \in S, NEW a \in Seq(S), NEW b \in Seq(S), NEW c \in Seq(S)
    PROVE  Joined(a, bar, b, c) = Begun(a, bar, Begun(b, bar, c))
<1>0. <<bar>> \in Seq(S)
  OBVIOUS
<1>1. PICK one : one = <<bar>>
  OBVIOUS
<1>2. PICK u : u = a \o one
  OBVIOUS
<1>3. PICK v : v = b \o one
  OBVIOUS
<1>4. one \in Seq(S) /\ u \in Seq(S) /\ v \in Seq(S)
  BY <1>0, <1>1, <1>2, <1>3, ConcatProperties
<1>5. (u \o b) \o one = u \o (b \o one)
  BY <1>4, ConcatAssociative, SMTT(60)
<1>6. (u \o v) \o c = u \o (v \o c)
  BY <1>4, ConcatAssociative, SMTT(60)
<1> QED BY <1>1, <1>2, <1>3, <1>5, <1>6 DEF Begun, Joined

\* Events with one canonical payload and no bar in actor or action are equal.
LEMMA PayloadTellsEvents ==
    ASSUME NEW e \in AuditEvent, NEW f \in AuditEvent, Plain(e), Plain(f),
           canonical_event_payload(e) = canonical_event_payload(f)
    PROVE  e = f
<1>1. PICK bar : bar = "|"
  OBVIOUS
<1>2. PICK S : S = STRING \cup {bar}
  OBVIOUS
<1>3. ASSUME NEW g \in AuditEvent PROVE g.actor \in Seq(S) /\ g.action \in Seq(S) /\ g.payload \in Seq(S)
  <2>1. g.actor \in Seq(STRING) /\ g.action \in Seq(STRING) /\ g.payload \in Seq(STRING)
    BY TextAssumption DEF AuditEvent
  <2>2. \A t \in Seq(STRING) : t \in Seq(S)
    BY <1>2
  <2> QED BY <2>1, <2>2
<1>4. PICK a \in Seq(S), b \in Seq(S), c \in Seq(S) : a = e.actor /\ b = e.action /\ c = e.payload
  BY <1>3
<1>5. PICK p \in Seq(S), q \in Seq(S), r \in Seq(S) : p = f.actor /\ q = f.action /\ r = f.payload
  BY <1>3
<1>6. /\ Unbarred(a, bar) /\ Unbarred(b, bar)
      /\ Unbarred(p, bar) /\ Unbarred(q, bar)
  BY <1>1, <1>4, <1>5 DEF Plain, Unbarred
<1>7. PICK x, y : x = Begun(b, bar, c) /\ y = Begun(q, bar, r)
  OBVIOUS
<1>8. bar \in S /\ x \in Seq(S) /\ y \in Seq(S)
  BY <1>2, <1>7, BegunCharacters
<1>10. Begun(a, bar, x) = Begun(p, bar, y)
  <2>1. canonical_event_payload(e)[5] = canonical_event_payload(f)[5]
    OBVIOUS
  <2>2. Joined(a, bar, b, c) = Joined(p, bar, q, r)
    BY <1>1, <1>4, <1>5, <2>1 DEF canonical_event_payload, Joined
  <2>3. Joined(a, bar, b, c) = Begun(a, bar, x)
    BY <1>7, <1>8, JoinedTexts
  <2>4. Joined(p, bar, q, r) = Begun(p, bar, y)
    BY <1>7, <1>8, JoinedTexts
  <2> QED BY <2>2, <2>3, <2>4
<1>11. a = p /\ x = y
  BY <1>6, <1>8, <1>10, SplitAtBar
<1>12. b = q /\ c = r
  <2>1. Begun(b, bar, c) = Begun(q, bar, r)
    BY <1>7, <1>11
  <2> QED BY <1>6, <1>8, <2>1, SplitAtBar
<1>9. e.sequence = f.sequence /\ e.category = f.category /\ e.timestamp_ms = f.timestamp_ms
  <2>1. /\ canonical_event_payload(e)[2] = canonical_event_payload(f)[2]
        /\ canonical_event_payload(e)[3] = canonical_event_payload(f)[3]
        /\ canonical_event_payload(e)[4] = canonical_event_payload(f)[4]
    OBVIOUS
  <2> QED BY <2>1 DEF canonical_event_payload
<1>13. e.actor = f.actor /\ e.action = f.action /\ e.payload = f.payload
  BY <1>4, <1>5, <1>11, <1>12
<1>14. ASSUME NEW g \in AuditEvent
       PROVE  g = [sequence |-> g.sequence, category |-> g.category, timestamp_ms |-> g.timestamp_ms,
                   actor |-> g.actor, action |-> g.action, payload |-> g.payload]
  BY DEF AuditEvent
<1>15. /\ e = [sequence |-> e.sequence, category |-> e.category, timestamp_ms |-> e.timestamp_ms,
               actor |-> e.actor, action |-> e.action, payload |-> e.payload]
       /\ f = [sequence |-> f.sequence, category |-> f.category, timestamp_ms |-> f.timestamp_ms,
               actor |-> f.actor, action |-> f.action, payload |-> f.payload]
  BY <1>14
<1> QED BY <1>9, <1>13, <1>15

\* A log that verifies holds only records an append acknowledged.
THEOREM VerifiedMeansAppended == Spec => []VerifiedRecordsWereAppended
<1>1. LogInv /\ EventsKnown => VerifiedRecordsWereAppended
  <2> SUFFICES ASSUME LogInv, EventsKnown, Verifies(records), NEW i \in 1 .. Len(records)
               PROVE  \E r \in receipts :
                        /\ canonical_event_payload(r.event)
                             = canonical_event_payload(records[i].event)
                        /\ r.prev_hash = records[i].prev_hash
                        /\ r.chain_hash = records[i].chain_hash
                        /\ Plain(r.event) /\ Plain(records[i].event) => r.event = records[i].event
    BY DEF VerifiedRecordsWereAppended
  <2>1. RecordVerifies(records, i)
    BY DEF Verifies
  <2>2. /\ records[i].signature_hex = signature_material(records[i].chain_hash)
        /\ records[i].signature_hex \in Signatures
        /\ records[i].prev_hash = Previous(records, i)
        /\ records[i].chain_hash = ChainHash(records[i].prev_hash, EventHash(records[i].event))
    BY <2>1 DEF RecordVerifies, LogInv, SignaturesKnown
  <2>3. PICK r \in receipts : r.signature_hex = records[i].signature_hex
    BY <2>2, SignatureInjective DEF Signatures
  <2>4. /\ r.chain_hash = ChainHash(r.prev_hash, EventHash(r.event))
        /\ r.signature_hex = signature_material(r.chain_hash)
    BY DEF LogInv, ReceiptsSound
  <2>5. r.chain_hash = records[i].chain_hash
    BY <2>2, <2>3, <2>4, SignatureInjective
  <2>6. r.prev_hash = records[i].prev_hash /\ EventHash(r.event) = EventHash(records[i].event)
    <3>1. ChainHash(r.prev_hash, EventHash(r.event))
            = ChainHash(records[i].prev_hash, EventHash(records[i].event))
      BY <2>2, <2>4, <2>5
    <3> QED BY <3>1, ChainHashInjective
  <2>7. canonical_event_payload(r.event) = canonical_event_payload(records[i].event)
    BY <2>6, EventHashInjective
  <2>8. r.event \in AuditEvent /\ records[i].event \in AuditEvent
    BY DEF EventsKnown
  <2>9. Plain(r.event) /\ Plain(records[i].event) => r.event = records[i].event
    BY <2>7, <2>8, PayloadTellsEvents
  <2> QED BY <2>5, <2>6, <2>7, <2>9
<1> QED BY <1>1, LogInvariant, EventsInvariant, PTL

\* The root hash of a verified log determines its content.
THEOREM RootPinsContent == Spec => []RootHashPinsContent
<1>1. LogInv => RootHashPinsContent
  <2> SUFFICES ASSUME LogInv, Verifies(records), NEW a \in anchors, a.root = root_hash(records)
               PROVE  a.content = Content(records)
    BY DEF RootHashPinsContent
  <2>1. PICK s : IsLog(s) /\ Verifies(s) /\ a.root = root_hash(s) /\ a.content = Content(s)
    BY DEF LogInv, AnchorsSound
  <2>2. Content(s) = Content(records)
    BY <2>1, SameRoot DEF LogInv
  <2> QED BY <2>1, <2>2
<1> QED BY <1>1, LogInvariant, PTL

\* An append neither breaks nor repairs a log.
THEOREM AppendKeepsTheVerdict == Spec => AppendKeepsVerdict
<1>1. LogInv /\ [Next]_vars =>
        [response'.op = "append" => (Verifies(records) <=> Verifies(records)')]_vars
  <2> SUFFICES ASSUME LogInv, Next, response'.op = "append"
               PROVE  Verifies(records) <=> Verifies(records)'
    BY DEF vars
  <2>1. PICK e \in AuditEvent : append(e)
    BY DEF Next, verify_chain, Respond, Alter, Drop, Swap, Fault
  <2>2. Verifies(records) <=> Verifies(records')
    BY <2>1, AppendStep
  <2> QED BY <2>2 DEF Verifies, RecordVerifies, Previous
<1> QED BY <1>1, LogInvariant, PTL DEF Spec, AppendKeepsVerdict

\* Without faults the log verifies and holds exactly what was acknowledged.
THEOREM UntouchedVerifies == Spec => []UntouchedLogVerifies
<1> DEFINE Inv == UntouchedLogVerifies /\ faults \in Nat
<1>1. Init => Inv
  <2> SUFFICES ASSUME Init PROVE Inv
    OBVIOUS
  <2>1. 1 .. Len(records) = {}
    BY DEF Init
  <2> QED BY <2>1 DEF Init, UntouchedLogVerifies, Verifies
<1>2. LogInv /\ Inv /\ [Next]_vars => Inv'
  <2> SUFFICES ASSUME LogInv, Inv, [Next]_vars PROVE Inv'
    OBVIOUS
  <2>1. ASSUME NEW e \in AuditEvent, append(e) PROVE Inv'
    <3>1. faults' = faults /\ (Verifies(records) <=> Verifies(records'))
      BY <2>1, AppendStep DEF append
    <3>2. ASSUME receipts = {records[i] : i \in 1 .. Len(records)}
          PROVE  receipts' = {records'[i] : i \in 1 .. Len(records')}
      <4>1. CASE UNCHANGED <<records, receipts>>
        BY <3>2, <4>1
      <4>2. CASE e.sequence = Len(records) /\ Push(e)
        <5> DEFINE r == NewRecord(records, e)
        <5>1. /\ Len(records') = Len(records) + 1 /\ Len(records) \in Nat
              /\ \A k \in 1 .. Len(records) : records'[k] = records[k]
              /\ records'[Len(records) + 1] = r
          BY <4>2, AppendToLog, LogLength DEF LogInv, Push
        <5>2. receipts' = receipts \cup {r}
          BY <4>2 DEF Push
        <5> HIDE DEF r
        <5>3. 1 .. (Len(records) + 1) = (1 .. Len(records)) \cup {Len(records) + 1}
          BY <5>1
        <5> QED BY <3>2, <5>1, <5>2, <5>3
      <4> QED BY <2>1, <4>1, <4>2 DEF append
    <3> QED BY <3>1, <3>2 DEF UntouchedLogVerifies, Verifies, RecordVerifies, Previous
  <2>2. CASE verify_chain
    BY <2>2 DEF verify_chain, UntouchedLogVerifies, Verifies, RecordVerifies, Previous
  <2>3. CASE Fault
    <3>1. faults' \in Nat /\ faults' # 0
      BY <2>3 DEF Fault
    <3> QED BY <3>1 DEF UntouchedLogVerifies
  <2>4. CASE UNCHANGED vars
    BY <2>4 DEF vars, UntouchedLogVerifies, Verifies, RecordVerifies, Previous
  <2> QED BY <2>1, <2>2, <2>3, <2>4 DEF Next, Alter, Drop, Swap
<1> QED BY <1>1, <1>2, LogInvariant, PTL DEF Spec
=============================================================================
