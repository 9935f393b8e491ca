------------------------------ MODULE ReadProofs ------------------------------
(***************************************************************************)
(* Proofs about LedgerReads: for any number of pods, records and races,    *)
(* a listing misses nothing and a verification reports no failure.         *)
(***************************************************************************)
EXTENDS LedgerReads, AuditLedgerProofs, FiniteSetTheorems

(***************************************************************************)
(* The records carry the sequences from 1 to their number.                 *)
(***************************************************************************)
Counted ==
  /\ IsFiniteSet(sealed)
  /\ \A r \in sealed : r.sequence \in 1..Cardinality(sealed)
  /\ \A n \in 1..Cardinality(sealed) : \E r \in sealed : r.sequence = n

(***************************************************************************)
(* A transfer the first query did not find open was SEALED by then, and so *)
(* has its record when the second query runs.                              *)
(***************************************************************************)
ListingOK ==
  /\ listing \in [stage : {"idle", "sealed", "answered"}, known : SUBSET Requisition,
                  entries : SUBSET (Requisition \X {"OPEN", "SEALED"})]
  /\ listing.stage = "sealed" =>
       \A q \in listing.known :
         <<q, "OPEN">> \in listing.entries \/ drafts[q].status = "SEALED"
  /\ ListMissesNothing

Verification ==
  [stage : {"idle", "running", "answered"}, atStart : Nat, batch : SUBSET sealed,
   exhausted : BOOLEAN, checked : Nat, expectedSequence : Nat \ {0},
   expectedPrev : {GENESIS_HASH} \union {RecordHash(r) : r \in sealed},
   failures : SUBSET {"SEQUENCE_GAP", "CHAIN_BROKEN"}]

(***************************************************************************)
(* The cursor stands behind the record checked last, with a batch that     *)
(* leaves out no unread record before the last of it.                      *)
(***************************************************************************)
CursorOK ==
  /\ verification.checked = verification.expectedSequence - 1
  /\ IF verification.expectedSequence = 1 THEN verification.expectedPrev = GENESIS_HASH
     ELSE \E s \in sealed : /\ s.sequence = verification.expectedSequence - 1
                            /\ verification.expectedPrev = RecordHash(s)
  /\ verification.batch \subseteq Unread
  /\ \A r \in verification.batch, s \in Unread :
       s.sequence <= r.sequence => s \in verification.batch

(***************************************************************************)
(* Once the server had no more, nothing that was there at the call is left *)
(* outside the batch.                                                      *)
(***************************************************************************)
ReachOK ==
  /\ verification.atStart <= Cardinality(sealed)
  /\ verification.exhausted =>
       \A r \in Unread : r.sequence <= verification.atStart => r \in verification.batch

ReadInv ==
  /\ IInv
  /\ Counted
  /\ ListingOK
  /\ verification \in Verification
  /\ CursorOK
  /\ ReachOK
  /\ VerifyIsRight

LEMMA ReadInitial ==
  ASSUME ReadInit
  PROVE  ReadInv
<1>1. Init /\ listing = NoListing /\ verification = NoVerification /\ sealed = {}
  BY DEF ReadInit, Init
<1>2. IInv
  BY <1>1, InvariantInit
<1>3. IsFiniteSet({}) /\ Cardinality({}) = 0
  BY FS_EmptySet
<1>4. Counted
  BY <1>1, <1>3 DEF Counted
<1>5. ListingOK
  BY <1>1 DEF ListingOK, ListMissesNothing, NoListing
<1>6. verification \in Verification
  BY <1>1 DEF NoVerification, Verification
<1>7. CursorOK
  BY <1>1 DEF NoVerification, CursorOK
<1>8. ReachOK /\ VerifyIsRight
  BY <1>1, <1>3 DEF NoVerification, ReachOK, VerifyIsRight
<1>. QED BY <1>2, <1>4, <1>5, <1>6, <1>7, <1>8 DEF ReadInv

-----------------------------------------------------------------------------
(***************************************************************************)
(* The consumers go on beside the reads.                                   *)
(***************************************************************************)

LEMMA RecordsCount ==
  ASSUME Counted
  PROVE  Cardinality(sealed) \in Nat
BY FS_CardinalityType DEF Counted

(***************************************************************************)
(* A record that is added gets the next number.                            *)
(***************************************************************************)
LEMMA RecordIsNext ==
  ASSUME IInv, Counted, [Next]_vars
  PROVE  /\ Counted'
         /\ sealed \subseteq sealed'
         /\ Cardinality(sealed) <= Cardinality(sealed')
         /\ \A r \in sealed' \ sealed : r.sequence = Cardinality(sealed) + 1
<1>. DEFINE n == Cardinality(sealed)
<1>1. n \in Nat
  BY RecordsCount
<1>2. CASE UNCHANGED sealed
  BY <1>1, <1>2 DEF Counted
<1>3. CASE sealed' # sealed
  <2>1. Chain!Next
    BY <1>3, ChainRefinementStep DEF IInv
  <2>2. PICK record \in sealed' : Chain!Append(record)
    BY <2>1 DEF Chain!Next
  <2>3. sealed' = sealed \union {record}
    BY <2>2 DEF Chain!Append
  <2>4. record.sequence = n + 1
    <3>1. CASE sealed = {} /\ record.sequence = 1
      <4>1. Cardinality({}) = 0
        BY FS_EmptySet
      <4>. QED BY <3>1, <4>1
    <3>2. ASSUME NEW last \in sealed, Chain!IsEnd(last), Chain!Follows(record, last)
          PROVE  record.sequence = n + 1
      <4>1. last.sequence \in 1..n /\ record.sequence = last.sequence + 1
        BY <3>2 DEF Counted, Chain!Follows
      <4>2. PICK r \in sealed : r.sequence = n
        BY <1>1, <4>1 DEF Counted
      <4>3. r.sequence <= last.sequence
        BY <3>2 DEF Chain!IsEnd
      <4>. QED BY <1>1, <4>1, <4>2, <4>3
    <3>. QED BY <2>2, <3>1, <3>2 DEF Chain!Append
  <2>5. record \notin sealed
    BY <1>1, <2>4 DEF Counted
  <2>6. IsFiniteSet(sealed') /\ Cardinality(sealed') = n + 1
    BY <2>3, <2>5, FS_AddElement DEF Counted
  <2>7. \A r \in sealed' : r.sequence \in 1..(n + 1)
    BY <1>1, <2>3, <2>4 DEF Counted
  <2>8. \A i \in 1..(n + 1) : \E r \in sealed' : r.sequence = i
    <3>1. ASSUME NEW i \in 1..(n + 1)
          PROVE  \E r \in sealed' : r.sequence = i
      <4>1. CASE i = n + 1
        BY <2>3, <2>4, <4>1
      <4>2. CASE i \in 1..n
        BY <2>3, <4>2 DEF Counted
      <4>. QED BY <1>1, <4>1, <4>2
    <3>. QED BY <3>1
  <2>9. Counted'
    BY <2>6, <2>7, <2>8 DEF Counted
  <2>. QED BY <1>1, <2>3, <2>4, <2>6, <2>9
<1>. QED BY <1>2, <1>3

LEMMA ConsumerStep ==
  ASSUME ReadInv, [Next]_vars, UNCHANGED reads
  PROVE  ReadInv'
<1>. DEFINE n == Cardinality(sealed)
<1>1. IInv /\ IInv' /\ Counted /\ n \in Nat
  BY InvariantStep, RecordsCount DEF ReadInv
<1>2. /\ Counted' /\ sealed \subseteq sealed' /\ n <= Cardinality(sealed') /\ Cardinality(sealed') \in Nat
      /\ \A r \in sealed' \ sealed : r.sequence = n + 1
  BY <1>1, RecordIsNext, FS_CardinalityType DEF Counted
<1>3. UNCHANGED <<listing, verification>>
  BY DEF reads
<1>4. ListingOK'
  <2>1. \A q \in Requisition : drafts[q].status = "SEALED" => drafts'[q].status = "SEALED"
    BY <1>1, StepGrows DEF Grows, IInv
  <2>. QED BY <1>3, <2>1 DEF ReadInv, ListingOK, ListMissesNothing
<1>5. verification' \in Verification'
  BY <1>2, <1>3 DEF ReadInv, Verification
<1>6. \A r \in sealed' : r \in sealed \/ (r.sequence = n + 1 /\ \A s \in sealed : s.sequence < r.sequence)
  BY <1>1, <1>2 DEF Counted
<1>7. \A r \in sealed' : r.sequence \in Nat /\ r.sequence > 0
  BY <1>2 DEF Counted
<1>8. verification.batch \subseteq sealed /\ verification.expectedSequence \in Nat
      /\ verification.atStart \in Nat
  BY DEF ReadInv, Verification
<1>9. CursorOK'
  <2>1. verification.batch \subseteq Unread' /\ Unread \subseteq Unread'
    BY <1>2, <1>3 DEF ReadInv, CursorOK, Unread
  <2>2. ASSUME NEW r \in verification.batch, NEW s \in Unread', s.sequence <= r.sequence
        PROVE  s \in verification.batch
    <3>1. s \in sealed' /\ r \in sealed /\ s.sequence \in Nat /\ r.sequence \in Nat
      BY <1>2, <1>7, <1>8 DEF Unread
    <3>2. s \in sealed
      BY <1>6, <2>2, <3>1
    <3>3. s \in Unread
      BY <1>3, <2>2, <3>2 DEF Unread
    <3>. QED BY <2>2, <3>3 DEF ReadInv, CursorOK
  <2>3. /\ verification.checked = verification.expectedSequence - 1
        /\ IF verification.expectedSequence = 1 THEN verification.expectedPrev = GENESIS_HASH
           ELSE \E s \in sealed' : /\ s.sequence = verification.expectedSequence - 1
                                   /\ verification.expectedPrev = RecordHash(s)
    BY <1>2 DEF ReadInv, CursorOK
  <2>. QED BY <1>3, <2>1, <2>2, <2>3 DEF CursorOK
<1>10. ReachOK'
  <2>1. verification.atStart <= n
    BY DEF ReadInv, ReachOK
  <2>2. ASSUME verification.exhausted, NEW r \in Unread', r.sequence <= verification.atStart
        PROVE  r \in verification.batch
    <3>1. r \in sealed
      BY <1>1, <1>2, <1>8, <2>1, <2>2 DEF Unread
    <3>2. r \in Unread
      BY <1>3, <2>2, <3>1 DEF Unread
    <3>. QED BY <2>2, <3>2 DEF ReadInv, ReachOK
  <2>3. verification.atStart <= Cardinality(sealed')
    BY <1>1, <1>2, <1>8, <2>1
  <2>. QED BY <1>3, <2>2, <2>3 DEF ReachOK
<1>11. VerifyIsRight'
  BY <1>3 DEF ReadInv, VerifyIsRight
<1>. QED BY <1>1, <1>2, <1>4, <1>5, <1>9, <1>10, <1>11 DEF ReadInv

-----------------------------------------------------------------------------
(***************************************************************************)
(* The reads.                                                              *)
(***************************************************************************)

(***************************************************************************)
(* A read changes no collection.                                           *)
(***************************************************************************)
LEMMA LedgerKept ==
  ASSUME IInv, Counted, UNCHANGED vars
  PROVE  IInv' /\ Counted' /\ sealed' = sealed /\ drafts' = drafts
<1>1. IInv'
  BY InvariantStep
<1>2. sealed' = sealed /\ drafts' = drafts
  BY DEF vars, mongo
<1>. QED BY <1>1, <1>2 DEF Counted

LEMMA ListStep ==
  ASSUME ReadInv, UNCHANGED vars, ListDrafts \/ ListSealed
  PROVE  ReadInv'
<1>1. IInv' /\ Counted' /\ sealed' = sealed /\ drafts' = drafts /\ verification' = verification
  BY LedgerKept DEF ReadInv, ListDrafts, ListSealed
<1>2. ListingOK'
  <2>1. CASE ListDrafts
    <3>1. listing' = [stage |-> "sealed", known |-> Known, entries |-> OpenEntries]
      BY <2>1 DEF ListDrafts
    <3>3. Known \subseteq Requisition /\ OpenEntries \subseteq Requisition \X {"OPEN", "SEALED"}
      BY DEF Known, OpenEntries
    <3>2. \A q \in Known : q \in Requisition
                             /\ (<<q, "OPEN">> \in OpenEntries \/ drafts[q].status = "SEALED")
      <4>1. \A q \in Requisition : drafts[q].status \in {"NONE", "OPEN", "SEALED"}
        BY DEF ReadInv, IInv, TypeOK, Draft
      <4>. QED BY <4>1 DEF Known, OpenEntries
    <3>. QED BY <1>1, <3>1, <3>2, <3>3 DEF ListingOK, ListMissesNothing
  <2>2. CASE ListSealed
    <3>1. /\ listing.stage = "sealed"
          /\ listing' = [listing EXCEPT !.stage = "answered",
                                        !.entries = @ \union SealedEntries]
      BY <2>2 DEF ListSealed
    <3>2. SealedEntries \subseteq Requisition \X {"OPEN", "SEALED"}
      BY DEF SealedEntries, ReadInv, IInv, TypeOK
    <3>3. \A q \in Requisition : drafts[q].status = "SEALED" => <<q, "SEALED">> \in SealedEntries
      BY DEF ReadInv, IInv, SealedDraftHasRecord, HasRecord, SealedEntries
    <3>4. /\ listing'.stage = "answered" /\ listing'.known = listing.known
          /\ listing'.entries = listing.entries \union SealedEntries
          /\ listing'.known \subseteq Requisition
          /\ listing.entries \subseteq Requisition \X {"OPEN", "SEALED"}
          /\ listing' \in [stage : {"idle", "sealed", "answered"}, known : SUBSET Requisition,
                           entries : SUBSET (Requisition \X {"OPEN", "SEALED"})]
      BY <3>1, <3>2 DEF ReadInv, ListingOK
    <3>5. \A q \in listing.known : <<q, "OPEN">> \in listing.entries \/ drafts[q].status = "SEALED"
      BY <3>1 DEF ReadInv, ListingOK
    <3>6. \A q \in listing'.known :
            <<q, "OPEN">> \in listing'.entries \/ <<q, "SEALED">> \in listing'.entries
      BY <3>3, <3>4, <3>5
    <3>. QED BY <3>4, <3>6 DEF ListingOK, ListMissesNothing
  <2>. QED BY <2>1, <2>2
<1>. QED BY <1>1, <1>2 DEF ReadInv, Verification, CursorOK, ReachOK, VerifyIsRight, Unread

LEMMA StartVerifyStep ==
  ASSUME ReadInv, UNCHANGED vars, StartVerify
  PROVE  ReadInv'
<1>1. IInv' /\ Counted' /\ sealed' = sealed /\ listing' = listing /\ drafts' = drafts
  BY LedgerKept DEF ReadInv, StartVerify
<1>2. verification' = [NoVerification EXCEPT !.stage = "running", !.atStart = Cardinality(sealed)]
  BY DEF StartVerify
<1>3. Cardinality(sealed) \in Nat
  BY RecordsCount DEF ReadInv
<1>8. verification' = [stage |-> "running", atStart |-> Cardinality(sealed), batch |-> {},
                       exhausted |-> FALSE, checked |-> 0, expectedSequence |-> 1,
                       expectedPrev |-> GENESIS_HASH, failures |-> {}]
  BY <1>2 DEF NoVerification
<1>4. /\ verification' \in Verification
      /\ verification'.atStart = Cardinality(sealed) /\ ~ verification'.exhausted
      /\ verification'.batch = {} /\ verification'.failures = {} /\ verification'.stage = "running"
      /\ verification'.checked = 0 /\ verification'.expectedSequence = 1
      /\ verification'.expectedPrev = GENESIS_HASH
  BY <1>3, <1>8 DEF Verification
<1>5. verification' \in Verification'
  BY <1>1, <1>4 DEF Verification
<1>6. CursorOK' /\ ReachOK' /\ VerifyIsRight'
  BY <1>1, <1>3, <1>4 DEF CursorOK, ReachOK, VerifyIsRight
<1>7. ListingOK'
  BY <1>1 DEF ReadInv, ListingOK, ListMissesNothing
<1>. QED BY <1>1, <1>5, <1>6, <1>7 DEF ReadInv

LEMMA FetchBatchStep ==
  ASSUME ReadInv, UNCHANGED vars, FetchBatch
  PROVE  ReadInv'
<1>1. IInv' /\ Counted' /\ sealed' = sealed /\ listing' = listing /\ drafts' = drafts
  BY LedgerKept DEF ReadInv, FetchBatch
<1>2. PICK last \in {r.sequence : r \in Unread} \union {0} :
        LET batch == {r \in Unread : r.sequence <= last}
        IN  verification' = [verification EXCEPT !.batch = batch, !.exhausted = (batch = Unread)]
  BY DEF FetchBatch
<1>. DEFINE batch == {r \in Unread : r.sequence <= last}
<1>3. verification.stage = "running" /\ verification \in Verification
  BY DEF FetchBatch, ReadInv
<1>4. batch \subseteq Unread /\ Unread \subseteq sealed
  BY DEF Unread
<1>5. last \in Nat /\ \A r \in Unread : r.sequence \in Nat
  BY DEF Unread, ReadInv, Counted
<1>6. \A r \in batch, s \in Unread : s.sequence <= r.sequence => s \in batch
  BY <1>5
<1>. HIDE DEF batch
<1>7. verification' = [verification EXCEPT !.batch = batch, !.exhausted = (batch = Unread)]
  BY <1>2 DEF batch
<1>8. /\ verification' \in Verification
      /\ verification'.batch = batch /\ verification'.exhausted = (batch = Unread)
      /\ verification'.stage = "running"
      /\ verification'.atStart = verification.atStart
      /\ verification'.checked = verification.checked
      /\ verification'.expectedSequence = verification.expectedSequence
      /\ verification'.expectedPrev = verification.expectedPrev
      /\ verification'.failures = verification.failures
  BY <1>3, <1>4, <1>7 DEF Verification
<1>9. Unread' = Unread
  BY <1>1, <1>8 DEF Unread
<1>10. CursorOK'
  BY <1>1, <1>4, <1>6, <1>8, <1>9 DEF ReadInv, CursorOK
<1>11. ReachOK' /\ VerifyIsRight'
  BY <1>1, <1>8, <1>9 DEF ReadInv, ReachOK, VerifyIsRight
<1>12. ListingOK' /\ verification' \in Verification'
  BY <1>1, <1>8 DEF ReadInv, ListingOK, ListMissesNothing, Verification
<1>. QED BY <1>1, <1>10, <1>11, <1>12 DEF ReadInv

(***************************************************************************)
(* The record checked next has the sequence and the hash expected: the     *)
(* chain has no gap, and the cursor leaves none.                           *)
(***************************************************************************)
LEMMA NextIsExpected ==
  ASSUME ReadInv, NEW r \in verification.batch,
         \A s \in verification.batch : r.sequence <= s.sequence
  PROVE  /\ r \in sealed
         /\ r.sequence = verification.expectedSequence
         /\ r.prevHash = verification.expectedPrev
<1>. DEFINE n == verification.expectedSequence
<1>1. n \in Nat /\ n > 0 /\ Cardinality(sealed) \in Nat
  BY RecordsCount DEF ReadInv, Verification
<1>2. r \in sealed /\ r.sequence >= n /\ r.sequence \in 1..Cardinality(sealed)
  BY DEF ReadInv, CursorOK, Unread, Counted
<1>3. PICK e \in sealed : e.sequence = n
  BY <1>1, <1>2 DEF ReadInv, Counted
<1>4. e \in Unread
  BY <1>1, <1>3 DEF Unread
<1>5. e \in verification.batch
  BY <1>2, <1>3, <1>4 DEF ReadInv, CursorOK
<1>6. r.sequence = n
  BY <1>1, <1>2, <1>3, <1>5
<1>7. r.prevHash = verification.expectedPrev
  <2>1. CASE n = 1
    BY <1>2, <1>6, <2>1 DEF ReadInv, IInv, ChainIntact, CursorOK
  <2>2. CASE n # 1
    <3>1. PICK s \in sealed : s.sequence = n - 1 /\ verification.expectedPrev = RecordHash(s)
      BY <2>2 DEF ReadInv, CursorOK
    <3>2. PICK p \in sealed : p.sequence = n - 1 /\ r.prevHash = RecordHash(p)
      BY <1>2, <1>6, <2>2 DEF ReadInv, IInv, ChainIntact
    <3>3. s = p
      BY <3>1, <3>2 DEF ReadInv, IInv, ChainIntact
    <3>. QED BY <3>1, <3>2, <3>3
  <2>. QED BY <2>1, <2>2
<1>. QED BY <1>2, <1>6, <1>7

LEMMA VerifyRecordStep ==
  ASSUME ReadInv, UNCHANGED vars, VerifyRecord
  PROVE  ReadInv'
<1>1. IInv' /\ Counted' /\ sealed' = sealed /\ listing' = listing /\ drafts' = drafts
  BY LedgerKept DEF ReadInv, VerifyRecord
<1>. DEFINE found(r) == {f \in {"SEQUENCE_GAP", "CHAIN_BROKEN"} :
                          CASE f = "SEQUENCE_GAP" -> r.sequence # verification.expectedSequence
                            [] f = "CHAIN_BROKEN" -> r.prevHash # verification.expectedPrev}
<1>2. PICK r \in verification.batch :
        /\ \A s \in verification.batch : r.sequence <= s.sequence
        /\ verification' =
             [verification EXCEPT
                !.batch = @ \ {r},
                !.checked = @ + 1,
                !.expectedSequence = r.sequence + 1,
                !.expectedPrev = RecordHash(r),
                !.failures = @ \union found(r)]
  BY DEF VerifyRecord
<1>3. /\ r \in sealed
      /\ r.sequence = verification.expectedSequence
      /\ r.prevHash = verification.expectedPrev
  BY <1>2, NextIsExpected
<1>4. found(r) = {}
  BY <1>3
<1>. HIDE DEF found
<1>5. verification \in Verification /\ verification.stage = "running"
  BY DEF VerifyRecord, ReadInv
<1>6. r.sequence \in Nat /\ r.sequence > 0
  BY <1>3, <1>5 DEF Verification
<1>7. /\ verification' \in Verification
      /\ verification'.batch = verification.batch \ {r}
      /\ verification'.exhausted = verification.exhausted
      /\ verification'.stage = "running"
      /\ verification'.atStart = verification.atStart
      /\ verification'.checked = verification.checked + 1
      /\ verification'.expectedSequence = r.sequence + 1
      /\ verification'.expectedPrev = RecordHash(r)
      /\ verification'.failures = verification.failures
  <2>1. /\ verification.batch \ {r} \in SUBSET sealed
        /\ verification.checked + 1 \in Nat /\ r.sequence + 1 \in Nat \ {0}
        /\ RecordHash(r) \in {GENESIS_HASH} \union {RecordHash(s) : s \in sealed}
    BY <1>3, <1>5, <1>6 DEF Verification
  <2>2. verification.failures \union found(r) = verification.failures
    BY <1>4
  <2>. DEFINE hash == RecordHash(r)
  <2>. HIDE DEF hash
  <2>3. verification' = [verification EXCEPT
                           !.batch = verification.batch \ {r},
                           !.checked = verification.checked + 1,
                           !.expectedSequence = r.sequence + 1,
                           !.expectedPrev = hash,
                           !.failures = verification.failures]
    BY <1>2, <2>2 DEF hash
  <2>4. hash \in {GENESIS_HASH} \union {RecordHash(s) : s \in sealed}
    BY <2>1 DEF hash
  <2>5. /\ verification' \in Verification
        /\ verification'.batch = verification.batch \ {r}
        /\ verification'.exhausted = verification.exhausted
        /\ verification'.stage = "running"
        /\ verification'.atStart = verification.atStart
        /\ verification'.checked = verification.checked + 1
        /\ verification'.expectedSequence = r.sequence + 1
        /\ verification'.expectedPrev = hash
        /\ verification'.failures = verification.failures
    BY <1>5, <2>1, <2>3, <2>4 DEF Verification
  <2>. QED BY <2>5 DEF hash
<1>8. Unread' = Unread \ {r}
  <2>1. \A s \in sealed : s.sequence \in Nat /\ (s.sequence = r.sequence => s = r)
    BY <1>3 DEF ReadInv, IInv, ChainIntact, Counted
  <2>. QED BY <1>1, <1>3, <1>6, <1>7, <2>1 DEF Unread
<1>9. CursorOK'
  <2>1. verification'.checked = verification'.expectedSequence - 1
    BY <1>3, <1>5, <1>7 DEF ReadInv, CursorOK, Verification
  <2>2. r.sequence + 1 # 1 /\ r.sequence = (r.sequence + 1) - 1
    BY <1>6
  <2>3. verification'.batch \subseteq Unread'
    BY <1>7, <1>8 DEF ReadInv, CursorOK
  <2>4. \A s \in verification'.batch, t \in Unread' :
          t.sequence <= s.sequence => t \in verification'.batch
    BY <1>7, <1>8 DEF ReadInv, CursorOK
  <2>. QED BY <1>1, <1>3, <1>7, <2>1, <2>2, <2>3, <2>4 DEF CursorOK
<1>10. ReachOK' /\ VerifyIsRight'
  BY <1>1, <1>7, <1>8 DEF ReadInv, ReachOK, VerifyIsRight
<1>11. ListingOK' /\ verification' \in Verification'
  BY <1>1, <1>7 DEF ReadInv, ListingOK, ListMissesNothing, Verification
<1>. QED BY <1>1, <1>9, <1>10, <1>11 DEF ReadInv

LEMMA EndVerifyStep ==
  ASSUME ReadInv, UNCHANGED vars, EndVerify
  PROVE  ReadInv'
<1>1. IInv' /\ Counted' /\ sealed' = sealed /\ listing' = listing /\ drafts' = drafts
  BY LedgerKept DEF ReadInv, EndVerify
<1>2. /\ verification.batch = {} /\ verification.exhausted
      /\ verification' = [verification EXCEPT !.stage = "answered"]
      /\ verification \in Verification
  BY DEF EndVerify, ReadInv
<1>. DEFINE n == verification.expectedSequence
<1>3. n \in Nat /\ n > 0 /\ verification.atStart \in Nat /\ Cardinality(sealed) \in Nat
      /\ verification.checked = n - 1
  BY <1>2, RecordsCount DEF ReadInv, CursorOK, Verification
<1>4. ~ (n <= verification.atStart)
  <2>. SUFFICES ASSUME n <= verification.atStart PROVE FALSE
    OBVIOUS
  <2>1. n \in 1..Cardinality(sealed)
    BY <1>3 DEF ReadInv, ReachOK
  <2>2. PICK r \in sealed : r.sequence = n
    BY <2>1 DEF ReadInv, Counted
  <2>3. r \in Unread
    BY <1>3, <2>2 DEF Unread
  <2>. QED BY <1>2, <2>2, <2>3 DEF ReadInv, ReachOK
<1>5. verification.checked >= verification.atStart
  BY <1>3, <1>4
<1>6. /\ verification' \in Verification
      /\ verification'.batch = verification.batch
      /\ verification'.exhausted = verification.exhausted
      /\ verification'.atStart = verification.atStart
      /\ verification'.checked = verification.checked
      /\ verification'.expectedSequence = verification.expectedSequence
      /\ verification'.expectedPrev = verification.expectedPrev
      /\ verification'.failures = verification.failures
  BY <1>2 DEF Verification
<1>7. Unread' = Unread
  BY <1>1, <1>6 DEF Unread
<1>8. CursorOK' /\ ReachOK'
  BY <1>1, <1>6, <1>7 DEF ReadInv, CursorOK, ReachOK
<1>9. VerifyIsRight'
  BY <1>5, <1>6 DEF ReadInv, VerifyIsRight
<1>10. ListingOK' /\ verification' \in Verification'
  BY <1>1, <1>6 DEF ReadInv, ListingOK, ListMissesNothing, Verification
<1>. QED BY <1>1, <1>8, <1>9, <1>10 DEF ReadInv

-----------------------------------------------------------------------------
LEMMA ReadInvariantStep ==
  ASSUME ReadInv, [ReadNext]_<<vars, reads>>
  PROVE  ReadInv'
<1>1. CASE [Next]_vars /\ UNCHANGED reads
  BY <1>1, ConsumerStep
<1>2. CASE Read /\ UNCHANGED vars
  BY <1>2, ListStep, StartVerifyStep, FetchBatchStep, VerifyRecordStep, EndVerifyStep DEF Read
<1>. QED BY <1>1, <1>2 DEF ReadNext

(***************************************************************************)
(* A listing and a verification under way fit the collections, whatever    *)
(* the consumers insert between two of their awaits.                       *)
(***************************************************************************)
THEOREM ReadsHold == ReadSpec => []ReadInv
<1>1. ReadInit => ReadInv
  BY ReadInitial
<1>2. ReadInv /\ [ReadNext]_<<vars, reads>> => ReadInv'
  BY ReadInvariantStep
<1>. QED BY <1>1, <1>2, PTL DEF ReadSpec

(***************************************************************************)
(* listTransfers misses no transfer that has a draft when it is called.    *)
(***************************************************************************)
THEOREM ListingIsComplete == ReadSpec => []ListMissesNothing
<1>1. ReadInv => ListMissesNothing
  BY DEF ReadInv, ListingOK
<1>. QED BY <1>1, ReadsHold, PTL

(***************************************************************************)
(* verifyLedger reports no failure of a chain only the consumers wrote,    *)
(* and checks every record there was when it was called.                   *)
(***************************************************************************)
THEOREM VerificationIsRight == ReadSpec => []VerifyIsRight
<1>1. ReadInv => VerifyIsRight
  BY DEF ReadInv
<1>. QED BY <1>1, ReadsHold, PTL
-----------------------------------------------------------------------------
(***************************************************************************)
(* Pages.  A query returns the newest entries first.                       *)
(***************************************************************************)
NewestFirst(list, n, Entry) ==
  /\ list \in [1..n -> Entry]
  /\ \A e \in Entry : e.updatedAt \in Nat
  /\ \A i, j \in 1..n : i < j => list[i].updatedAt > list[j].updatedAt

LEMMA FirstIsFinite ==
  ASSUME NEW n \in Nat, NEW Entry, NEW list, NewestFirst(list, n, Entry), NEW k \in Nat
  PROVE  IsFiniteSet(First(list, k)) /\ First(list, k) \subseteq First(list, n)
<1>1. DOMAIN list = 1..n
  BY DEF NewestFirst
<1>2. First(list, n) = {list[i] : i \in 1..n}
  BY <1>1 DEF First
<1>3. list \in Surjection(1..n, First(list, n))
  BY <1>1, <1>2 DEF NewestFirst, Surjection
<1>4. IsFiniteSet(First(list, n))
  BY <1>3, FS_NatSurjection DEF ExistsSurjection
<1>5. First(list, k) \subseteq First(list, n)
  BY <1>1, <1>2 DEF First
<1>. QED BY <1>4, <1>5, FS_Subset

(***************************************************************************)
(* What a query leaves out has at least as many newer ones in the page's   *)
(* two cuts as the cut is long.                                            *)
(***************************************************************************)
LEMMA CutIsNewer ==
  ASSUME NEW n \in Nat, NEW Entry, NEW list, NewestFirst(list, n, Entry), NEW k \in Nat,
         NEW cut, IsFiniteSet(cut), First(list, k) \subseteq cut,
         NEW f \in First(list, n), f \notin cut
  PROVE  Cardinality(Newer(f, cut)) >= k
<1>1. DOMAIN list = 1..n
  BY DEF NewestFirst
<1>2. PICK i \in 1..n : f = list[i]
  BY <1>1 DEF First
<1>3. i > k
  BY <1>1, <1>2 DEF First
<1>4. \A j \in 1..k : j \in 1..n /\ list[j] \in Newer(f, cut)
  <2>1. ASSUME NEW j \in 1..k
        PROVE  j \in 1..n /\ list[j] \in Newer(f, cut)
    <3>1. j \in 1..n /\ j < i
      BY <1>3
    <3>2. list[j] \in First(list, k)
      BY <1>1, <3>1 DEF First
    <3>3. list[j].updatedAt > f.updatedAt
      BY <1>2, <3>1 DEF NewestFirst
    <3>. QED BY <3>1, <3>2, <3>3 DEF Newer
  <2>. QED BY <2>1
<1>5. IsFiniteSet(Newer(f, cut)) /\ Cardinality(Newer(f, cut)) \in Nat
  <2>1. Newer(f, cut) \in SUBSET cut
    BY DEF Newer
  <2>. QED BY <2>1, FS_Subset, FS_CardinalityType
<1>6. IsFiniteSet(1..k) /\ Cardinality(1..k) = k
  BY FS_Interval
<1>7. SUFFICES ASSUME Cardinality(Newer(f, cut)) < k
               PROVE  FALSE
  BY <1>5
<1>. DEFINE g == [j \in 1..k |-> list[j]]
<1>8. g \in [1..k -> Newer(f, cut)]
  BY <1>4
<1>. HIDE DEF g
<1>9. PICK x \in 1..k, y \in 1..k : x # y /\ g[x] = g[y]
  BY <1>5, <1>6, <1>7, <1>8, FS_PigeonHole
<1>10. list[x] = list[y] /\ x \in 1..n /\ y \in 1..n /\ x \in Int /\ y \in Int
  BY <1>4, <1>9 DEF g
<1>11. list[x].updatedAt \in Nat
  BY <1>10 DEF NewestFirst
<1>12. (x < y => list[x].updatedAt > list[y].updatedAt) /\ (y < x => list[y].updatedAt > list[x].updatedAt)
  BY <1>10 DEF NewestFirst
<1>. QED BY <1>9, <1>10, <1>11, <1>12

(***************************************************************************)
(* A page of listTransfers is the page of all open drafts and all records, *)
(* as if everything were sorted first and cut then, provided the two       *)
(* queries return the newest first.  MongoDB sorts drafts by updatedAt;    *)
(* records it sorts by sequence, which is the order of sealedAt as long as *)
(* the clocks of the pods that seal agree with the chain.  Two entries of  *)
(* one query are taken to differ in their time.                            *)
(***************************************************************************)
THEOREM PagesAreRight ==
  ASSUME NEW Entry,
         NEW m \in Nat, NEW open, NewestFirst(open, m, Entry),
         NEW n \in Nat, NEW records, NewestFirst(records, n, Entry),
         NEW limit \in Nat, NEW offset \in Nat
  PROVE  Page(open, records, limit, offset)
           = Slice(First(open, m) \union First(records, n), offset, limit)
<1>. DEFINE k == limit + offset
            all == First(open, m) \union First(records, n)
            cut == First(open, k) \union First(records, k)
<1>1. k \in Nat
  OBVIOUS
<1>2. /\ IsFiniteSet(all) /\ IsFiniteSet(cut) /\ cut \subseteq all
      /\ \A e \in all : e.updatedAt \in Nat
  <2>1. /\ IsFiniteSet(First(open, m)) /\ IsFiniteSet(First(open, k))
        /\ First(open, k) \subseteq First(open, m)
    BY <1>1, FirstIsFinite
  <2>2. /\ IsFiniteSet(First(records, n)) /\ IsFiniteSet(First(records, k))
        /\ First(records, k) \subseteq First(records, n)
    BY <1>1, FirstIsFinite
  <2>3. \A e \in all : e.updatedAt \in Nat
    BY DEF First, NewestFirst
  <2>. QED BY <2>1, <2>2, <2>3, FS_Union
<1>3. ASSUME NEW f \in all, f \notin cut
      PROVE  Cardinality(Newer(f, cut)) >= k
  <2>1. First(open, k) \subseteq cut /\ First(records, k) \subseteq cut
    OBVIOUS
  <2>2. CASE f \in First(open, m)
    BY <1>1, <1>2, <1>3, <2>1, <2>2, CutIsNewer
  <2>3. CASE f \in First(records, n)
    BY <1>1, <1>2, <1>3, <2>1, <2>3, CutIsNewer
  <2>. QED BY <2>2, <2>3
<1>. HIDE DEF all, cut, k
<1>4. ASSUME NEW S, IsFiniteSet(S), NEW e
      PROVE  IsFiniteSet(Newer(e, S)) /\ Cardinality(Newer(e, S)) \in Nat
  <2>1. Newer(e, S) \in SUBSET S
    BY DEF Newer
  <2>. QED BY <1>4, <2>1, FS_Subset, FS_CardinalityType
<1>5. \A e \in all : Newer(e, cut) \subseteq Newer(e, all)
  BY <1>2 DEF Newer
<1>6. ASSUME NEW e \in all, NEW f \in Newer(e, all), f \notin cut
      PROVE  Cardinality(Newer(e, cut)) >= k /\ Cardinality(Newer(e, all)) >= k
  <2>1. f \in all /\ f.updatedAt > e.updatedAt
    BY DEF Newer
  <2>2. Newer(f, cut) \subseteq Newer(e, cut)
    BY <1>2, <2>1 DEF Newer
  <2>3. Cardinality(Newer(f, cut)) >= k
    BY <1>3, <1>6, <2>1
  <2>4. /\ Cardinality(Newer(f, cut)) <= Cardinality(Newer(e, cut))
        /\ Cardinality(Newer(e, cut)) <= Cardinality(Newer(e, all))
    BY <1>2, <1>4, <1>5, <2>2, FS_Subset
  <2>5. /\ Cardinality(Newer(f, cut)) \in Nat /\ Cardinality(Newer(e, cut)) \in Nat
        /\ Cardinality(Newer(e, all)) \in Nat
    BY <1>2, <1>4
  <2>. QED BY <1>1, <2>3, <2>4, <2>5
<1>7. ASSUME NEW e \in all, Cardinality(Newer(e, all)) < k \/ Cardinality(Newer(e, cut)) < k
      PROVE  Newer(e, all) = Newer(e, cut)
  <2>1. Cardinality(Newer(e, all)) \in Nat /\ Cardinality(Newer(e, cut)) \in Nat
    BY <1>2, <1>4
  <2>2. \A f \in Newer(e, all) : f \in cut
    BY <1>1, <1>6, <1>7, <2>1
  <2>. QED BY <1>5, <2>2 DEF Newer
<1>8. ASSUME NEW e \in all, Cardinality(Newer(e, all)) < k
      PROVE  e \in cut
  <2>. SUFFICES ASSUME e \notin cut
                PROVE  FALSE
    OBVIOUS
  <2>1. Cardinality(Newer(e, cut)) >= k
    BY <1>3
  <2>2. Newer(e, all) = Newer(e, cut)
    BY <1>7, <1>8
  <2>3. Cardinality(Newer(e, all)) \in Nat
    BY <1>2, <1>4
  <2>. QED BY <1>1, <1>8, <2>1, <2>2, <2>3
<1>9. k = offset + limit
  BY DEF k
<1>10. Slice(cut, offset, limit) = Slice(all, offset, limit)
  <2>1. ASSUME NEW e \in Slice(cut, offset, limit)
        PROVE  e \in Slice(all, offset, limit)
    <3>1. e \in all /\ Cardinality(Newer(e, cut)) < k
      BY <1>2, <1>9 DEF Slice
    <3>2. Newer(e, all) = Newer(e, cut)
      BY <1>7, <3>1
    <3>. QED BY <3>1, <3>2 DEF Slice
  <2>2. ASSUME NEW e \in Slice(all, offset, limit)
        PROVE  e \in Slice(cut, offset, limit)
    <3>1. e \in all /\ Cardinality(Newer(e, all)) < k
      BY <1>9 DEF Slice
    <3>2. e \in cut /\ Newer(e, all) = Newer(e, cut)
      BY <1>7, <1>8, <3>1
    <3>. QED BY <3>2 DEF Slice
  <2>. QED BY <2>1, <2>2
<1>. QED BY <1>10 DEF Page, all, cut, k
=============================================================================
