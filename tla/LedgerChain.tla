----------------------------- MODULE LedgerChain -----------------------------
(***************************************************************************)
(* What the audit ledger promises about sealed_transfers: an append-only   *)
(* log.  One record at a time is added, at the end, for a requisition that *)
(* has none, hanging off the hash of the record that was last.             *)
(***************************************************************************)
EXTENDS Naturals

CONSTANTS GENESIS_HASH,
          RecordHash(_)

VARIABLE sealed

IsEnd(last) == \A r \in sealed : r.sequence <= last.sequence

Follows(record, last) ==
  /\ record.sequence = last.sequence + 1
  /\ record.prevHash = RecordHash(last)

Append(record) ==
  /\ \A r \in sealed : r.requisitionNumber # record.requisitionNumber
  /\ \/ /\ sealed = {}
        /\ record.sequence = 1
        /\ record.prevHash = GENESIS_HASH
     \/ \E last \in sealed : IsEnd(last) /\ Follows(record, last)
  /\ sealed' = sealed \union {record}

Init == sealed = {}

Next == \E record \in sealed' : Append(record)

Spec == Init /\ [][Next]_sealed
=============================================================================
