---------------------------- MODULE MCAuditLedger ----------------------------
(***************************************************************************)
(* Instances of AuditLedger for TLC: the message sets compliance and       *)
(* topology publish for a few transfers.                                   *)
(***************************************************************************)
EXTENDS AuditLedgerInvariant

Message(subject, q, type, assets, document, position) ==
  [subject |-> subject, requisitionNumber |-> q, transferType |-> type,
   assets |-> assets, document |-> document, position |-> position,
   wellFormed |-> TRUE]

C2(subject, q, position) ==
  Message(subject, q, "C2_TRANSFER", {"a1"}, NoDocument, position)

Physical(subject, assets, document, position) ==
  Message(subject, "REQ-1", "PHYSICAL_TRANSFER", assets, document, position)

(***************************************************************************)
(* Two C2 transfers, the second completed first (topology retried the      *)
(* first), so that the initiated and the completed consumer seal at once   *)
(* and compete for a sequence.  A malformed message sits between the two   *)
(* initiations.                                                            *)
(***************************************************************************)
TwoC2Payload ==
  [init1 |-> C2("initiated", "REQ-1", 1),
   bad   |-> [C2("initiated", "REQ-1", 2) EXCEPT !.wellFormed = FALSE],
   init2 |-> C2("initiated", "REQ-2", 3),
   done2 |-> C2("completed", "REQ-2", 1),
   done1 |-> C2("completed", "REQ-1", 2)]

(***************************************************************************)
(* Three C2 transfers, initiated in another order than completed (topology *)
(* retried the first), so that the initiated and the completed consumer    *)
(* seal at once and one of them may lose the race for a sequence twice.    *)
(***************************************************************************)
ThreeC2Payload ==
  [init2 |-> C2("initiated", "REQ-2", 1),
   bad   |-> [C2("initiated", "REQ-1", 2) EXCEPT !.wellFormed = FALSE],
   init3 |-> C2("initiated", "REQ-3", 3),
   init1 |-> C2("initiated", "REQ-1", 4),
   done1 |-> C2("completed", "REQ-1", 1),
   done2 |-> C2("completed", "REQ-2", 2),
   done3 |-> C2("completed", "REQ-3", 3)]

(***************************************************************************)
(* One C2 transfer.                                                        *)
(***************************************************************************)
OneC2Payload ==
  [init1 |-> C2("initiated", "REQ-1", 1),
   done1 |-> C2("completed", "REQ-1", 1)]

(***************************************************************************)
(* A physical transfer of two assets received under two documents: the     *)
(* first receipt makes topology publish updated, the second completed.     *)
(***************************************************************************)
TwoReceiptsPayload ==
  [init1 |-> Physical("initiated", {"a1", "a2"}, NoDocument, 1),
   recv1 |-> Physical("received", {"a1"}, "d1", 2),
   updd1 |-> Physical("updated", {"a1"}, "d1", 2),
   recv2 |-> Physical("received", {"a2"}, "d2", 3),
   done1 |-> Physical("completed", {"a1", "a2"}, "d2", 3)]

TwoC2Event == DOMAIN TwoC2Payload
ThreeC2Event == DOMAIN ThreeC2Payload
OneC2Event == DOMAIN OneC2Payload
TwoReceiptsEvent == DOMAIN TwoReceiptsPayload
=============================================================================
