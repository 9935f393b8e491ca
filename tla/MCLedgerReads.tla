---------------------------- MODULE MCLedgerReads ----------------------------
(***************************************************************************)
(* LedgerReads over the message sets of MCAuditLedger.                     *)
(***************************************************************************)
EXTENDS MCAuditLedger, LedgerReads

(***************************************************************************)
(* Lists of up to three entries, the newest first.                         *)
(***************************************************************************)
MCLists ==
  {list \in UNION {[1..n -> [updatedAt : 1..4]] : n \in 0..3} :
     \A i, j \in DOMAIN list : i < j => list[i].updatedAt > list[j].updatedAt}

(***************************************************************************)
(* A page of listTransfers is the page of everything there is.             *)
(***************************************************************************)
ASSUME PagesAgree ==
  \A open, records \in MCLists : \A limit \in 1..3, offset \in 0..3 :
    Page(open, records, limit, offset)
      = Slice(First(open, 3) \union First(records, 3), offset, limit)
=============================================================================
