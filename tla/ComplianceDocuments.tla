------------------------- MODULE ComplianceDocuments -------------------------
(***************************************************************************)
(* The compliance_documents table: one row per signed document, keyed by   *)
(* document id.  A row follows its transfer through two updates, by        *)
(* document and by requisition number; each statement is one operator.     *)
(***************************************************************************)
EXTENDS Naturals

CONSTANTS
  Document,  \* document ids
  Content    \* what a document is: [Document -> kind, transfer, assets]

VARIABLES
  status,    \* status column, NONE for a row that is not there
  linked     \* documents whose transfer_event_id is not null

table == <<status, linked>>

DocumentStatus == {"NONE", "SIGNED", "IN_PROGRESS", "PARTIALLY_COMPLETED", "COMPLETED"}

TableTypeOK ==
  /\ status \in [Document -> DocumentStatus]
  /\ linked \subseteq {d \in Document : status[d] # "NONE"}

TableInit ==
  /\ status = [d \in Document |-> "NONE"]
  /\ linked = {}

(***************************************************************************)
(* The CASE of updateForReqNumber.                                         *)
(***************************************************************************)
Rank(s) ==
  CASE s = "SIGNED"              -> 1
    [] s = "IN_PROGRESS"         -> 2
    [] s = "PARTIALLY_COMPLETED" -> 3
    [] s = "COMPLETED"           -> 4
    [] s = "NONE"                -> 0

(***************************************************************************)
(* insert: ON CONFLICT every column is overwritten, status included, but   *)
(* COALESCE keeps a link the new row does not bring.                       *)
(***************************************************************************)
Insert(d) ==
  /\ status' = [status EXCEPT ![d] = "SIGNED"]
  /\ linked' = IF Content[d].kind = "RECEIPT" THEN linked \union {d} ELSE linked

UpdateForDocNumber(d, s) ==
  /\ status' = [status EXCEPT ![d] = IF @ = "NONE" THEN @ ELSE s]
  /\ UNCHANGED linked

RowsOf(q) == {d \in Document : Content[d].transfer = q /\ status[d] # "NONE"}

(***************************************************************************)
(* Mutant: documents nobody has signed are linked as well.                 *)
(***************************************************************************)
LinksUnsigned(q, s) ==
  /\ status' = [d \in Document |->
                  IF d \in RowsOf(q) /\ Rank(s) > Rank(status[d]) THEN s ELSE status[d]]
  /\ linked' = linked \union {d \in Document : Content[d].transfer = q}

(***************************************************************************)
(* Mutant: the last update wins, whatever its rank.                        *)
(***************************************************************************)
LastUpdateWins(q, s) ==
  /\ status' = [d \in Document |-> IF d \in RowsOf(q) THEN s ELSE status[d]]
  /\ linked' = linked \union RowsOf(q)

UpdateForReqNumber(q, s) ==
  /\ status' = [d \in Document |->
                  IF d \in RowsOf(q) /\ Rank(s) > Rank(status[d]) THEN s ELSE status[d]]
  /\ linked' = linked \union RowsOf(q)
=============================================================================
