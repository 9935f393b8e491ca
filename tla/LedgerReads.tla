----------------------------- MODULE LedgerReads -----------------------------
(***************************************************************************)
(* The read side of the audit ledger, running beside the consumers:        *)
(* listTransfers, which merges two queries, and verifyLedger, which walks  *)
(* a MongoDB cursor over the chain.  Neither reads a snapshot: records are *)
(* inserted between one await and the next.                                *)
(*                                                                         *)
(* One call of each is followed, made at any time.                         *)
(***************************************************************************)
EXTENDS AuditLedger

VARIABLES
  listing,       \* one listTransfers call without a status filter
  verification   \* one verifyLedger call

reads == <<listing, verification>>

-----------------------------------------------------------------------------
(***************************************************************************)
(* listTransfers, with a limit that spans the collection (Page is the cut  *)
(* of a smaller one).                                                      *)
(***************************************************************************)

NoListing == [stage   |-> "idle",
              known   |-> {},   \* history: the transfers there were at the call
              entries |-> {}]

OpenEntries == {<<q, "OPEN">> : q \in {q \in Requisition : drafts[q].status = "OPEN"}}
SealedEntries == {<<r.requisitionNumber, "SEALED">> : r \in sealed}

Known == {q \in Requisition : drafts[q].status # "NONE"}

ListDrafts ==
  /\ listing.stage = "idle"
  /\ listing' = [stage |-> "sealed", known |-> Known, entries |-> OpenEntries]
  /\ UNCHANGED verification

ListSealed ==
  /\ listing.stage = "sealed"
  /\ listing' = [listing EXCEPT !.stage = "answered",
                                !.entries = @ \union SealedEntries]
  /\ UNCHANGED verification

(***************************************************************************)
(* With a limit and an offset, each query is cut at their sum, and the     *)
(* page is cut from what the two have left, newest first.  The entries of  *)
(* one list differ in their time; an open draft and a record of the same   *)
(* time share a place (the code's stable sort puts the draft first).       *)
(***************************************************************************)
First(list, n) == {list[i] : i \in {i \in DOMAIN list : i <= n}}

Newer(entry, entries) == {e \in entries : e.updatedAt > entry.updatedAt}

Slice(entries, offset, limit) ==
  {entry \in entries : LET place == Cardinality(Newer(entry, entries))
                       IN  offset <= place /\ place < offset + limit}

Page(open, records, limit, offset) ==
  Slice(First(open, limit + offset) \union First(records, limit + offset), offset, limit)

-----------------------------------------------------------------------------
(***************************************************************************)
(* verifyLedger.  The cursor fetches records in sequence order, a batch at *)
(* a time, and ends when the server had no more at the last fetch.         *)
(***************************************************************************)

NoVerification ==
  [stage            |-> "idle",
   atStart          |-> 0,      \* history: records when the call was made
   batch            |-> {},
   exhausted        |-> FALSE,
   checked          |-> 0,
   expectedSequence |-> 1,
   expectedPrev     |-> GENESIS_HASH,
   failures         |-> {}]

StartVerify ==
  /\ verification.stage = "idle"
  /\ verification' = [NoVerification EXCEPT !.stage = "running",
                                            !.atStart = Cardinality(sealed)]
  /\ UNCHANGED listing

Unread == {r \in sealed : r.sequence >= verification.expectedSequence}

FetchBatch ==
  /\ verification.stage = "running"
  /\ verification.batch = {}
  /\ ~ verification.exhausted
  /\ \E last \in {r.sequence : r \in Unread} \union {0} :
       LET batch == {r \in Unread : r.sequence <= last}
       IN  /\ batch = {} => Unread = {}
           /\ verification' = [verification EXCEPT !.batch = batch,
                                                   !.exhausted = (batch = Unread)]
  /\ UNCHANGED listing

VerifyRecord ==
  /\ verification.stage = "running"
  /\ \E r \in verification.batch :
       /\ \A s \in verification.batch : r.sequence <= s.sequence
       /\ verification' =
            [verification EXCEPT
               !.batch = @ \ {r},
               !.checked = @ + 1,
               !.expectedSequence = r.sequence + 1,
               !.expectedPrev = RecordHash(r),
               !.failures = @ \union
                 {f \in {"SEQUENCE_GAP", "CHAIN_BROKEN"} :
                    CASE f = "SEQUENCE_GAP" -> r.sequence # verification.expectedSequence
                      [] f = "CHAIN_BROKEN" -> r.prevHash # verification.expectedPrev}]
  /\ UNCHANGED listing

EndVerify ==
  /\ verification.stage = "running"
  /\ verification.batch = {}
  /\ verification.exhausted
  /\ verification' = [verification EXCEPT !.stage = "answered"]
  /\ UNCHANGED listing

-----------------------------------------------------------------------------

ReadInit == Init /\ listing = NoListing /\ verification = NoVerification

Read ==
  \/ ListDrafts \/ ListSealed
  \/ StartVerify \/ FetchBatch \/ VerifyRecord \/ EndVerify

ReadNext ==
  \/ Next /\ UNCHANGED reads
  \/ Read /\ UNCHANGED vars

ReadSpec == ReadInit /\ [][ReadNext]_<<vars, reads>>

-----------------------------------------------------------------------------
(***************************************************************************)
(* listTransfers misses no transfer that has a draft when it is called: a  *)
(* draft sealed between the two queries was still open in the first or has *)
(* its record in the second.                                               *)
(***************************************************************************)
ListMissesNothing ==
  listing.stage = "answered" =>
    \A q \in listing.known :
      \E status \in {"OPEN", "SEALED"} : <<q, status>> \in listing.entries

(***************************************************************************)
(* verifyLedger never reports a failure of a chain that only the consumers *)
(* wrote, whatever was inserted while its cursor was open, and checks at   *)
(* least every record there was when it was called.                        *)
(***************************************************************************)
VerifyIsRight ==
  /\ verification.failures = {}
  /\ verification.stage = "answered"
       => verification.checked >= verification.atStart
=============================================================================
