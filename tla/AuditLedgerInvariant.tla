------------------------ MODULE AuditLedgerInvariant ------------------------
(***************************************************************************)
(* The inductive invariant of AuditLedger: what each await of a handler    *)
(* may rely on, whatever the other consumers did meanwhile.                *)
(***************************************************************************)
EXTENDS AuditLedger

(***************************************************************************)
(* A draft names, for each path, an event of its requisition that writes   *)
(* it, and every path of every merged event is written.                    *)
(***************************************************************************)
DraftOK(draft, q) ==
  /\ draft.status = "NONE" => draft.eventIds = {}
  /\ \A p \in Path : draft.fields[p] # NoEvent =>
       /\ draft.fields[p] \in draft.eventIds
       /\ p \in Writes(draft.fields[p])
  /\ \A e \in draft.eventIds :
       /\ Req(e) = q
       /\ Payload[e].wellFormed
       /\ \A p \in Writes(e) : draft.fields[p] # NoEvent

DraftsOK == \A q \in Requisition : DraftOK(drafts[q], q)

Sealing == {"findLast", "insert", "findSealed"}

CopyOK(w) ==
  pc[w] \in Sealing =>
    DraftOK(copy[w], Req(msg[w])) /\ NoSignalMissing(copy[w].fields)

CopiesOK == \A w \in Worker : CopyOK(w)

(***************************************************************************)
(* What the handler has already done for its message, by program counter.  *)
(***************************************************************************)
Merged == {"append", "findDraft", "findLast", "insert", "findSealed",
           "markSealed"}
Logged == {"findDraft", "findLast", "insert", "findSealed", "markSealed",
           "quarantineLate"}

Progress(w) ==
  /\ pc[w] = "idle" => msg[w] = NoEvent
  /\ pc[w] = "quarantineMalformed" => ~ Payload[msg[w]].wellFormed
  /\ pc[w] \notin {"idle", "quarantineMalformed", "ack"}
       => Payload[msg[w]].wellFormed
  /\ pc[w] \in Merged => msg[w] \in DraftOf(w).eventIds
  /\ pc[w] \in Logged => msg[w] \in log
  /\ pc[w] \in {"appendLate", "quarantineLate"} => DraftOf(w).status = "SEALED"
  /\ pc[w] = "markSealed" => HasRecord(Req(msg[w]))
  /\ pc[w] = "ack" => AccountedFor(msg[w])

ProgressOK == \A w \in Worker : Progress(w)

(***************************************************************************)
(* Why apply's second pass cannot fail: drafts are never deleted.          *)
(***************************************************************************)
ApplyPass(w) ==
  /\ pc[w] = "idle" => attempt[w] = 1
  /\ pc[w] = "apply" /\ attempt[w] # 1 => DraftOf(w).status # "NONE"
  /\ pc[w] = "upsert" /\ attempt[w] # 1 => DraftOf(w).status = "SEALED"
  /\ pc[w] = "reread" => DraftOf(w).status # "NONE"
  /\ pc[w] = "reread" /\ attempt[w] # 1 => DraftOf(w).status = "SEALED"

ApplyOK == \A w \in Worker : ApplyPass(w)

(***************************************************************************)
(* A well-formed message is dead-lettered only as late.                    *)
(***************************************************************************)
LateHasRecord ==
  \A e \in deadLetters : Payload[e].wellFormed => HasRecord(Req(e))

(***************************************************************************)
(* No sequence below a record's is missing, so a record whose sequence is  *)
(* free and one above another's goes at the end.                           *)
(***************************************************************************)
Gapless ==
  \A r \in sealed : \A k \in 1 .. r.sequence :
    \E s \in sealed : s.sequence = k

IInv ==
  /\ TypeOK
  /\ DraftsOK
  /\ CopiesOK
  /\ ProgressOK
  /\ ApplyOK
  /\ LateHasRecord
  /\ SealedDraftHasRecord
  /\ Gapless
  /\ ChainIntact
  /\ RecordsAreJustified
  /\ AckedIsAccountedFor
  /\ NoStrandedDraft
=============================================================================
