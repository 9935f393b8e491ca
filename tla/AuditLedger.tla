----------------------------- MODULE AuditLedger -----------------------------
(***************************************************************************)
(* The audit ledger (services/core/audit-ledger/server).                   *)
(*                                                                         *)
(* Five durable JetStream consumers per pod feed LedgerService: each takes *)
(* one message at a time, merges it into the MongoDB draft of its          *)
(* requisition, logs it, and seals the draft into a hash-chained,          *)
(* insert-only record once every required signal is there.  Every awaited  *)
(* MongoDB call is one atomic step, so the consumers interleave exactly    *)
(* where the code awaits.                                                  *)
(*                                                                         *)
(* A draft path holds the EVENT that last $set it, not the data: what the  *)
(* data says is a function of the event (Payload).                         *)
(***************************************************************************)
EXTENDS Naturals, FiniteSets

CONSTANTS
  Event,                \* the messages in the two streams, by CloudEvent id
  Requisition,          \* requisition numbers, the key of drafts and records
  Document,             \* documentIds of receipts
  Asset,
  Payload,              \* what each message carries: [Event -> record]
  NoEvent,              \* a draft path nothing has written
  NoDocument,           \* documentId absent (a C2 transfer's completed event)
  Pod,                  \* running audit-server processes
  MaxSequenceAttempts,  \* MAX_SEQUENCE_ATTEMPTS (5 in the code)
  MaxFaults,            \* bound: database errors, lost acks and crashes
  MaxDuplicates         \* bound: deliveries of a message already handled or in hand

(***************************************************************************)
(* Mutant: apply makes a single pass.                                      *)
(***************************************************************************)
OnePass == 1

MaxApplyAttempts == 2

Subject == {"created", "updated", "completed", "initiated", "received"}
TransferType == {"PHYSICAL_TRANSFER", "C2_TRANSFER"}

(***************************************************************************)
(* One sequential for-await loop per pod and subject.                      *)
(***************************************************************************)
Worker == Pod \X Subject

Req(e) == Payload[e].requisitionNumber

(***************************************************************************)
(* The paths of a draft document that handlers $set.  Header stands for    *)
(* transferType, date, sender, receiver and assets, which are always       *)
(* written together.                                                       *)
(***************************************************************************)
Header == <<"header", NoDocument>>
Authorization == <<"authorization", NoDocument>>
Completion == <<"completion", NoDocument>>
Receipt(d) == <<"receiptDocuments", d>>
Received(d) == <<"receivedAssets", d>>

Path == {Header, Authorization, Completion}
          \union {Receipt(d) : d \in Document}
          \union {Received(d) : d \in Document}

(***************************************************************************)
(* The paths handleTransferCreated ... handleTransferReceived write.       *)
(***************************************************************************)
Writes(e) ==
  LET d == Payload[e].document
  IN  CASE Payload[e].subject = "created"   -> {Header}
        [] Payload[e].subject = "updated"   -> {Received(d)}
        [] Payload[e].subject = "completed" ->
             {Header, Completion} \union
             (IF d = NoDocument THEN {} ELSE {Received(d)})
        [] Payload[e].subject = "initiated" -> {Authorization}
        [] Payload[e].subject = "received"  -> {Receipt(d)}

ASSUME PayloadType ==
  /\ NoEvent \notin Event
  /\ NoDocument \notin Document
  /\ \A e \in Event :
       /\ Payload[e].subject \in Subject
       /\ Payload[e].requisitionNumber \in Requisition
       /\ Payload[e].transferType \in TransferType
       /\ Payload[e].assets \subseteq Asset
       /\ Payload[e].document \in Document \union {NoDocument}
       /\ Payload[e].subject \in {"updated", "received"}
            => Payload[e].document \in Document
       /\ Payload[e].position \in Nat          \* the stream sequence number
       /\ Payload[e].wellFormed \in BOOLEAN    \* passes the entry-point schema

(***************************************************************************)
(* Two events that write the same signal path of one requisition agree on  *)
(* the facts the seal gate reads: topology's snapshots list the same       *)
(* assets (their status and owner differ), and a receipt document covers   *)
(* the same assets each time it is published.                              *)
(***************************************************************************)
ASSUME PayloadAgreement ==
  \A e, f \in Event :
    Req(e) = Req(f) =>
      \A p \in Writes(e) \intersect Writes(f) :
        p \in {Header} \union {Receipt(d) : d \in Document} =>
          /\ Payload[e].assets = Payload[f].assets
          /\ Payload[e].transferType = Payload[f].transferType

ASSUME BoundsType ==
  /\ MaxSequenceAttempts \in Nat \ {0}
  /\ MaxFaults \in Nat
  /\ MaxDuplicates \in Nat

VARIABLES
  drafts,       \* MongoDB collection drafts, by requisition
  log,          \* collection events: the ids in the insert-only log
  sealed,       \* collection sealed_transfers: a set of records
  deadLetters,  \* collection dead_letters: the ids quarantined at least once
  delivered,    \* messages JetStream has delivered at least once
  acked,        \* messages whose ack reached JetStream
  pc,           \* where each worker's handler is: the next awaited call
  msg,          \* the message each worker is handling
  copy,         \* trySeal's local draft
  head,         \* trySeal's local chain head: sequence and hash of findLast
  attempt,      \* the loop counter of apply, then of trySeal
  faults, duplicates  \* counters behind MaxFaults and MaxDuplicates

mongo == <<drafts, log, sealed, deadLetters>>
jetstream == <<delivered, acked>>
local == <<copy, head, attempt>>
bounds == <<faults, duplicates>>
vars == <<mongo, jetstream, pc, msg, local, bounds>>

-----------------------------------------------------------------------------
(***************************************************************************)
(* Drafts, the seal gate and sealed records.                               *)
(***************************************************************************)

EmptyDraft == [status   |-> "NONE",
               fields   |-> [p \in Path |-> NoEvent],
               eventIds |-> {}]

(***************************************************************************)
(* Mutant: $set of the event ids in place of $addToSet.                    *)
(***************************************************************************)
SetsEventIds(draft, e) ==
  [status   |-> "OPEN",
   fields   |-> [p \in Path |-> IF p \in Writes(e) THEN e ELSE draft.fields[p]],
   eventIds |-> {e}]

(***************************************************************************)
(* updateOne: $set the event's paths, $addToSet its id, $setOnInsert OPEN. *)
(***************************************************************************)
Merge(draft, e) ==
  [status   |-> "OPEN",
   fields   |-> [p \in Path |-> IF p \in Writes(e) THEN e ELSE draft.fields[p]],
   eventIds |-> draft.eventIds \union {e}]

Receipted(fields) ==
  UNION {Payload[fields[Receipt(d)]].assets :
           d \in {d \in Document : fields[Receipt(d)] # NoEvent}}

(***************************************************************************)
(* Mutant: any receipt will do.                                            *)
(***************************************************************************)
AnyReceiptCovers(fields) ==
  Payload[fields[Header]].transferType = "PHYSICAL_TRANSFER" =>
    Receipted(fields) # {}

ReceiptsCover(fields) ==
  LET header == Payload[fields[Header]]
  IN  header.transferType = "PHYSICAL_TRANSFER" =>
        /\ header.assets \subseteq Receipted(fields)
        /\ Receipted(fields) # {}

(***************************************************************************)
(* getMissingSignals returns the empty list.                               *)
(***************************************************************************)
NoSignalMissing(fields) ==
  /\ fields[Completion] # NoEvent
  /\ fields[Authorization] # NoEvent
  /\ ReceiptsCover(fields)

(***************************************************************************)
(* draftToSealedTransfer: receipts come from receiptDocuments, each joined *)
(* with receivedAssets[documentId] ?? []; snapshots with no receipt        *)
(* document are left out.                                                  *)
(***************************************************************************)
RecordFields(fields) ==
  [p \in Path |->
     IF \E d \in Document : p = Received(d) /\ fields[Receipt(d)] = NoEvent
       THEN NoEvent
       ELSE fields[p]]

(***************************************************************************)
(* SHA-256 over the canonical JSON is taken to be injective and never the  *)
(* genesis value.                                                          *)
(***************************************************************************)
GENESIS_HASH == <<"genesis">>
RecordHash(record) == <<"sha256", record>>

(***************************************************************************)
(* Mutants: the sequence is that of the last record, or skips ahead on a   *)
(* retry.                                                                  *)
(***************************************************************************)
ReusesSequence(w) ==
  [sequence          |-> head[w].sequence,
   requisitionNumber |-> Req(msg[w]),
   fields            |-> RecordFields(copy[w].fields),
   eventIds          |-> copy[w].eventIds,
   prevHash          |-> head[w].recordHash]

SkipsOnRetry(w) ==
  [ReusesSequence(w) EXCEPT !.sequence = @ + attempt[w]]

NextRecord(w) ==
  [sequence          |-> head[w].sequence + 1,
   requisitionNumber |-> Req(msg[w]),
   fields            |-> RecordFields(copy[w].fields),
   eventIds          |-> copy[w].eventIds,
   prevHash          |-> head[w].recordHash]

(***************************************************************************)
(* last?.sequence ?? 0 and last?.recordHash ?? GENESIS_HASH.               *)
(***************************************************************************)
NoHead == [sequence |-> 0, recordHash |-> GENESIS_HASH]
HeadOf(record) == [sequence   |-> record.sequence,
                   recordHash |-> RecordHash(record)]

HasRecord(q) == \E r \in sealed : r.requisitionNumber = q

(***************************************************************************)
(* Mutant: no unique index on sequence.                                    *)
(***************************************************************************)
DuplicateRequisition(record) == HasRecord(record.requisitionNumber)

(***************************************************************************)
(* The unique indexes on sealed_transfers.                                 *)
(***************************************************************************)
DuplicateKey(record) ==
  \E r \in sealed : \/ r.sequence = record.sequence
                    \/ r.requisitionNumber = record.requisitionNumber

Init ==
  /\ drafts = [q \in Requisition |-> EmptyDraft]
  /\ log = {}
  /\ sealed = {}
  /\ deadLetters = {}
  /\ delivered = {}
  /\ acked = {}
  /\ pc = [w \in Worker |-> "idle"]
  /\ msg = [w \in Worker |-> NoEvent]
  /\ copy = [w \in Worker |-> EmptyDraft]
  /\ head = [w \in Worker |-> NoHead]
  /\ attempt = [w \in Worker |-> 1]
  /\ faults = 0
  /\ duplicates = 0

-----------------------------------------------------------------------------
(***************************************************************************)
(* EventBroker.subscribe: JetStream delivers, the loop hands the message   *)
(* to the handler, the handler acks, a throw naks.                         *)
(***************************************************************************)

Goto(w, label) == pc' = [pc EXCEPT ![w] = label]

Idle(w) ==
  /\ Goto(w, "idle")
  /\ msg' = [msg EXCEPT ![w] = NoEvent]
  /\ copy' = [copy EXCEPT ![w] = EmptyDraft]
  /\ head' = [head EXCEPT ![w] = NoHead]
  /\ attempt' = [attempt EXCEPT ![w] = 1]

(***************************************************************************)
(* The listen callback: a payload that fails its schema is quarantined,    *)
(* any other is handed to its handler, which starts with drafts.apply.     *)
(***************************************************************************)
StartHandler(w, e) ==
  /\ pc[w] = "idle"
  /\ w[2] = Payload[e].subject
  /\ Goto(w, IF Payload[e].wellFormed THEN "apply" ELSE "quarantineMalformed")
  /\ msg' = [msg EXCEPT ![w] = e]
  /\ delivered' = delivered \union {e}
  /\ UNCHANGED <<mongo, acked, local>>

(***************************************************************************)
(* First delivery is in stream order; a message nobody is handling and     *)
(* nobody acked comes back, without any cap.                               *)
(***************************************************************************)
Deliver(w, e) ==
  /\ e \notin acked
  /\ \A v \in Worker : msg[v] # e
  /\ \A f \in Event :
       (/\ Payload[f].subject = Payload[e].subject
        /\ Payload[f].position < Payload[e].position) => f \in delivered
  /\ StartHandler(w, e)
  /\ UNCHANGED bounds

(***************************************************************************)
(* The ack wait ran out while a handler had the message: the copy that     *)
(* JetStream sent again is taken from the client's buffer, perhaps after   *)
(* the first delivery was acked, perhaps by another pod.                   *)
(***************************************************************************)
Redeliver(w, e) ==
  /\ e \in delivered
  /\ e \in acked \/ \E v \in Worker : msg[v] = e
  /\ duplicates < MaxDuplicates
  /\ StartHandler(w, e)
  /\ duplicates' = duplicates + 1
  /\ UNCHANGED faults

Ack(w) ==
  /\ pc[w] = "ack"
  /\ acked' = acked \union {msg[w]}
  /\ Idle(w)
  /\ UNCHANGED <<mongo, delivered, bounds>>

(***************************************************************************)
(* ack() is fire and forget: one that is lost changes nothing at JetStream.*)
(***************************************************************************)
LoseAck(w) ==
  /\ pc[w] = "ack"
  /\ faults < MaxFaults
  /\ faults' = faults + 1
  /\ Idle(w)
  /\ UNCHANGED <<mongo, jetstream, duplicates>>

(***************************************************************************)
(* A MongoDB call throws: the loop naks and moves on.  A call that took    *)
(* effect but reported an error is the call followed by this step.         *)
(***************************************************************************)
DatabaseFails(w) ==
  /\ pc[w] \notin {"idle", "ack"}
  /\ faults < MaxFaults
  /\ faults' = faults + 1
  /\ Idle(w)
  /\ UNCHANGED <<mongo, jetstream, duplicates>>

(***************************************************************************)
(* A pod dies with every handler it had in flight.                         *)
(***************************************************************************)
Crash(p) ==
  LET reset(f, value) == [w \in Worker |-> IF w[1] = p THEN value ELSE f[w]]
  IN  /\ \E w \in Worker : w[1] = p /\ pc[w] # "idle"
      /\ faults < MaxFaults
      /\ faults' = faults + 1
      /\ pc' = reset(pc, "idle")
      /\ msg' = reset(msg, NoEvent)
      /\ copy' = reset(copy, EmptyDraft)
      /\ head' = reset(head, NoHead)
      /\ attempt' = reset(attempt, 1)
      /\ UNCHANGED <<mongo, jetstream, duplicates>>

-----------------------------------------------------------------------------
(***************************************************************************)
(* Mutant: a malformed message throws.                                     *)
(***************************************************************************)
MalformedThrows(w) ==
  /\ pc[w] = "quarantineMalformed"
  /\ Idle(w)
  /\ UNCHANGED <<mongo, jetstream, bounds>>

(***************************************************************************)
(* LedgerService.quarantine, from listen and from accumulate.              *)
(***************************************************************************)
Quarantine(w) ==
  /\ pc[w] \in {"quarantineMalformed", "quarantineLate"}
  /\ deadLetters' = deadLetters \union {msg[w]}
  /\ Goto(w, "ack")
  /\ UNCHANGED <<drafts, log, sealed, jetstream, msg, local, bounds>>

(***************************************************************************)
(* DraftsRepository.apply.  updateOne with upsert matches the draft unless *)
(* it is SEALED; without a match it inserts, and the unique index on       *)
(* requisitionNumber rejects the insert if a draft is there by then.       *)
(***************************************************************************)
DraftOf(w) == drafts[Req(msg[w])]

WriteDraft(w) ==
  /\ drafts' = [drafts EXCEPT ![Req(msg[w])] = Merge(@, msg[w])]
  /\ Goto(w, "append")
  /\ attempt' = [attempt EXCEPT ![w] = 1]
  /\ UNCHANGED <<log, sealed, deadLetters, jetstream, msg, copy, head, bounds>>

(***************************************************************************)
(* Mutant: the filter does not leave SEALED drafts out.                    *)
(***************************************************************************)
MatchesSealed(w) ==
  /\ pc[w] = "apply"
  /\ DraftOf(w).status # "NONE"
  /\ WriteDraft(w)

ApplyMatched(w) ==
  /\ pc[w] = "apply"
  /\ DraftOf(w).status = "OPEN"
  /\ WriteDraft(w)

ApplyUnmatched(w) ==
  /\ pc[w] = "apply"
  /\ DraftOf(w).status # "OPEN"
  /\ Goto(w, "upsert")
  /\ UNCHANGED <<mongo, jetstream, msg, local, bounds>>

UpsertInserts(w) ==
  /\ pc[w] = "upsert"
  /\ DraftOf(w).status = "NONE"
  /\ WriteDraft(w)

UpsertDuplicateKey(w) ==
  /\ pc[w] = "upsert"
  /\ DraftOf(w).status # "NONE"
  /\ Goto(w, "reread")
  /\ UNCHANGED <<mongo, jetstream, msg, local, bounds>>

(***************************************************************************)
(* Mutant: a late event is acked without being logged or quarantined.      *)
(***************************************************************************)
DropsLate(w) ==
  /\ pc[w] = "reread"
  /\ DraftOf(w).status = "SEALED"
  /\ Goto(w, "ack")
  /\ UNCHANGED <<mongo, jetstream, msg, local, bounds>>

RereadSealed(w) ==
  /\ pc[w] = "reread"
  /\ DraftOf(w).status = "SEALED"
  /\ Goto(w, "appendLate")
  /\ attempt' = [attempt EXCEPT ![w] = 1]
  /\ UNCHANGED <<mongo, jetstream, msg, copy, head, bounds>>

RereadOpen(w) ==
  /\ pc[w] = "reread"
  /\ DraftOf(w).status # "SEALED"
  /\ attempt[w] < MaxApplyAttempts
  /\ Goto(w, "apply")
  /\ attempt' = [attempt EXCEPT ![w] = @ + 1]
  /\ UNCHANGED <<mongo, jetstream, msg, copy, head, bounds>>

(***************************************************************************)
(* Mutant: only the completed handler tries to seal.                       *)
(***************************************************************************)
OnlyCompletedSeals(w) ==
  /\ pc[w] \in {"append", "appendLate"}
  /\ log' = log \union {msg[w]}
  /\ Goto(w, CASE pc[w] = "appendLate"   -> "quarantineLate"
               [] w[2] = "completed"     -> "findDraft"
               [] OTHER                  -> "ack")
  /\ UNCHANGED <<drafts, sealed, deadLetters, jetstream, msg, local, bounds>>

(***************************************************************************)
(* EventsRepository.append: the unique eventId absorbs a second insert.    *)
(***************************************************************************)
AppendEvent(w) ==
  /\ pc[w] \in {"append", "appendLate"}
  /\ log' = log \union {msg[w]}
  /\ Goto(w, IF pc[w] = "append" THEN "findDraft" ELSE "quarantineLate")
  /\ UNCHANGED <<drafts, sealed, deadLetters, jetstream, msg, local, bounds>>

-----------------------------------------------------------------------------
(***************************************************************************)
(* LedgerService.trySeal.                                                  *)
(***************************************************************************)

Sealable(draft) == draft.status = "OPEN" /\ NoSignalMissing(draft.fields)

(***************************************************************************)
(* Mutant: the draft is marked SEALED before the record is inserted.       *)
(***************************************************************************)
MarksFirst(w) ==
  /\ pc[w] = "findDraft"
  /\ Goto(w, IF Sealable(DraftOf(w)) THEN "markSealed" ELSE "ack")
  /\ UNCHANGED <<mongo, jetstream, msg, local, bounds>>

FindDraft(w) ==
  /\ pc[w] = "findDraft"
  /\ IF Sealable(DraftOf(w))
       THEN /\ Goto(w, "findLast")
            /\ copy' = [copy EXCEPT ![w] = DraftOf(w)]
       ELSE /\ Goto(w, "ack")
            /\ UNCHANGED copy
  /\ UNCHANGED <<mongo, jetstream, msg, head, attempt, bounds>>

ChainHeads == {NoHead} \union {HeadOf(r) : r \in sealed}

IsLast(h) ==
  /\ h = NoHead <=> sealed = {}
  /\ \A r \in sealed : r.sequence <= h.sequence

FindLast(w) ==
  /\ pc[w] = "findLast"
  /\ \E h \in ChainHeads :
       /\ IsLast(h)
       /\ head' = [head EXCEPT ![w] = h]
  /\ Goto(w, "insert")
  /\ UNCHANGED <<mongo, jetstream, msg, copy, attempt, bounds>>

InsertRecord(w) ==
  /\ pc[w] = "insert"
  /\ ~ DuplicateKey(NextRecord(w))
  /\ sealed' = sealed \union {NextRecord(w)}
  /\ Goto(w, "markSealed")
  /\ UNCHANGED <<drafts, log, deadLetters, jetstream, msg, local, bounds>>

(***************************************************************************)
(* Mutant: any duplicate key is taken to mean that the requisition is      *)
(* sealed.                                                                 *)
(***************************************************************************)
AssumesSealed(w) ==
  /\ pc[w] = "insert"
  /\ DuplicateKey(NextRecord(w))
  /\ Goto(w, "ack")
  /\ UNCHANGED <<mongo, jetstream, msg, local, bounds>>

InsertDuplicateKey(w) ==
  /\ pc[w] = "insert"
  /\ DuplicateKey(NextRecord(w))
  /\ Goto(w, "findSealed")
  /\ UNCHANGED <<mongo, jetstream, msg, local, bounds>>

AlreadySealed(w) ==
  /\ pc[w] = "findSealed"
  /\ HasRecord(Req(msg[w]))
  /\ Goto(w, "markSealed")
  /\ UNCHANGED <<mongo, jetstream, msg, local, bounds>>

NextAttempt(w) ==
  /\ pc[w] = "findSealed"
  /\ ~ HasRecord(Req(msg[w]))
  /\ attempt[w] < MaxSequenceAttempts
  /\ Goto(w, "findLast")
  /\ attempt' = [attempt EXCEPT ![w] = @ + 1]
  /\ UNCHANGED <<mongo, jetstream, msg, copy, head, bounds>>

MarkSealed(w) ==
  /\ pc[w] = "markSealed"
  /\ drafts' = [drafts EXCEPT ![Req(msg[w])].status = "SEALED"]
  /\ Goto(w, "ack")
  /\ UNCHANGED <<log, sealed, deadLetters, jetstream, msg, local, bounds>>

(***************************************************************************)
(* Both retry loops end in a throw, which the broker turns into a nak.     *)
(***************************************************************************)
GivesUp(w) ==
  \/ /\ pc[w] = "reread"
     /\ DraftOf(w).status # "SEALED"
     /\ attempt[w] = MaxApplyAttempts
  \/ /\ pc[w] = "findSealed"
     /\ ~ HasRecord(Req(msg[w]))
     /\ attempt[w] = MaxSequenceAttempts

HandlerThrows(w) ==
  /\ GivesUp(w)
  /\ Idle(w)
  /\ UNCHANGED <<mongo, jetstream, bounds>>

-----------------------------------------------------------------------------

Handle(w) ==
  \/ Quarantine(w)
  \/ ApplyMatched(w) \/ ApplyUnmatched(w)
  \/ UpsertInserts(w) \/ UpsertDuplicateKey(w)
  \/ RereadSealed(w) \/ RereadOpen(w)
  \/ AppendEvent(w)
  \/ FindDraft(w) \/ FindLast(w)
  \/ InsertRecord(w) \/ InsertDuplicateKey(w)
  \/ AlreadySealed(w) \/ NextAttempt(w)
  \/ MarkSealed(w)
  \/ HandlerThrows(w)
  \/ Ack(w)

Take(w) == \E e \in Event : Deliver(w, e)

(***************************************************************************)
(* Every message is acked and every loop waits for the next one.           *)
(***************************************************************************)
Drained == acked = Event /\ \A w \in Worker : pc[w] = "idle"

Next ==
  \/ \E w \in Worker : Take(w) \/ Handle(w)
  \/ \E w \in Worker, e \in Event : Redeliver(w, e)
  \/ \E w \in Worker : LoseAck(w) \/ DatabaseFails(w)
  \/ \E p \in Pod : Crash(p)
  \/ Drained /\ UNCHANGED vars

(***************************************************************************)
(* The event loop runs every handler on, and JetStream keeps delivering.   *)
(***************************************************************************)
Fairness == \A w \in Worker : WF_vars(Take(w)) /\ WF_vars(Handle(w))

Spec == Init /\ [][Next]_vars
FairSpec == Spec /\ Fairness

-----------------------------------------------------------------------------
(***************************************************************************)
(* Type invariant.                                                         *)
(***************************************************************************)
Fields == [Path -> Event \union {NoEvent}]

Draft == [status : {"NONE", "OPEN", "SEALED"},
          fields : Fields,
          eventIds : SUBSET Event]

Label == {"idle", "quarantineMalformed", "quarantineLate", "apply", "upsert",
          "reread", "append", "appendLate", "findDraft", "findLast", "insert",
          "findSealed", "markSealed", "ack"}

TypeOK ==
  /\ drafts \in [Requisition -> Draft]
  /\ log \subseteq Event
  /\ \A r \in sealed : /\ r.sequence \in Nat \ {0}
                       /\ r.requisitionNumber \in Requisition
                       /\ r.fields \in Fields
                       /\ r.eventIds \subseteq Event
  /\ deadLetters \subseteq Event
  /\ delivered \subseteq Event
  /\ acked \subseteq delivered
  /\ pc \in [Worker -> Label]
  /\ msg \in [Worker -> Event \union {NoEvent}]
  /\ \A w \in Worker : pc[w] # "idle" => msg[w] \in delivered
  /\ copy \in [Worker -> Draft]
  /\ head \in [Worker -> ChainHeads]  \* perhaps no longer the end of the chain
  /\ attempt \in [Worker -> Nat \ {0}]
  /\ faults \in Nat
  /\ duplicates \in Nat

(***************************************************************************)
(* The chain the verification endpoints check: the first record hangs off  *)
(* the genesis hash, every other off the record one sequence below it, and *)
(* no two records share a sequence or a requisition - whatever the five    *)
(* consumers, racing for the same sequence, read before they insert.       *)
(***************************************************************************)
ChainIntact ==
  \A r \in sealed :
    /\ IF r.sequence = 1
         THEN r.prevHash = GENESIS_HASH
         ELSE \E s \in sealed : /\ s.sequence = r.sequence - 1
                                /\ r.prevHash = RecordHash(s)
    /\ \A s \in sealed : \/ r = s
                         \/ /\ r.sequence # s.sequence
                            /\ r.requisitionNumber # s.requisitionNumber

(***************************************************************************)
(* The ledger is an append-only log: however the consumers interleave, a   *)
(* record enters at the end of the chain, off the record that is then the  *)
(* last one, though findLast was read an await earlier.                    *)
(***************************************************************************)
Chain == INSTANCE LedgerChain

AppendOnlyChain == Chain!Spec

(***************************************************************************)
(* A record is built from events of its own requisition, all of which it   *)
(* lists, and was sealed on a completed event, an authorization and, for a *)
(* physical transfer, receipts for every asset - even though it comes from *)
(* a draft read several awaits before the insert.                          *)
(***************************************************************************)
JustifiedBy(record, done) ==
  /\ Payload[done].subject = "completed"
  /\ \E e \in record.eventIds : Payload[e].subject = "initiated"
  /\ Payload[done].transferType = "PHYSICAL_TRANSFER" =>
       \A a \in Payload[done].assets : \E e \in record.eventIds :
         Payload[e].subject = "received" /\ a \in Payload[e].assets

RecordsAreJustified ==
  \A r \in sealed :
    /\ \A e \in r.eventIds : Req(e) = r.requisitionNumber
    /\ \A p \in Path : r.fields[p] # NoEvent => r.fields[p] \in r.eventIds
    /\ \E done \in r.eventIds : JustifiedBy(r, done)

(***************************************************************************)
(* Once a message is acked the broker never sends it again, so by then it  *)
(* must be somewhere: in dead_letters if malformed, otherwise in the event *)
(* log and either merged into the draft or in dead_letters.  Holds across  *)
(* crashes and failures between any two writes.                            *)
(***************************************************************************)
AccountedFor(e) ==
  IF Payload[e].wellFormed
    THEN e \in log /\ (e \in drafts[Req(e)].eventIds \/ e \in deadLetters)
    ELSE e \in deadLetters

AckedIsAccountedFor == \A e \in acked : AccountedFor(e)

(***************************************************************************)
(* Nothing retries a draft on its own: only a message still to be acked    *)
(* seals it.  So a draft with every signal and no record has an unacked    *)
(* message, no handler of which has already decided not to seal.           *)
(***************************************************************************)
NoStrandedDraft ==
  \A q \in Requisition :
    NoSignalMissing(drafts[q].fields) /\ ~ HasRecord(q) =>
      \E e \in drafts[q].eventIds \ acked :
        \A w \in Worker : msg[w] = e => pc[w] # "ack"

(***************************************************************************)
(* A draft is marked SEALED only when its record exists: a SEALED draft    *)
(* without one would turn every later event away for ever.                 *)
(***************************************************************************)
SealedDraftHasRecord ==
  \A q \in Requisition : drafts[q].status = "SEALED" => HasRecord(q)

(***************************************************************************)
(* The throw after apply's second pass is dead code: a second duplicate    *)
(* key always means that the draft is SEALED.                              *)
(***************************************************************************)
ApplyNeverGivesUp ==
  \A w \in Worker :
    pc[w] = "reread" /\ attempt[w] = MaxApplyAttempts
      => DraftOf(w).status = "SEALED"

(***************************************************************************)
(* No step rewrites or removes a record, and none changes a draft once it  *)
(* is SEALED: apply's filter turns every later event away.                 *)
(***************************************************************************)
SealedNeverChanges ==
  [][/\ sealed \subseteq sealed'
     /\ \A q \in Requisition :
          drafts[q].status = "SEALED" => drafts'[q] = drafts[q]]_vars

(***************************************************************************)
(* Under fairness, with finitely many failures, every message is in the    *)
(* end acked, and a draft that holds every signal is in the end sealed.    *)
(***************************************************************************)
EveryMessageSettles == <>[](acked = Event)

CompleteDraftIsSealed ==
  \A q \in Requisition :
    NoSignalMissing(drafts[q].fields) ~> drafts[q].status = "SEALED"

-----------------------------------------------------------------------------
(***************************************************************************)
(* What the documentation says and the code does not keep.                 *)
(***************************************************************************)

(***************************************************************************)
(* ADR-015, "Late events": an event either is part of the sealed record or *)
(* is dead-lettered.                                                       *)
(***************************************************************************)
LateEventsAreDeadLettered ==
  \A r \in sealed : \A e \in acked :
    Req(e) = r.requisitionNumber => e \in r.eventIds \union deadLetters
=============================================================================
