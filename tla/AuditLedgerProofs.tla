-------------------------- MODULE AuditLedgerProofs --------------------------
(***************************************************************************)
(* Safety of the audit ledger for every set of messages, requisitions,     *)
(* pods and every bound on faults and duplicates.                          *)
(***************************************************************************)
EXTENDS AuditLedgerInvariant, TLAPS

(***************************************************************************)
(* Type correctness.                                                       *)
(***************************************************************************)
LEMMA WritesType ==
  ASSUME NEW e \in Event
  PROVE  /\ Writes(e) \subseteq Path
         /\ Completion \in Writes(e) => Header \in Writes(e)
BY PayloadType DEF Writes, Path, Subject, Header, Completion, Authorization,
                   Receipt, Received

LEMMA WritesSubject ==
  ASSUME NEW e \in Event
  PROVE  /\ Completion \in Writes(e) => Payload[e].subject = "completed"
         /\ Authorization \in Writes(e) => Payload[e].subject = "initiated"
         /\ \A d : Receipt(d) \in Writes(e) => Payload[e].subject = "received"
BY PayloadType DEF Writes, Subject, Header, Completion, Authorization, Receipt,
                   Received

LEMMA MergeType ==
  ASSUME NEW e \in Event, NEW draft \in Draft
  PROVE  Merge(draft, e) \in Draft
BY DEF Merge, Draft, Fields

LEMMA EmptyDraftType == EmptyDraft \in Draft
BY DEF EmptyDraft, Draft, Fields

LEMMA IdleType ==
  ASSUME TypeOK, NEW w \in Worker, Idle(w)
  PROVE  /\ pc' \in [Worker -> Label]
         /\ msg' \in [Worker -> Event \union {NoEvent}]
         /\ \A v \in Worker : pc'[v] # "idle" => msg'[v] \in delivered
         /\ copy' \in [Worker -> Draft]
         /\ head' \in [Worker -> ChainHeads]
         /\ attempt' \in [Worker -> Nat \ {0}]
BY EmptyDraftType DEF TypeOK, Idle, Goto, Label, ChainHeads

LEMMA TypeInit == Init => TypeOK
BY EmptyDraftType, PayloadType DEF Init, TypeOK, Label, ChainHeads

LEMMA TypeStep == TypeOK /\ [Next]_vars => TypeOK'
<1> SUFFICES ASSUME TypeOK, [Next]_vars
             PROVE  TypeOK'
  OBVIOUS
<1> USE DEF mongo, jetstream, local, bounds, Goto, DraftOf
<1>1. ASSUME NEW w \in Worker, NEW e \in Event, Deliver(w, e)
      PROVE  TypeOK'
  BY <1>1 DEF Deliver, StartHandler, TypeOK, Label, ChainHeads
<1>2. ASSUME NEW w \in Worker, NEW e \in Event, Redeliver(w, e)
      PROVE  TypeOK'
  BY <1>2 DEF Redeliver, StartHandler, TypeOK, Label, ChainHeads
<1>3. ASSUME NEW w \in Worker, Ack(w)
      PROVE  TypeOK'
  BY <1>3, IdleType DEF Ack, TypeOK, Label, ChainHeads
<1>4. ASSUME NEW w \in Worker, LoseAck(w) \/ DatabaseFails(w) \/ HandlerThrows(w)
      PROVE  TypeOK'
  BY <1>4, IdleType DEF LoseAck, DatabaseFails, HandlerThrows, TypeOK, ChainHeads
<1>5. ASSUME NEW p \in Pod, Crash(p)
      PROVE  TypeOK'
  BY <1>5, EmptyDraftType DEF Crash, TypeOK, Label, ChainHeads
<1>6. ASSUME NEW w \in Worker, Quarantine(w)
      PROVE  TypeOK'
  BY <1>6 DEF Quarantine, TypeOK, Label, ChainHeads
<1>7. ASSUME NEW w \in Worker, ApplyMatched(w) \/ UpsertInserts(w)
      PROVE  TypeOK'
  BY <1>7, MergeType, PayloadType
     DEF ApplyMatched, UpsertInserts, WriteDraft, TypeOK, Label, ChainHeads, Req
<1>8. ASSUME NEW w \in Worker,
             ApplyUnmatched(w) \/ UpsertDuplicateKey(w) \/ RereadSealed(w) \/ RereadOpen(w)
      PROVE  TypeOK'
  BY <1>8 DEF ApplyUnmatched, UpsertDuplicateKey, RereadSealed, RereadOpen,
              TypeOK, Label, ChainHeads
<1>9. ASSUME NEW w \in Worker, AppendEvent(w)
      PROVE  TypeOK'
  BY <1>9 DEF AppendEvent, TypeOK, Label, ChainHeads
<1>10. ASSUME NEW w \in Worker, FindDraft(w)
       PROVE  TypeOK'
  BY <1>10, PayloadType DEF FindDraft, TypeOK, Label, ChainHeads, Req
<1>11. ASSUME NEW w \in Worker, FindLast(w)
       PROVE  TypeOK'
  BY <1>11 DEF FindLast, TypeOK, Label, ChainHeads
<1>12. ASSUME NEW w \in Worker, InsertRecord(w)
       PROVE  TypeOK'
  <2>1. NextRecord(w).sequence \in Nat \ {0}
    BY <1>12 DEF TypeOK, ChainHeads, NextRecord, NoHead, HeadOf
  <2>2. /\ NextRecord(w).requisitionNumber \in Requisition
        /\ NextRecord(w).fields \in Fields
        /\ NextRecord(w).eventIds \subseteq Event
    BY <1>12, PayloadType
       DEF TypeOK, InsertRecord, NextRecord, RecordFields, Req, Draft, Fields
  <2>3. \A r \in sealed' : /\ r.sequence \in Nat \ {0}
                           /\ r.requisitionNumber \in Requisition
                           /\ r.fields \in Fields
                           /\ r.eventIds \subseteq Event
    BY <1>12, <2>1, <2>2 DEF TypeOK, InsertRecord
  <2>4. ChainHeads \subseteq ChainHeads'
    BY <1>12 DEF InsertRecord, ChainHeads
  <2>5. /\ head' \in [Worker -> ChainHeads']
        /\ pc' \in [Worker -> Label]
        /\ \A v \in Worker : pc'[v] # "idle" => msg'[v] \in delivered
    BY <1>12, <2>4 DEF TypeOK, InsertRecord, Label
  <2>6. QED
    BY <1>12, <2>3, <2>5 DEF TypeOK, InsertRecord
<1>13. ASSUME NEW w \in Worker,
              InsertDuplicateKey(w) \/ AlreadySealed(w) \/ NextAttempt(w)
       PROVE  TypeOK'
  BY <1>13 DEF InsertDuplicateKey, AlreadySealed, NextAttempt, TypeOK, Label, ChainHeads
<1>14. ASSUME NEW w \in Worker, MarkSealed(w)
       PROVE  TypeOK'
  BY <1>14, PayloadType DEF MarkSealed, TypeOK, Label, ChainHeads, Req, Draft
<1>15. CASE UNCHANGED vars
  BY <1>15 DEF vars, TypeOK, ChainHeads
<1>16. QED
  BY <1>1, <1>2, <1>3, <1>4, <1>5, <1>6, <1>7, <1>8, <1>9, <1>10, <1>11, <1>12,
     <1>13, <1>14, <1>15
     DEF Next, Take, Handle

(***************************************************************************)
(* Every variable of the type invariant is as typed in every state the     *)
(* ledger reaches.                                                         *)
(***************************************************************************)
THEOREM TypeCorrect == Spec => []TypeOK
BY TypeInit, TypeStep, PTL DEF Spec

-----------------------------------------------------------------------------
(***************************************************************************)
(* What every step preserves: the collections and the acks only grow, and  *)
(* a draft's status only advances.                                         *)
(***************************************************************************)
Grows ==
  /\ log \subseteq log'
  /\ deadLetters \subseteq deadLetters'
  /\ acked \subseteq acked'
  /\ sealed \subseteq sealed'
  /\ \A q \in Requisition :
       /\ drafts[q].eventIds \subseteq drafts'[q].eventIds
       /\ drafts[q].status = "SEALED" => drafts'[q] = drafts[q]
       /\ drafts[q].status # "NONE" => drafts'[q].status # "NONE"

LEMMA MarkSealedDraft ==
  ASSUME TypeOK, NEW w \in Worker, MarkSealed(w), NEW q \in Requisition
  PROVE  /\ drafts'[q].fields = drafts[q].fields
         /\ drafts'[q].eventIds = drafts[q].eventIds
         /\ drafts'[q].status =
              IF q = Req(msg[w]) THEN "SEALED" ELSE drafts[q].status
         /\ drafts[q].status = "SEALED" => drafts'[q] = drafts[q]
BY PayloadType DEF MarkSealed, TypeOK, Draft, Req

LEMMA WriteDraftDraft ==
  ASSUME TypeOK, NEW w \in Worker, pc[w] # "idle", WriteDraft(w),
         NEW q \in Requisition
  PROVE  /\ msg[w] \in Event
         /\ drafts'[q] = IF q = Req(msg[w]) THEN Merge(drafts[q], msg[w])
                                            ELSE drafts[q]
BY PayloadType DEF WriteDraft, TypeOK, Req

LEMMA StepGrows == TypeOK /\ [Next]_vars => Grows
<1> SUFFICES ASSUME TypeOK, [Next]_vars
             PROVE  Grows
  OBVIOUS
<1> USE DEF mongo, jetstream, local, bounds
<1>1. ASSUME NEW w \in Worker, MarkSealed(w)
      PROVE  Grows
  <2>1. ASSUME NEW q \in Requisition
        PROVE  /\ drafts[q].eventIds \subseteq drafts'[q].eventIds
               /\ drafts[q].status = "SEALED" => drafts'[q] = drafts[q]
               /\ drafts[q].status # "NONE" => drafts'[q].status # "NONE"
    BY <1>1, MarkSealedDraft
  <2>2. QED
    BY <1>1, <2>1 DEF MarkSealed, Grows
<1>2. ASSUME NEW w \in Worker, ApplyMatched(w) \/ UpsertInserts(w)
      PROVE  Grows
  <2>1. /\ WriteDraft(w)
        /\ DraftOf(w).status # "SEALED"
        /\ pc[w] # "idle"
    BY <1>2 DEF ApplyMatched, UpsertInserts
  <2>2. ASSUME NEW q \in Requisition
        PROVE  /\ drafts[q].eventIds \subseteq drafts'[q].eventIds
               /\ drafts[q].status = "SEALED" => drafts'[q] = drafts[q]
               /\ drafts[q].status # "NONE" => drafts'[q].status # "NONE"
    <3>1. CASE q = Req(msg[w])
      <4>1. drafts'[q] = Merge(drafts[q], msg[w])
        BY <2>1, <3>1, WriteDraftDraft
      <4>2. drafts[q].status # "SEALED"
        BY <2>1, <3>1 DEF DraftOf
      <4>3. QED
        BY <4>1, <4>2 DEF Merge
    <3>2. CASE q # Req(msg[w])
      BY <2>1, <3>2, WriteDraftDraft
    <3>3. QED
      BY <3>1, <3>2
  <2>3. QED
    BY <2>1, <2>2 DEF WriteDraft, Grows
<1>3. ASSUME UNCHANGED drafts
      PROVE  \A q \in Requisition :
               /\ drafts[q].eventIds \subseteq drafts'[q].eventIds
               /\ drafts[q].status = "SEALED" => drafts'[q] = drafts[q]
               /\ drafts[q].status # "NONE" => drafts'[q].status # "NONE"
  BY <1>3
<1>4. ASSUME NEW w \in Worker, NEW e \in Event, Deliver(w, e) \/ Redeliver(w, e)
      PROVE  Grows
  BY <1>3, <1>4 DEF Deliver, Redeliver, StartHandler, Grows
<1>5. ASSUME NEW w \in Worker,
             Ack(w) \/ LoseAck(w) \/ DatabaseFails(w) \/ HandlerThrows(w)
      PROVE  Grows
  BY <1>3, <1>5 DEF Ack, LoseAck, DatabaseFails, HandlerThrows, Grows
<1>6. ASSUME NEW p \in Pod, Crash(p)
      PROVE  Grows
  BY <1>3, <1>6 DEF Crash, Grows
<1>7. ASSUME NEW w \in Worker, Quarantine(w) \/ AppendEvent(w)
      PROVE  Grows
  BY <1>3, <1>7 DEF Quarantine, AppendEvent, Grows
<1>8. ASSUME NEW w \in Worker,
             \/ ApplyUnmatched(w) \/ UpsertDuplicateKey(w)
             \/ RereadSealed(w) \/ RereadOpen(w)
      PROVE  Grows
  BY <1>3, <1>8
     DEF ApplyUnmatched, UpsertDuplicateKey, RereadSealed, RereadOpen, Grows
<1>9. ASSUME NEW w \in Worker,
             \/ FindDraft(w) \/ FindLast(w) \/ InsertRecord(w)
             \/ InsertDuplicateKey(w) \/ AlreadySealed(w) \/ NextAttempt(w)
      PROVE  Grows
  BY <1>3, <1>9
     DEF FindDraft, FindLast, InsertRecord, InsertDuplicateKey, AlreadySealed,
         NextAttempt, Grows
<1>10. CASE UNCHANGED vars
  BY <1>3, <1>10 DEF vars, Grows
<1>11. QED
  BY <1>1, <1>2, <1>4, <1>5, <1>6, <1>7, <1>8, <1>9, <1>10
     DEF Next, Take, Handle

(***************************************************************************)
(* A record, once inserted, and a draft, once SEALED, never change again.  *)
(***************************************************************************)
THEOREM HistoryIsImmutable == Spec => SealedNeverChanges
<1>1. TypeOK /\ [Next]_vars =>
        [/\ sealed \subseteq sealed'
         /\ \A q \in Requisition :
              drafts[q].status = "SEALED" => drafts'[q] = drafts[q]]_vars
  BY StepGrows DEF Grows
<1>2. QED
  BY <1>1, TypeCorrect, PTL DEF Spec, SealedNeverChanges

-----------------------------------------------------------------------------
(***************************************************************************)
(* Who writes what.                                                        *)
(***************************************************************************)
LEMMA DraftWriters ==
  [Next]_vars =>
    \/ UNCHANGED drafts
    \/ \E w \in Worker : MarkSealed(w)
    \/ \E w \in Worker : ApplyMatched(w) \/ UpsertInserts(w)
BY DEF Next, vars, mongo, Take, Handle, Deliver, Redeliver, StartHandler, Ack,
       LoseAck, DatabaseFails, HandlerThrows, Crash, Quarantine, AppendEvent,
       ApplyUnmatched, UpsertDuplicateKey, RereadSealed, RereadOpen, FindDraft,
       FindLast, InsertRecord, InsertDuplicateKey, AlreadySealed, NextAttempt

LEMMA RecordWriters ==
  [Next]_vars =>
    \/ UNCHANGED sealed
    \/ \E w \in Worker : InsertRecord(w)
BY DEF Next, vars, mongo, Take, Handle, Deliver, Redeliver, StartHandler, Ack,
       LoseAck, DatabaseFails, HandlerThrows, Crash, Quarantine, AppendEvent,
       ApplyUnmatched, UpsertDuplicateKey, RereadSealed, RereadOpen, FindDraft,
       FindLast, ApplyMatched, UpsertInserts, WriteDraft, MarkSealed,
       InsertDuplicateKey, AlreadySealed, NextAttempt

LEMMA DeadLetterWriters ==
  [Next]_vars =>
    \/ UNCHANGED deadLetters
    \/ \E w \in Worker : Quarantine(w)
BY DEF Next, vars, mongo, Take, Handle, Deliver, Redeliver, StartHandler, Ack,
       LoseAck, DatabaseFails, HandlerThrows, Crash, InsertRecord, AppendEvent,
       ApplyUnmatched, UpsertDuplicateKey, RereadSealed, RereadOpen, FindDraft,
       FindLast, ApplyMatched, UpsertInserts, WriteDraft, MarkSealed,
       InsertDuplicateKey, AlreadySealed, NextAttempt

LEMMA AckWriters ==
  [Next]_vars =>
    \/ UNCHANGED acked
    \/ \E w \in Worker : Ack(w)
BY DEF Next, vars, jetstream, Take, Handle, Deliver, Redeliver, StartHandler,
       Quarantine, LoseAck, DatabaseFails, HandlerThrows, Crash, InsertRecord,
       AppendEvent, ApplyUnmatched, UpsertDuplicateKey, RereadSealed,
       RereadOpen, FindDraft, FindLast, ApplyMatched, UpsertInserts, WriteDraft,
       MarkSealed, InsertDuplicateKey, AlreadySealed, NextAttempt

(***************************************************************************)
(* What a step does to one worker: nothing, a reset to idle, the start of  *)
(* a message, or the next call of its handler.                             *)
(***************************************************************************)
Untouched(v) ==
  /\ pc'[v] = pc[v]
  /\ msg'[v] = msg[v]
  /\ copy'[v] = copy[v]
  /\ head'[v] = head[v]
  /\ attempt'[v] = attempt[v]

Reset(v) == pc'[v] = "idle" /\ msg'[v] = NoEvent /\ attempt'[v] = 1

Call(v) ==
  \/ Quarantine(v)
  \/ ApplyMatched(v) \/ ApplyUnmatched(v)
  \/ UpsertInserts(v) \/ UpsertDuplicateKey(v)
  \/ RereadSealed(v) \/ RereadOpen(v)
  \/ AppendEvent(v)
  \/ FindDraft(v) \/ FindLast(v)
  \/ InsertRecord(v) \/ InsertDuplicateKey(v)
  \/ AlreadySealed(v) \/ NextAttempt(v)
  \/ MarkSealed(v)

LEMMA WorkerStep ==
  ASSUME TypeOK, [Next]_vars, NEW v \in Worker
  PROVE  \/ Untouched(v)
         \/ Reset(v)
         \/ \E e \in Event : StartHandler(v, e)
         \/ Call(v)
<1> USE DEF mongo, jetstream, local, bounds, Goto, TypeOK
<1>1. ASSUME NEW w \in Worker, NEW e \in Event, StartHandler(w, e)
      PROVE  Untouched(v) \/ StartHandler(v, e)
  BY <1>1 DEF StartHandler, Untouched
<1>2. ASSUME NEW w \in Worker,
             Ack(w) \/ LoseAck(w) \/ DatabaseFails(w) \/ HandlerThrows(w)
      PROVE  Untouched(v) \/ Reset(v)
  BY <1>2 DEF Ack, LoseAck, DatabaseFails, HandlerThrows, Idle, Untouched, Reset
<1>3. ASSUME NEW p \in Pod, Crash(p)
      PROVE  Untouched(v) \/ Reset(v)
  BY <1>3 DEF Crash, Untouched, Reset
<1>4. ASSUME NEW w \in Worker, Call(w)
      PROVE  Untouched(v) \/ Call(v)
  <2>1. CASE w = v
    BY <1>4, <2>1
  <2>2. CASE w # v
    BY <1>4, <2>2
       DEF Call, Untouched, Quarantine, ApplyMatched, ApplyUnmatched,
           UpsertInserts, UpsertDuplicateKey, WriteDraft, RereadSealed,
           RereadOpen, AppendEvent, FindDraft, FindLast, InsertRecord,
           InsertDuplicateKey, AlreadySealed, NextAttempt, MarkSealed
  <2>3. QED
    BY <2>1, <2>2
<1>5. CASE UNCHANGED vars
  BY <1>5 DEF vars, Untouched
<1>6. QED
  BY <1>1, <1>2, <1>3, <1>4, <1>5
     DEF Next, Take, Handle, Call, Deliver, Redeliver

-----------------------------------------------------------------------------
(***************************************************************************)
(* Drafts: merging keeps every path attributed to a merged event.          *)
(***************************************************************************)
LEMMA MergeKeepsDraftOK ==
  ASSUME NEW e \in Event, NEW q \in Requisition, NEW draft \in Draft,
         DraftOK(draft, q), Payload[e].wellFormed, Req(e) = q
  PROVE  DraftOK(Merge(draft, e), q)
<1> DEFINE m == Merge(draft, e)
<1>1. /\ m.status = "OPEN"
      /\ m.eventIds = draft.eventIds \union {e}
      /\ \A p \in Path : m.fields[p] = IF p \in Writes(e) THEN e ELSE draft.fields[p]
  BY DEF Merge
<1>2. e # NoEvent
  BY PayloadType
<1>3. ASSUME NEW p \in Path, m.fields[p] # NoEvent
      PROVE  m.fields[p] \in m.eventIds /\ p \in Writes(m.fields[p])
  BY <1>1, <1>3 DEF DraftOK
<1>4. ASSUME NEW f \in m.eventIds
      PROVE  /\ Req(f) = q
             /\ Payload[f].wellFormed
             /\ \A p \in Writes(f) : m.fields[p] # NoEvent
  <2>1. CASE f = e
    BY <1>1, <1>2, <2>1, WritesType
  <2>2. CASE f \in draft.eventIds
    <3>1. f \in Event
      BY <2>2 DEF Draft
    <3>2. QED
      BY <1>1, <1>2, <2>2, <3>1, WritesType DEF DraftOK
  <2>3. QED
    BY <1>1, <2>1, <2>2
<1>5. QED
  BY <1>1, <1>3, <1>4 DEF DraftOK

LEMMA DraftsInit == Init => DraftsOK
BY DEF Init, DraftsOK, DraftOK, EmptyDraft

LEMMA DraftsStep == TypeOK /\ DraftsOK /\ ProgressOK /\ [Next]_vars => DraftsOK'
<1> SUFFICES ASSUME TypeOK, DraftsOK, ProgressOK, [Next]_vars,
                    NEW q \in Requisition
             PROVE  DraftOK(drafts'[q], q)
  BY DEF DraftsOK
<1>1. DraftOK(drafts[q], q) /\ drafts[q] \in Draft
  BY DEF DraftsOK, TypeOK
<1>2. CASE UNCHANGED drafts
  BY <1>1, <1>2
<1>3. CASE \E w \in Worker : MarkSealed(w)
  <2>1. PICK w \in Worker : MarkSealed(w)
    BY <1>3
  <2>2. /\ drafts'[q].fields = drafts[q].fields
        /\ drafts'[q].eventIds = drafts[q].eventIds
        /\ drafts'[q].status =
              IF q = Req(msg[w]) THEN "SEALED" ELSE drafts[q].status
    BY <2>1, MarkSealedDraft
  <2>3. QED
    BY <1>1, <2>2 DEF DraftOK
<1>4. CASE \E w \in Worker : ApplyMatched(w) \/ UpsertInserts(w)
  <2>1. PICK w \in Worker : ApplyMatched(w) \/ UpsertInserts(w)
    BY <1>4
  <2>2. /\ WriteDraft(w)
        /\ pc[w] \in {"apply", "upsert"}
    BY <2>1 DEF ApplyMatched, UpsertInserts
  <2>3. /\ msg[w] \in Event
        /\ drafts'[q] = IF q = Req(msg[w]) THEN Merge(drafts[q], msg[w])
                                           ELSE drafts[q]
    BY <2>2, WriteDraftDraft
  <2>4. Payload[msg[w]].wellFormed
    BY <2>2 DEF ProgressOK, Progress
  <2>5. QED
    BY <1>1, <2>3, <2>4, MergeKeepsDraftOK
<1>5. QED
  BY <1>2, <1>3, <1>4, DraftWriters

(***************************************************************************)
(* A record and what an acked message left behind stay.                    *)
(***************************************************************************)
LEMMA Stable ==
  ASSUME TypeOK, Grows
  PROVE  /\ \A q : HasRecord(q) => HasRecord(q)'
         /\ \A e \in Event : AccountedFor(e) => AccountedFor(e)'
<1>1. \A q : HasRecord(q) => HasRecord(q)'
  BY DEF Grows, HasRecord
<1>2. ASSUME NEW e \in Event, AccountedFor(e)
      PROVE  AccountedFor(e)'
  <2>1. Req(e) \in Requisition
    BY PayloadType DEF Req
  <2>2. QED
    BY <1>2, <2>1 DEF Grows, AccountedFor
<1>3. QED
  BY <1>1, <1>2

LEMMA WorkerEvent ==
  ASSUME TypeOK, NEW w \in Worker, pc[w] # "idle"
  PROVE  msg[w] \in Event /\ Req(msg[w]) \in Requisition
BY PayloadType DEF TypeOK, Req

(***************************************************************************)
(* The progress of every handler.                                          *)
(***************************************************************************)
LEMMA ProgressInit == Init => ProgressOK
BY DEF Init, ProgressOK, Progress, Merged, Logged

LEMMA ProgressStep ==
  TypeOK /\ DraftsOK /\ ProgressOK /\ LateHasRecord /\ SealedDraftHasRecord
    /\ [Next]_vars => ProgressOK'
<1> SUFFICES ASSUME TypeOK, DraftsOK, ProgressOK, LateHasRecord,
                    SealedDraftHasRecord, [Next]_vars, NEW v \in Worker
             PROVE  Progress(v)'
  BY DEF ProgressOK
<1> USE DEF mongo, jetstream, local, bounds, Goto
<1>1. Grows /\ Progress(v)
  BY StepGrows DEF ProgressOK
<1>2. CASE Untouched(v)
  <2>1. CASE pc[v] = "idle"
    BY <1>1, <1>2, <2>1 DEF Untouched, Progress, Merged, Logged
  <2>2. CASE pc[v] # "idle"
    <3>1. msg[v] \in Event /\ Req(msg[v]) \in Requisition
      BY <2>2, WorkerEvent
    <3>2. /\ AccountedFor(msg[v]) => AccountedFor(msg[v])'
          /\ HasRecord(Req(msg[v])) => HasRecord(Req(msg[v]))'
      BY <1>1, <1>2, <3>1, Stable DEF Untouched, AccountedFor, HasRecord
    <3>3. QED
      BY <1>1, <1>2, <3>1, <3>2
         DEF Untouched, Progress, Grows, DraftOf, HasRecord, AccountedFor
  <2>3. QED
    BY <2>1, <2>2
<1>3. CASE Reset(v)
  BY <1>3 DEF Reset, Progress, Merged, Logged
<1>4. ASSUME NEW e \in Event, StartHandler(v, e)
      PROVE  Progress(v)'
  BY <1>4, PayloadType DEF StartHandler, Progress, Merged, Logged, TypeOK
<1>5. CASE Call(v)
  <2> SUFFICES ASSUME pc[v] # "idle"
               PROVE  Progress(v)'
    BY <1>5 DEF Call, Quarantine, ApplyMatched, ApplyUnmatched, UpsertInserts,
         UpsertDuplicateKey, RereadSealed, RereadOpen, AppendEvent, FindDraft,
         FindLast, InsertRecord, InsertDuplicateKey, AlreadySealed, NextAttempt,
         MarkSealed
  <2>1. msg[v] \in Event /\ Req(msg[v]) \in Requisition
    BY WorkerEvent
  <2>2. CASE Quarantine(v)
    BY <1>1, <2>1, <2>2
       DEF Quarantine, Progress, Merged, Logged, TypeOK, AccountedFor
  <2>3. CASE ApplyMatched(v) \/ UpsertInserts(v)
    <3>1. WriteDraft(v) /\ pc[v] \in {"apply", "upsert"}
      BY <2>3 DEF ApplyMatched, UpsertInserts
    <3>2. msg[v] \in drafts'[Req(msg[v])].eventIds
      <4>1. drafts'[Req(msg[v])] = Merge(drafts[Req(msg[v])], msg[v])
        BY <2>1, <3>1, WriteDraftDraft
      <4>2. QED
        BY <4>1 DEF Merge
    <3>3. QED
      BY <1>1, <2>1, <3>1, <3>2
         DEF WriteDraft, Progress, Merged, Logged, TypeOK, DraftOf
  <2>4. CASE \/ ApplyUnmatched(v) \/ UpsertDuplicateKey(v)
             \/ RereadSealed(v) \/ RereadOpen(v)
    BY <1>1, <2>1, <2>4
       DEF ApplyUnmatched, UpsertDuplicateKey, RereadSealed, RereadOpen,
           Progress, Merged, Logged, TypeOK, DraftOf
  <2>5. CASE AppendEvent(v)
    BY <1>1, <2>1, <2>5
       DEF AppendEvent, Progress, Merged, Logged, TypeOK, DraftOf
  <2>6. CASE FindDraft(v)
    BY <1>1, <2>1, <2>6
       DEF FindDraft, Progress, Merged, Logged, TypeOK, DraftOf, AccountedFor
  <2>7. CASE \/ FindLast(v) \/ InsertDuplicateKey(v) \/ NextAttempt(v)
    BY <1>1, <2>1, <2>7
       DEF FindLast, InsertDuplicateKey, NextAttempt, Progress, Merged, Logged,
           TypeOK, DraftOf
  <2>8. CASE AlreadySealed(v)
    BY <1>1, <2>1, <2>8
       DEF AlreadySealed, Progress, Merged, Logged, TypeOK, DraftOf, HasRecord
  <2>9. CASE InsertRecord(v)
    <3>1. HasRecord(Req(msg[v]))'
      BY <2>9 DEF InsertRecord, HasRecord, NextRecord
    <3>2. QED
      BY <1>1, <2>1, <2>9, <3>1
         DEF InsertRecord, Progress, Merged, Logged, TypeOK, DraftOf
  <2>10. CASE MarkSealed(v)
    <3>1. drafts'[Req(msg[v])].eventIds = drafts[Req(msg[v])].eventIds
      BY <2>1, <2>10, MarkSealedDraft
    <3>2. QED
      BY <1>1, <2>1, <2>10, <3>1
         DEF MarkSealed, Progress, Merged, Logged, TypeOK, DraftOf, AccountedFor
  <2>11. QED
    BY <1>5, <2>2, <2>3, <2>4, <2>5, <2>6, <2>7, <2>8, <2>9, <2>10 DEF Call
<1>6. QED
  BY <1>2, <1>3, <1>4, <1>5, WorkerStep

-----------------------------------------------------------------------------
(***************************************************************************)
(* apply's passes, the local copies and the dead letters.                  *)
(***************************************************************************)
LEMMA ApplyInit == Init => ApplyOK
BY DEF Init, ApplyOK, ApplyPass

LEMMA ApplyStep == TypeOK /\ ApplyOK /\ [Next]_vars => ApplyOK'
<1> SUFFICES ASSUME TypeOK, ApplyOK, [Next]_vars, NEW v \in Worker
             PROVE  ApplyPass(v)'
  BY DEF ApplyOK
<1> USE DEF mongo, jetstream, local, bounds, Goto
<1>1. Grows /\ ApplyPass(v)
  BY StepGrows DEF ApplyOK
<1>2. CASE Untouched(v)
  <2>1. CASE pc[v] = "idle"
    BY <1>1, <1>2, <2>1 DEF Untouched, ApplyPass
  <2>2. CASE pc[v] # "idle"
    <3>1. Req(msg[v]) \in Requisition
      BY <2>2, WorkerEvent
    <3>2. QED
      BY <1>1, <1>2, <3>1 DEF Untouched, ApplyPass, Grows, DraftOf
  <2>3. QED
    BY <2>1, <2>2
<1>3. CASE Reset(v)
  BY <1>3 DEF Reset, ApplyPass
<1>4. ASSUME NEW e \in Event, StartHandler(v, e)
      PROVE  ApplyPass(v)'
  BY <1>1, <1>4 DEF StartHandler, ApplyPass, TypeOK
<1>5. CASE Call(v)
  <2>1. CASE ApplyUnmatched(v) \/ UpsertDuplicateKey(v)
    <3>1. Req(msg[v]) \in Requisition /\ DraftOf(v).status \in {"NONE", "OPEN", "SEALED"}
      BY <2>1, WorkerEvent
         DEF ApplyUnmatched, UpsertDuplicateKey, TypeOK, Draft, DraftOf
    <3>2. QED
      BY <1>1, <2>1, <3>1
         DEF ApplyUnmatched, UpsertDuplicateKey, ApplyPass, TypeOK, DraftOf
  <2>2. CASE RereadSealed(v) \/ RereadOpen(v)
    BY <1>1, <2>2 DEF RereadSealed, RereadOpen, ApplyPass, TypeOK, DraftOf
  <2>3. CASE \/ Quarantine(v) \/ ApplyMatched(v) \/ UpsertInserts(v)
             \/ AppendEvent(v) \/ FindDraft(v)
             \/ FindLast(v) \/ InsertRecord(v) \/ InsertDuplicateKey(v)
             \/ AlreadySealed(v) \/ NextAttempt(v) \/ MarkSealed(v)
    <3>1. pc'[v] \notin {"idle", "apply", "upsert", "reread"}
      BY <2>3
         DEF Quarantine, ApplyMatched, UpsertInserts, WriteDraft, AppendEvent,
             FindDraft, FindLast, InsertRecord, InsertDuplicateKey,
             AlreadySealed, NextAttempt, MarkSealed, TypeOK
    <3>2. QED
      BY <3>1 DEF ApplyPass
  <2>4. QED
    BY <1>5, <2>1, <2>2, <2>3 DEF Call
<1>6. QED
  BY <1>2, <1>3, <1>4, <1>5, WorkerStep

LEMMA CopiesInit == Init => CopiesOK
BY DEF Init, CopiesOK, CopyOK, Sealing

LEMMA CopiesStep ==
  TypeOK /\ DraftsOK /\ CopiesOK /\ [Next]_vars => CopiesOK'
<1> SUFFICES ASSUME TypeOK, DraftsOK, CopiesOK, [Next]_vars, NEW v \in Worker
             PROVE  CopyOK(v)'
  BY DEF CopiesOK
<1> USE DEF mongo, jetstream, local, bounds, Goto
<1>1. CopyOK(v)
  BY DEF CopiesOK
<1>2. CASE Untouched(v)
  BY <1>1, <1>2 DEF Untouched, CopyOK
<1>3. CASE Reset(v)
  BY <1>3 DEF Reset, CopyOK, Sealing
<1>4. ASSUME NEW e \in Event, StartHandler(v, e)
      PROVE  CopyOK(v)'
  BY <1>4 DEF StartHandler, CopyOK, Sealing, TypeOK
<1>5. CASE Call(v)
  <2>1. CASE FindDraft(v)
    <3>1. CASE Sealable(DraftOf(v))
      <4>1. Req(msg[v]) \in Requisition
        BY <2>1, WorkerEvent DEF FindDraft
      <4>2. DraftOK(DraftOf(v), Req(msg[v])) /\ NoSignalMissing(DraftOf(v).fields)
        BY <3>1, <4>1 DEF DraftsOK, DraftOf, Sealable
      <4>3. copy'[v] = DraftOf(v) /\ msg'[v] = msg[v]
        BY <2>1, <3>1 DEF FindDraft, TypeOK
      <4>4. QED
        BY <4>2, <4>3 DEF CopyOK
    <3>2. CASE ~ Sealable(DraftOf(v))
      BY <2>1, <3>2 DEF FindDraft, CopyOK, Sealing, TypeOK
    <3>3. QED
      BY <3>1, <3>2
  <2>2. CASE \/ FindLast(v) \/ InsertDuplicateKey(v) \/ NextAttempt(v)
    BY <1>1, <2>2
       DEF FindLast, InsertDuplicateKey, NextAttempt, CopyOK, Sealing, TypeOK
  <2>3. CASE \/ Quarantine(v) \/ ApplyMatched(v) \/ UpsertInserts(v)
             \/ ApplyUnmatched(v) \/ UpsertDuplicateKey(v)
             \/ RereadSealed(v) \/ RereadOpen(v) \/ AppendEvent(v)
             \/ InsertRecord(v) \/ AlreadySealed(v) \/ MarkSealed(v)
    <3>1. pc'[v] \notin Sealing
      BY <2>3
         DEF Quarantine, ApplyMatched, UpsertInserts, WriteDraft, AppendEvent,
             ApplyUnmatched, UpsertDuplicateKey, RereadSealed, RereadOpen,
             InsertRecord, AlreadySealed, MarkSealed, TypeOK, Sealing
    <3>2. QED
      BY <3>1 DEF CopyOK
  <2>4. QED
    BY <1>5, <2>1, <2>2, <2>3 DEF Call
<1>6. QED
  BY <1>2, <1>3, <1>4, <1>5, WorkerStep

LEMMA LateInit == Init => LateHasRecord
BY DEF Init, LateHasRecord

LEMMA LateStep ==
  TypeOK /\ ProgressOK /\ LateHasRecord /\ SealedDraftHasRecord /\ [Next]_vars
    => LateHasRecord'
<1> SUFFICES ASSUME TypeOK, ProgressOK, LateHasRecord, SealedDraftHasRecord,
                    [Next]_vars,
                    NEW e \in deadLetters', Payload[e].wellFormed
             PROVE  HasRecord(Req(e))'
  BY DEF LateHasRecord
<1>1. \A q : HasRecord(q) => HasRecord(q)'
  BY StepGrows, Stable
<1>2. CASE e \in deadLetters
  BY <1>1, <1>2 DEF LateHasRecord
<1>3. CASE e \notin deadLetters
  <2>1. PICK w \in Worker : Quarantine(w) /\ e = msg[w]
    BY <1>3, DeadLetterWriters DEF Quarantine
  <2>2. DraftOf(w).status = "SEALED"
    BY <2>1 DEF Quarantine, ProgressOK, Progress
  <2>3. Req(e) \in Requisition
    BY <2>1, WorkerEvent DEF Quarantine
  <2>4. QED
    BY <1>1, <2>1, <2>2, <2>3 DEF SealedDraftHasRecord, DraftOf
<1>4. QED
  BY <1>2, <1>3

LEMMA SealedDraftInit == Init => SealedDraftHasRecord
BY DEF Init, SealedDraftHasRecord, EmptyDraft

LEMMA SealedDraftStep ==
  TypeOK /\ ProgressOK /\ SealedDraftHasRecord /\ [Next]_vars
    => SealedDraftHasRecord'
<1> SUFFICES ASSUME TypeOK, ProgressOK, SealedDraftHasRecord, [Next]_vars,
                    NEW q \in Requisition, drafts'[q].status = "SEALED"
             PROVE  HasRecord(q)'
  BY DEF SealedDraftHasRecord
<1>1. \A r : HasRecord(r) => HasRecord(r)'
  BY StepGrows, Stable
<1>2. CASE drafts[q].status = "SEALED"
  BY <1>1, <1>2 DEF SealedDraftHasRecord
<1>3. CASE drafts[q].status # "SEALED"
  <2>1. CASE \E w \in Worker : MarkSealed(w)
    <3>1. PICK w \in Worker : MarkSealed(w)
      BY <2>1
    <3>2. q = Req(msg[w])
      BY <1>3, <3>1, MarkSealedDraft
    <3>3. HasRecord(Req(msg[w]))
      BY <3>1 DEF MarkSealed, ProgressOK, Progress
    <3>4. QED
      BY <1>1, <3>2, <3>3
  <2>2. CASE \E w \in Worker : ApplyMatched(w) \/ UpsertInserts(w)
    <3>1. PICK w \in Worker : ApplyMatched(w) \/ UpsertInserts(w)
      BY <2>2
    <3>2. WriteDraft(w) /\ pc[w] # "idle"
      BY <3>1 DEF ApplyMatched, UpsertInserts
    <3>3. drafts'[q] = IF q = Req(msg[w]) THEN Merge(drafts[q], msg[w])
                                          ELSE drafts[q]
      BY <3>2, WriteDraftDraft
    <3>4. Merge(drafts[q], msg[w]).status = "OPEN"
      BY DEF Merge
    <3>5. QED
      BY <1>3, <3>3, <3>4
  <2>3. QED
    BY <1>3, <2>1, <2>2, DraftWriters
<1>4. QED
  BY <1>2, <1>3

-----------------------------------------------------------------------------
(***************************************************************************)
(* The chain: the head a worker read need not be the last record when it   *)
(* inserts, but then the unique index on sequence rejects the insert.      *)
(***************************************************************************)
LEMMA ChainInit == Init => ChainIntact
BY DEF Init, ChainIntact

LEMMA ChainStep == TypeOK /\ ChainIntact /\ [Next]_vars => ChainIntact'
<1> SUFFICES ASSUME TypeOK, ChainIntact, [Next]_vars
             PROVE  ChainIntact'
  OBVIOUS
<1>1. CASE UNCHANGED sealed
  BY <1>1 DEF ChainIntact
<1>2. CASE \E w \in Worker : InsertRecord(w)
  <2>1. PICK w \in Worker : InsertRecord(w)
    BY <1>2
  <2> DEFINE n == NextRecord(w)
  <2>2. sealed' = sealed \union {n} /\ ~ DuplicateKey(n)
    BY <2>1 DEF InsertRecord
  <2>3. IF n.sequence = 1
          THEN n.prevHash = GENESIS_HASH
          ELSE \E s \in sealed' : /\ s.sequence = n.sequence - 1
                                  /\ n.prevHash = RecordHash(s)
    <3>1. n.sequence = head[w].sequence + 1 /\ n.prevHash = head[w].recordHash
      BY DEF NextRecord
    <3>2. CASE head[w] = NoHead
      BY <3>1, <3>2 DEF NoHead
    <3>3. CASE \E r \in sealed : head[w] = HeadOf(r)
      <4>1. PICK r \in sealed : head[w] = HeadOf(r)
        BY <3>3
      <4>2. r.sequence \in Nat \ {0}
        BY DEF TypeOK
      <4>3. /\ n.sequence = r.sequence + 1
            /\ n.prevHash = RecordHash(r)
        BY <3>1, <4>1 DEF HeadOf
      <4>4. QED
        BY <2>2, <4>2, <4>3
    <3>4. QED
      BY <3>2, <3>3 DEF TypeOK, ChainHeads
  <2>4. \A s \in sealed : /\ n.sequence # s.sequence
                          /\ n.requisitionNumber # s.requisitionNumber
    BY <2>2 DEF DuplicateKey
  <2>5. QED
    BY <2>2, <2>3, <2>4 DEF ChainIntact
<1>3. QED
  BY <1>1, <1>2, RecordWriters

(***************************************************************************)
(* The sequences have no gap, so the worker whose insert is accepted had   *)
(* read the last record, and the ledger implements the append-only log.    *)
(***************************************************************************)
LEMMA GaplessInit == Init => Gapless
BY DEF Init, Gapless

LEMMA GaplessStep == TypeOK /\ Gapless /\ [Next]_vars => Gapless'
<1> SUFFICES ASSUME TypeOK, Gapless, [Next]_vars,
                    NEW r \in sealed', NEW k \in 1 .. r.sequence
             PROVE  \E s \in sealed' : s.sequence = k
  BY DEF Gapless
<1>1. sealed \subseteq sealed'
  BY StepGrows DEF Grows
<1>2. CASE r \in sealed
  BY <1>1, <1>2 DEF Gapless
<1>3. CASE r \notin sealed
  <2>1. PICK w \in Worker : InsertRecord(w)
    BY <1>3, RecordWriters
  <2>2. r = NextRecord(w)
    BY <1>3, <2>1 DEF InsertRecord
  <2>3. r.sequence = head[w].sequence + 1
    BY <2>2 DEF NextRecord
  <2>4. CASE k = r.sequence
    BY <2>4
  <2>5. CASE k # r.sequence
    <3>1. CASE head[w] = NoHead
      BY <2>3, <2>5, <3>1 DEF NoHead
    <3>2. CASE \E s \in sealed : head[w] = HeadOf(s)
      <4>1. PICK s \in sealed : head[w] = HeadOf(s)
        BY <3>2
      <4>2. s.sequence \in Nat /\ r.sequence = s.sequence + 1
        BY <2>3, <4>1 DEF HeadOf, TypeOK
      <4>3. k \in 1 .. s.sequence
        BY <2>5, <4>2
      <4>4. QED
        BY <1>1, <4>3 DEF Gapless
    <3>3. QED
      BY <3>1, <3>2 DEF TypeOK, ChainHeads
  <2>6. QED
    BY <2>4, <2>5
<1>4. QED
  BY <1>2, <1>3

LEMMA InsertAppends ==
  ASSUME TypeOK, Gapless, NEW w \in Worker, InsertRecord(w)
  PROVE  Chain!Append(NextRecord(w))
<1> DEFINE n == NextRecord(w)
<1>1. /\ sealed' = sealed \union {n}
      /\ \A r \in sealed : /\ r.sequence # n.sequence
                           /\ r.requisitionNumber # n.requisitionNumber
  BY DEF InsertRecord, DuplicateKey
<1>2. n.sequence = head[w].sequence + 1 /\ n.prevHash = head[w].recordHash
  BY DEF NextRecord
<1>3. ASSUME NEW r \in sealed
      PROVE  r.sequence \in Nat /\ r.sequence < n.sequence
  <2>1. r.sequence \in Nat
    BY DEF TypeOK
  <2>2. n.sequence \in Nat \ {0}
    BY <1>2 DEF TypeOK, ChainHeads, NoHead, HeadOf
  <2>3. n.sequence \notin 1 .. r.sequence
    BY <1>1 DEF Gapless
  <2>4. QED
    BY <2>1, <2>2, <2>3
<1>4. CASE head[w] = NoHead
  <2>1. n.sequence = 1 /\ n.prevHash = GENESIS_HASH
    BY <1>2, <1>4 DEF NoHead
  <2>2. \A r \in sealed : FALSE
    BY <1>3, <2>1 DEF TypeOK
  <2>3. sealed = {}
    BY <2>2
  <2>4. QED
    BY <1>1, <2>1, <2>3 DEF Chain!Append
<1>5. CASE \E r \in sealed : head[w] = HeadOf(r)
  <2>1. PICK r \in sealed : head[w] = HeadOf(r)
    BY <1>5
  <2>2. n.sequence = r.sequence + 1 /\ n.prevHash = RecordHash(r)
    BY <1>2, <2>1 DEF HeadOf
  <2>3. Chain!Follows(n, r)
    BY <2>2 DEF Chain!Follows
  <2>4. Chain!IsEnd(r)
    BY <1>3, <2>2 DEF Chain!IsEnd
  <2>5. QED
    BY <1>1, <2>3, <2>4 DEF Chain!Append
<1>6. QED
  BY <1>4, <1>5 DEF TypeOK, ChainHeads

LEMMA ChainRefinementStep ==
  TypeOK /\ Gapless /\ [Next]_vars => [Chain!Next]_sealed
<1> SUFFICES ASSUME TypeOK, Gapless, [Next]_vars, sealed' # sealed
             PROVE  Chain!Next
  OBVIOUS
<1>1. PICK w \in Worker : InsertRecord(w)
  BY RecordWriters
<1>2. NextRecord(w) \in sealed'
  BY <1>1 DEF InsertRecord
<1>3. QED
  BY <1>1, <1>2, InsertAppends DEF Chain!Next

(***************************************************************************)
(* Completed sets the header too, so a complete draft has one, and its     *)
(* assets are those of the completed event.                                *)
(***************************************************************************)
LEMMA CompleteDraftHasHeader ==
  ASSUME NEW q, NEW draft \in Draft, DraftOK(draft, q),
         draft.fields[Completion] # NoEvent
  PROVE  LET done == draft.fields[Completion]
             header == draft.fields[Header]
         IN  /\ done \in draft.eventIds
             /\ Payload[done].subject = "completed"
             /\ Payload[header].assets = Payload[done].assets
             /\ Payload[header].transferType = Payload[done].transferType
<1> DEFINE done == draft.fields[Completion]
           header == draft.fields[Header]
<1>1. Completion \in Path /\ Header \in Path
  BY DEF Path
<1>2. done \in draft.eventIds /\ Completion \in Writes(done)
  BY <1>1 DEF DraftOK
<1>3. done \in Event /\ Req(done) = q
  BY <1>2 DEF Draft, DraftOK
<1>4. Header \in Writes(done)
  BY <1>2, <1>3, WritesType
<1>5. header # NoEvent
  BY <1>2, <1>4 DEF DraftOK
<1>6. header \in draft.eventIds /\ Header \in Writes(header)
  BY <1>1, <1>5 DEF DraftOK
<1>7. header \in Event /\ Req(header) = q
  BY <1>6 DEF Draft, DraftOK
<1>8. /\ Payload[header].assets = Payload[done].assets
      /\ Payload[header].transferType = Payload[done].transferType
  BY <1>3, <1>4, <1>6, <1>7, PayloadAgreement
<1>9. Payload[done].subject = "completed"
  BY <1>2, <1>3, WritesSubject
<1>10. QED
  BY <1>2, <1>8, <1>9

(***************************************************************************)
(* A draft the gate lets through is justified by the events it lists.      *)
(***************************************************************************)
LEMMA CompleteDraftIsJustified ==
  ASSUME NEW q, NEW draft \in Draft, DraftOK(draft, q),
         NoSignalMissing(draft.fields)
  PROVE  JustifiedBy(draft, draft.fields[Completion])
<1> DEFINE f == draft.fields
           done == f[Completion]
<1>1. /\ Authorization \in Path
      /\ \A d \in Document : Receipt(d) \in Path
  BY DEF Path
<1>2. /\ done \in draft.eventIds
      /\ Payload[done].subject = "completed"
      /\ Payload[f[Header]].assets = Payload[done].assets
      /\ Payload[f[Header]].transferType = Payload[done].transferType
  BY CompleteDraftHasHeader DEF NoSignalMissing
<1>3. ASSUME NEW p \in Path, f[p] # NoEvent
      PROVE  f[p] \in draft.eventIds /\ f[p] \in Event /\ p \in Writes(f[p])
  BY <1>3 DEF DraftOK, Draft
<1>4. \E e \in draft.eventIds : Payload[e].subject = "initiated"
  <2>1. f[Authorization] # NoEvent
    BY DEF NoSignalMissing
  <2>2. Payload[f[Authorization]].subject = "initiated"
    BY <1>1, <1>3, <2>1, WritesSubject
  <2>3. QED
    BY <1>1, <1>3, <2>1, <2>2
<1>5. ASSUME Payload[done].transferType = "PHYSICAL_TRANSFER",
             NEW a \in Payload[done].assets
      PROVE  \E e \in draft.eventIds :
               Payload[e].subject = "received" /\ a \in Payload[e].assets
  <2>1. a \in Receipted(f)
    BY <1>2, <1>5 DEF NoSignalMissing, ReceiptsCover
  <2>2. PICK d \in Document : /\ f[Receipt(d)] # NoEvent
                              /\ a \in Payload[f[Receipt(d)]].assets
    BY <2>1 DEF Receipted
  <2>3. Payload[f[Receipt(d)]].subject = "received"
    BY <1>1, <1>3, <2>2, WritesSubject
  <2>4. QED
    BY <1>1, <1>3, <2>2, <2>3
<1>6. QED
  BY <1>2, <1>4, <1>5 DEF JustifiedBy

LEMMA RecordsInit == Init => RecordsAreJustified
BY DEF Init, RecordsAreJustified

LEMMA RecordsStep ==
  TypeOK /\ CopiesOK /\ RecordsAreJustified /\ [Next]_vars
    => RecordsAreJustified'
<1> SUFFICES ASSUME TypeOK, CopiesOK, RecordsAreJustified, [Next]_vars
             PROVE  RecordsAreJustified'
  OBVIOUS
<1>1. CASE UNCHANGED sealed
  BY <1>1 DEF RecordsAreJustified
<1>2. CASE \E w \in Worker : InsertRecord(w)
  <2>1. PICK w \in Worker : InsertRecord(w)
    BY <1>2
  <2> DEFINE n == NextRecord(w)
             c == copy[w]
             done == c.fields[Completion]
  <2>2. sealed' = sealed \union {n} /\ pc[w] = "insert"
    BY <2>1 DEF InsertRecord
  <2>3. /\ DraftOK(c, Req(msg[w]))
        /\ NoSignalMissing(c.fields)
        /\ c \in Draft
    BY <2>2 DEF CopiesOK, CopyOK, Sealing, TypeOK
  <2>4. /\ n.fields = RecordFields(c.fields)
        /\ n.eventIds = c.eventIds
        /\ n.requisitionNumber = Req(msg[w])
    BY DEF NextRecord
  <2>5. done \in n.eventIds /\ JustifiedBy(n, done)
    <3>1. done \in c.eventIds
      BY <2>3, CompleteDraftHasHeader DEF NoSignalMissing
    <3>2. JustifiedBy(c, done)
      BY <2>3, CompleteDraftIsJustified
    <3>3. QED
      BY <2>4, <3>1, <3>2 DEF JustifiedBy
  <2>6. ASSUME NEW p \in Path, n.fields[p] # NoEvent
        PROVE  n.fields[p] \in n.eventIds
    <3>1. n.fields[p] = c.fields[p]
      BY <2>4, <2>6 DEF RecordFields
    <3>2. QED
      BY <2>3, <2>4, <2>6, <3>1 DEF DraftOK
  <2>7. \A e \in n.eventIds : Req(e) = n.requisitionNumber
    BY <2>3, <2>4 DEF DraftOK
  <2>8. QED
    BY <2>2, <2>5, <2>6, <2>7 DEF RecordsAreJustified
<1>3. QED
  BY <1>1, <1>2, RecordWriters

LEMMA AckedInit == Init => AckedIsAccountedFor
BY DEF Init, AckedIsAccountedFor

LEMMA AckedStep ==
  TypeOK /\ ProgressOK /\ AckedIsAccountedFor /\ [Next]_vars
    => AckedIsAccountedFor'
<1> SUFFICES ASSUME TypeOK, ProgressOK, AckedIsAccountedFor, [Next]_vars,
                    NEW e \in acked'
             PROVE  AccountedFor(e)'
  BY DEF AckedIsAccountedFor
<1>1. \A f \in Event : AccountedFor(f) => AccountedFor(f)'
  BY StepGrows, Stable
<1>2. CASE e \in acked
  BY <1>1, <1>2 DEF AckedIsAccountedFor, TypeOK
<1>3. CASE e \notin acked
  <2>1. PICK w \in Worker : Ack(w) /\ e = msg[w]
    BY <1>3, AckWriters DEF Ack
  <2>2. AccountedFor(e) /\ e \in Event
    BY <2>1, WorkerEvent DEF Ack, ProgressOK, Progress
  <2>3. QED
    BY <1>1, <2>2
<1>4. QED
  BY <1>2, <1>3

-----------------------------------------------------------------------------
(***************************************************************************)
(* Replaying an event the draft already holds completes nothing: it swaps  *)
(* the event behind a path for one that says the same to the seal gate.    *)
(***************************************************************************)
LEMMA RemergeCompletesNothing ==
  ASSUME NEW q \in Requisition, NEW draft \in Draft, DraftOK(draft, q),
         NEW e \in draft.eventIds, NoSignalMissing(Merge(draft, e).fields)
  PROVE  NoSignalMissing(draft.fields)
<1> DEFINE f == draft.fields
           g == Merge(draft, e).fields
<1>1. e \in Event /\ Req(e) = q /\ e # NoEvent
  BY PayloadType DEF Draft, DraftOK
<1>2. \A p \in Path : g[p] = IF p \in Writes(e) THEN e ELSE f[p]
  BY DEF Merge
<1>3. \A p \in Path : p \in Writes(e) => f[p] # NoEvent
  BY DEF DraftOK
<1>4. \A p \in Path : g[p] # NoEvent <=> f[p] # NoEvent
  BY <1>1, <1>2, <1>3
<1>5. ASSUME NEW p \in {Header} \union {Receipt(d) : d \in Document}
      PROVE  /\ Payload[g[p]].assets = Payload[f[p]].assets
             /\ Payload[g[p]].transferType = Payload[f[p]].transferType
  <2>1. p \in Path
    BY DEF Path
  <2>2. CASE p \in Writes(e)
    <3>1. f[p] \in draft.eventIds /\ p \in Writes(f[p])
      BY <1>3, <2>1, <2>2 DEF DraftOK
    <3>2. f[p] \in Event /\ Req(f[p]) = q
      BY <3>1 DEF Draft, DraftOK
    <3>3. g[p] = e
      BY <1>2, <2>1, <2>2
    <3>4. QED
      BY <1>1, <2>2, <3>1, <3>2, <3>3, PayloadAgreement
  <2>3. CASE p \notin Writes(e)
    BY <1>2, <2>1, <2>3
  <2>4. QED
    BY <2>2, <2>3
<1>6. /\ Header \in Path /\ Completion \in Path /\ Authorization \in Path
      /\ \A d \in Document : Receipt(d) \in Path
  BY DEF Path
<1>7. Receipted(g) = Receipted(f)
  <2>1. {d \in Document : g[Receipt(d)] # NoEvent}
          = {d \in Document : f[Receipt(d)] # NoEvent}
    BY <1>4, <1>6
  <2>2. \A d \in Document :
          Payload[g[Receipt(d)]].assets = Payload[f[Receipt(d)]].assets
    BY <1>5
  <2>3. QED
    BY <2>1, <2>2 DEF Receipted
<1>8. /\ Payload[g[Header]].assets = Payload[f[Header]].assets
      /\ Payload[g[Header]].transferType = Payload[f[Header]].transferType
  BY <1>5
<1>9. QED
  BY <1>4, <1>6, <1>7, <1>8 DEF NoSignalMissing, ReceiptsCover

(***************************************************************************)
(* A handler that has decided to ack leaves no complete draft behind.      *)
(***************************************************************************)
LEMMA AckMeansSealedOrIncomplete ==
  ASSUME TypeOK, DraftsOK, ProgressOK, SealedDraftHasRecord, [Next]_vars,
         NEW q \in Requisition, NoSignalMissing(drafts[q].fields),
         ~ HasRecord(q), NEW e \in drafts[q].eventIds,
         NEW v \in Worker, msg[v] = e, Call(v)
  PROVE  pc'[v] # "ack"
<1>1. Req(e) = q /\ Payload[e].wellFormed
  BY DEF DraftsOK, DraftOK
<1>2. DraftOf(v) = drafts[q]
  BY <1>1 DEF DraftOf
<1>3. drafts[q].status = "OPEN"
  <2>1. drafts[q].status # "NONE"
    BY DEF DraftsOK, DraftOK
  <2>2. drafts[q].status # "SEALED"
    BY DEF SealedDraftHasRecord
  <2>3. QED
    BY <2>1, <2>2 DEF TypeOK, Draft
<1>4. CASE Quarantine(v)
  BY <1>1, <1>2, <1>3, <1>4 DEF Quarantine, ProgressOK, Progress
<1>5. CASE FindDraft(v)
  BY <1>2, <1>3, <1>5 DEF FindDraft, Sealable, TypeOK, Goto
<1>6. CASE MarkSealed(v)
  BY <1>1, <1>6 DEF MarkSealed, ProgressOK, Progress
<1>7. CASE \/ ApplyMatched(v) \/ UpsertInserts(v)
           \/ ApplyUnmatched(v) \/ UpsertDuplicateKey(v)
           \/ RereadSealed(v) \/ RereadOpen(v) \/ AppendEvent(v)
           \/ FindLast(v) \/ InsertRecord(v) \/ InsertDuplicateKey(v)
           \/ AlreadySealed(v) \/ NextAttempt(v)
  BY <1>7 DEF ApplyMatched, UpsertInserts, WriteDraft, ApplyUnmatched,
       UpsertDuplicateKey, RereadSealed, RereadOpen, AppendEvent, FindLast,
       InsertRecord, InsertDuplicateKey, AlreadySealed, NextAttempt, TypeOK, Goto
<1>8. QED
  BY <1>4, <1>5, <1>6, <1>7 DEF Call

LEMMA StrandedInit == Init => NoStrandedDraft
BY DEF Init, NoStrandedDraft, NoSignalMissing, EmptyDraft, Path

LEMMA StrandedStep ==
  TypeOK /\ DraftsOK /\ ProgressOK /\ LateHasRecord /\ SealedDraftHasRecord
    /\ AckedIsAccountedFor /\ NoStrandedDraft /\ [Next]_vars => NoStrandedDraft'
<1> SUFFICES ASSUME TypeOK, DraftsOK, ProgressOK, LateHasRecord,
                    SealedDraftHasRecord, AckedIsAccountedFor, NoStrandedDraft,
                    [Next]_vars, NEW q \in Requisition,
                    NoSignalMissing(drafts'[q].fields), ~ HasRecord(q)'
             PROVE  \E e \in drafts'[q].eventIds \ acked' :
                      \A w \in Worker : msg'[w] = e => pc'[w] # "ack"
  BY DEF NoStrandedDraft
<1>1. Grows /\ ~ HasRecord(q)
  BY StepGrows, Stable
<1>2. CASE NoSignalMissing(drafts[q].fields)
  <2>1. PICK e \in drafts[q].eventIds \ acked :
          \A w \in Worker : msg[w] = e => pc[w] # "ack"
    BY <1>1, <1>2 DEF NoStrandedDraft
  <2>2. e \in drafts'[q].eventIds
    BY <1>1 DEF Grows
  <2>3. e \notin acked'
    BY <2>1, AckWriters DEF Ack
  <2>4. ASSUME NEW w \in Worker, msg'[w] = e
        PROVE  pc'[w] # "ack"
    <3>1. CASE Untouched(w)
      BY <2>1, <2>4, <3>1 DEF Untouched
    <3>2. CASE Reset(w)
      BY <3>2 DEF Reset
    <3>3. ASSUME NEW f \in Event, StartHandler(w, f)
          PROVE  pc'[w] # "ack"
      BY <3>3 DEF StartHandler, Goto, TypeOK
    <3>4. CASE Call(w)
      <4>1. msg[w] = e
        BY <2>4, <3>4
           DEF Call, Quarantine, ApplyMatched, UpsertInserts, WriteDraft,
               ApplyUnmatched, UpsertDuplicateKey, RereadSealed, RereadOpen,
               AppendEvent, FindDraft, FindLast, InsertRecord,
               InsertDuplicateKey, AlreadySealed, NextAttempt, MarkSealed
      <4>2. QED
        BY <1>1, <1>2, <2>1, <3>4, <4>1, AckMeansSealedOrIncomplete
    <3>5. QED
      BY <3>1, <3>2, <3>3, <3>4, WorkerStep
  <2>5. QED
    BY <2>2, <2>3, <2>4
<1>3. CASE ~ NoSignalMissing(drafts[q].fields)
  <2>1. ASSUME NEW w \in Worker, MarkSealed(w)
        PROVE  FALSE
    BY <1>3, <2>1, MarkSealedDraft
  <2>2. PICK w \in Worker : ApplyMatched(w) \/ UpsertInserts(w)
    BY <1>3, <2>1, DraftWriters
  <2>3. WriteDraft(w) /\ pc[w] \in {"apply", "upsert"}
    BY <2>2 DEF ApplyMatched, UpsertInserts
  <2> DEFINE e == msg[w]
  <2>4. /\ e \in Event
        /\ Req(e) = q
        /\ drafts'[q] = Merge(drafts[q], e)
    BY <1>3, <2>3, WriteDraftDraft
  <2>5. Payload[e].wellFormed
    BY <2>3 DEF ProgressOK, Progress
  <2>6. e \notin drafts[q].eventIds
    BY <1>3, <2>4, RemergeCompletesNothing DEF TypeOK, DraftsOK
  <2>7. ~ AccountedFor(e)
    BY <1>1, <2>4, <2>5, <2>6 DEF AccountedFor, LateHasRecord
  <2>8. e \in drafts'[q].eventIds
    BY <2>4 DEF Merge
  <2>9. e \notin acked'
    BY <2>3, <2>7 DEF AckedIsAccountedFor, WriteDraft, jetstream
  <2>10. ASSUME NEW v \in Worker, msg'[v] = e
         PROVE  pc'[v] # "ack"
    <3>1. pc[v] # "ack"
      BY <2>3, <2>7, <2>10 DEF ProgressOK, Progress, WriteDraft
    <3>2. QED
      BY <2>3, <3>1 DEF WriteDraft, Goto, TypeOK
  <2>11. QED
    BY <2>8, <2>9, <2>10
<1>4. QED
  BY <1>2, <1>3

-----------------------------------------------------------------------------
(***************************************************************************)
(* The inductive invariant and what follows from it.                       *)
(***************************************************************************)
LEMMA InvariantInit == Init => IInv
BY TypeInit, DraftsInit, CopiesInit, ProgressInit, ApplyInit, LateInit,
   SealedDraftInit, GaplessInit, ChainInit, RecordsInit, AckedInit, StrandedInit DEF IInv

LEMMA InvariantStep == IInv /\ [Next]_vars => IInv'
BY TypeStep, DraftsStep, CopiesStep, ProgressStep, ApplyStep, LateStep,
   SealedDraftStep, GaplessStep, ChainStep, RecordsStep, AckedStep, StrandedStep DEF IInv

(***************************************************************************)
(* What each await of a handler relies on holds in every reachable state,  *)
(* whatever the other consumers and pods do in between.                    *)
(***************************************************************************)
THEOREM InvariantHolds == Spec => []IInv
BY InvariantInit, InvariantStep, PTL DEF Spec

(***************************************************************************)
(* The sealed records always form one gapless chain from the genesis hash  *)
(* with one record per requisition, for any number of racing consumers.    *)
(***************************************************************************)
THEOREM ChainIsIntact == Spec => []ChainIntact
<1>1. IInv => ChainIntact
  BY DEF IInv
<1>2. QED
  BY <1>1, InvariantHolds, PTL

(***************************************************************************)
(* The racing consumers implement an append-only log: every insert the     *)
(* unique index accepts is an append after the record that is last then.   *)
(***************************************************************************)
THEOREM LedgerIsAppendOnlyChain == Spec => AppendOnlyChain
<1>1. Init => Chain!Init
  BY DEF Init, Chain!Init
<1>2. IInv /\ [Next]_vars => [Chain!Next]_sealed
  BY ChainRefinementStep DEF IInv
<1>3. QED
  BY <1>1, <1>2, InvariantHolds, PTL DEF Spec, AppendOnlyChain, Chain!Spec

(***************************************************************************)
(* trySeal never seals an incomplete or a wrongly attributed record, though *)
(* the draft it read may have moved on by the time it inserts.             *)
(***************************************************************************)
THEOREM RecordsAlwaysJustified == Spec => []RecordsAreJustified
<1>1. IInv => RecordsAreJustified
  BY DEF IInv
<1>2. QED
  BY <1>1, InvariantHolds, PTL

(***************************************************************************)
(* Whatever fails or crashes, an acked message was logged and merged, or   *)
(* quarantined.                                                            *)
(***************************************************************************)
THEOREM NoAckedMessageIsLost == Spec => []AckedIsAccountedFor
<1>1. IInv => AckedIsAccountedFor
  BY DEF IInv
<1>2. QED
  BY <1>1, InvariantHolds, PTL

(***************************************************************************)
(* A complete draft without a record always has a message still to come    *)
(* that can seal it: no interleaving of the trySeal calls strands it.      *)
(***************************************************************************)
THEOREM NoDraftIsStranded == Spec => []NoStrandedDraft
<1>1. IInv => NoStrandedDraft
  BY DEF IInv
<1>2. QED
  BY <1>1, InvariantHolds, PTL

(***************************************************************************)
(* markSealed is only reached when the requisition's record is inserted.   *)
(***************************************************************************)
THEOREM SealedDraftsHaveRecords == Spec => []SealedDraftHasRecord
<1>1. IInv => SealedDraftHasRecord
  BY DEF IInv
<1>2. QED
  BY <1>1, InvariantHolds, PTL

(***************************************************************************)
(* apply's two passes are enough for any number of racing upserts.         *)
(***************************************************************************)
THEOREM TwoPassesSuffice == Spec => []ApplyNeverGivesUp
<1>1. IInv => ApplyNeverGivesUp
  BY DEF IInv, ApplyOK, ApplyPass, ApplyNeverGivesUp, MaxApplyAttempts
<1>2. QED
  BY <1>1, InvariantHolds, PTL
=============================================================================
