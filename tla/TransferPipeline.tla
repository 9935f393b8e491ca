--------------------------- MODULE TransferPipeline ---------------------------
(***************************************************************************)
(* A transfer from its signed authorization to its last receipt: the       *)
(* documents of compliance-service, the graph of topology-service and the  *)
(* five durable consumers between them.  Every repository call and every   *)
(* awaited publication is one step, so handlers interleave, fail and are   *)
(* redelivered exactly where the code awaits.                              *)
(*                                                                         *)
(* A consumer's subject is its name: topology-service takes initiated and  *)
(* received, compliance-service created, updated and completed.            *)
(***************************************************************************)
EXTENDS TopologyGraph, ComplianceDocuments, Sequences

CONSTANTS
  MaxMishaps  \* bound: failed calls, lost acks, crashes, late duplicates
              \* and second signings, taken together

TopologySubject == {"initiated", "received"}
ComplianceSubject == {"created", "updated", "completed"}
Subject == TopologySubject \union ComplianceSubject

ASSUME DocumentType ==
  /\ \A d \in Document :
       /\ Content[d].kind \in {"AUTHORIZATION", "RECEIPT"}
       /\ Content[d].transfer \in Transfer
       /\ Content[d].assets \subseteq Order[Content[d].transfer].assets
       /\ Content[d].assets # {}
       /\ Content[d].kind = "AUTHORIZATION" =>
            Content[d].assets = Order[Content[d].transfer].assets
  /\ MaxMishaps \in Nat

\* A requisition number is made for every authorization that is rendered;
\* only a receipt is rendered for one that is given.
ASSUME OneAuthorization ==
  \A d, e \in Document :
    (/\ Content[d].kind = "AUTHORIZATION" /\ Content[e].kind = "AUTHORIZATION"
     /\ Content[d].transfer = Content[e].transfer) => d = e

VARIABLES
  drafts,   \* documents filled in and rendered, ready to be signed
  signings, \* times each document was signed
  disturbed,\* history, read by properties only: assets promised to a second
            \* transfer before the first was created, or received a second
            \* time after they had moved on
  sent,     \* the two streams, by subject
  acked,    \* by subject, the positions whose ack reached JetStream
  cursor,   \* by subject, the last position delivered for the first time
  pc,       \* by consumer, the handler's next call
  msg,      \* by consumer, the position in hand, 0 for none
  outcome,  \* by consumer, what updateTransferEvent returned
  mishaps   \* counter behind MaxMishaps

browser == <<drafts, signings, disturbed>>
broker == <<sent, acked, cursor>>
vars == <<graph, table, browser, broker, pc, msg, outcome, mishaps>>

Init ==
  /\ GraphInit
  /\ TableInit
  /\ drafts = {}
  /\ signings = [d \in Document |-> 0]
  /\ disturbed = {}
  /\ sent = [c \in Subject |-> << >>]
  /\ acked = [c \in Subject |-> {}]
  /\ cursor = [c \in Subject |-> 0]
  /\ pc = [c \in Subject |-> "idle"]
  /\ msg = [c \in Subject |-> 0]
  /\ outcome = [c \in Subject |-> "NONE"]
  /\ mishaps = 0

Mishap ==
  /\ mishaps < MaxMishaps
  /\ mishaps' = mishaps + 1

-----------------------------------------------------------------------------
(***************************************************************************)
(* The browser: choose assets, render a document, sign it.                 *)
(***************************************************************************)

RegisterAsset(o, a) ==
  /\ CreateAsset(o, a)
  /\ UNCHANGED <<table, browser, broker, pc, msg, outcome, mishaps>>

(***************************************************************************)
(* Mutant: the selector of an authorization offers what is locked as well. *)
(***************************************************************************)
OffersLocked(d) ==
  LET q == Content[d].transfer
  IN  /\ \A a \in Content[d].assets : <<Order[q].sender, a>> \in custody
      /\ Content[d].kind = "RECEIPT" =>
           /\ \A a \in Content[d].assets :
                assetStatus[a] = "IN_TRANSIT" /\ a \in Involved(q)
           /\ \E row \in RowsOf(q) : row \in linked /\ status[row] \in Open

(***************************************************************************)
(* What the selectors offer: for an authorization the sender's assets that *)
(* are not in transit, for a receipt those of the transfer that are, once  *)
(* a row of the requisition is linked and open.  Nothing checks it again   *)
(* when the document is signed.                                            *)
(***************************************************************************)
Offered(d) ==
  LET q == Content[d].transfer
  IN  /\ \A a \in Content[d].assets : <<Order[q].sender, a>> \in custody
      /\ IF Content[d].kind = "AUTHORIZATION"
           THEN \A a \in Content[d].assets : assetStatus[a] = "AVAILABLE"
           ELSE /\ \A a \in Content[d].assets :
                     assetStatus[a] = "IN_TRANSIT" /\ a \in Involved(q)
                /\ \E row \in RowsOf(q) : row \in linked /\ status[row] \in Open

(***************************************************************************)
(* An authorization that lists the asset is out, its transfer not created. *)
(***************************************************************************)
Promised(a) ==
  \E e \in drafts : /\ Content[e].kind = "AUTHORIZATION"
                   /\ a \in Content[e].assets
                   /\ eventStatus[Content[e].transfer] = "NONE"

Draft(d) ==
  /\ d \notin drafts
  /\ Offered(d)
  /\ drafts' = drafts \union {d}
  /\ disturbed' = disturbed \union
       {a \in Content[d].assets : Content[d].kind = "AUTHORIZATION" /\ Promised(a)}
  /\ UNCHANGED <<graph, table, signings, broker, pc, msg, outcome, mishaps>>

Message(q, d, assets, s) ==
  [transfer |-> q, document |-> d, assets |-> assets, status |-> s]

Send(subject, m) == sent' = [sent EXCEPT ![subject] = Append(@, m)]

SubjectOf(d) ==
  IF Content[d].kind = "AUTHORIZATION" THEN "initiated" ELSE "received"

(***************************************************************************)
(* signDocument: the row is written, and the event is handed to JetStream  *)
(* without being awaited.  (When it arrives makes no difference: a message *)
(* may be delivered arbitrarily late.)  A user whose download of the       *)
(* signed PDF failed signs again.                                          *)
(***************************************************************************)
Sign(d) ==
  /\ d \in drafts
  /\ signings' = [signings EXCEPT ![d] = @ + 1]
  /\ Insert(d)
  /\ UNCHANGED <<graph, drafts, disturbed, acked, cursor>>

SignDocument(d) ==
  /\ Sign(d)
  /\ IF signings[d] = 0 THEN UNCHANGED mishaps ELSE Mishap
  /\ Send(SubjectOf(d), Message(Content[d].transfer, d, Content[d].assets, "SIGNED"))
  /\ UNCHANGED <<pc, msg, outcome>>

-----------------------------------------------------------------------------
(***************************************************************************)
(* EventBroker.subscribe: one message at a time per consumer, first in     *)
(* stream order, again as long as it is not acked.                         *)
(***************************************************************************)

Goto(c, label) == pc' = [pc EXCEPT ![c] = label]

Idle(c) ==
  /\ Goto(c, "idle")
  /\ msg' = [msg EXCEPT ![c] = 0]
  /\ outcome' = [outcome EXCEPT ![c] = "NONE"]

FirstCall(c) ==
  CASE c = "initiated" -> "create"
    [] c = "received"  -> "update"
    [] c = "updated"   -> "document"
    [] OTHER           -> "requisition"

Take(c, n) ==
  /\ pc[c] = "idle"
  /\ Goto(c, FirstCall(c))
  /\ msg' = [msg EXCEPT ![c] = n]
  /\ UNCHANGED <<graph, table, browser, sent, acked, outcome>>

Deliver(c) ==
  \E n \in 1..Len(sent[c]) :
    /\ n \notin acked[c]
    /\ n <= cursor[c] + 1
    /\ Take(c, n)
    /\ cursor' = [cursor EXCEPT ![c] = IF n > @ THEN n ELSE @]
    /\ UNCHANGED mishaps

(***************************************************************************)
(* The ack wait ran out while the handler was at work: the copy JetStream  *)
(* sent meanwhile is handled after the first one was acked.                *)
(***************************************************************************)
Redeliver(c) ==
  \E n \in acked[c] :
    /\ Mishap
    /\ Take(c, n)
    /\ UNCHANGED cursor

(***************************************************************************)
(* The last call of a handler returned: the ack is sent at once and not    *)
(* awaited, so it may be lost; or the call took effect but reported an     *)
(* error.  Then the message comes back.                                    *)
(***************************************************************************)
Finish(c) ==
  /\ Idle(c)
  /\ \/ acked' = [acked EXCEPT ![c] = @ \union {msg[c]}] /\ UNCHANGED mishaps
     \/ Mishap /\ UNCHANGED acked

(***************************************************************************)
(* A call throws: the handler ends and the message comes back.  A call     *)
(* that took effect and then reported an error is the call followed by     *)
(* this step.                                                              *)
(***************************************************************************)
HandlerFails(c) ==
  /\ pc[c] # "idle"
  /\ Mishap
  /\ Idle(c)
  /\ UNCHANGED <<graph, table, browser, broker>>

Restart(consumers) ==
  LET reset(f, value) == [c \in Subject |-> IF c \in consumers THEN value ELSE f[c]]
  IN  /\ Mishap
      /\ pc' = reset(pc, "idle")
      /\ msg' = reset(msg, 0)
      /\ outcome' = reset(outcome, "NONE")

(***************************************************************************)
(* topology-service dies and boots: the seed runs again.                   *)
(***************************************************************************)
RestartTopology ==
  /\ Restart(TopologySubject)
  /\ Seed
  /\ UNCHANGED <<table, browser, broker>>

RestartCompliance ==
  /\ Restart(ComplianceSubject)
  /\ UNCHANGED <<graph, table, browser, broker>>

(***************************************************************************)
(* compliance-service dies after the row is written, or the publication is *)
(* rejected, which kills it too (unhandledRejection): the event is lost.   *)
(***************************************************************************)
PublicationLost(d) ==
  /\ Sign(d)
  /\ Restart(ComplianceSubject)
  /\ UNCHANGED sent

-----------------------------------------------------------------------------
(***************************************************************************)
(* topology-service's TransferService.                                     *)
(***************************************************************************)
InHand(c) == sent[c][msg[c]]

Create ==
  LET c == "initiated"  q == InHand(c).transfer
  IN  /\ pc[c] = "create"
      /\ CreateTransferEvent(q)
      /\ Goto(c, IF Order[q].type = "C2_TRANSFER" THEN "update" ELSE "publish")
      /\ UNCHANGED <<table, browser, broker, msg, outcome, mishaps>>

(***************************************************************************)
(* Received by the transfer before, and not where it left it any more.     *)
(***************************************************************************)
MovedOn(q, a) ==
  /\ involves[q][a] = "COMPLETED"
  /\ assetStatus[a] = "IN_TRANSIT" \/ Custodians(a) # {Order[q].receiver}

Update(c) ==
  LET q == InHand(c).transfer  received == InHand(c).assets \intersect Involved(q)
  IN  /\ pc[c] = "update"
      /\ UpdateTransferEvent(q, received)
      /\ outcome' = [outcome EXCEPT ![c] = CalculatedStatus(q, received)]
      /\ Goto(c, "publish")
      /\ disturbed' = disturbed \union {a \in received : MovedOn(q, a)}
      /\ UNCHANGED <<table, drafts, signings, broker, msg, mishaps>>

(***************************************************************************)
(* The update's result decides between completed and updated.  A C2        *)
(* transfer publishes completed, a physical one created.                   *)
(***************************************************************************)
Announcement(c) ==
  CASE outcome[c] = "NONE"                                 -> "created"
    [] c = "received" /\ outcome[c] = "PARTIALLY_COMPLETED" -> "updated"
    [] OTHER                                               -> "completed"

(***************************************************************************)
(* Mutant: the snapshot lists what is still in transit.                    *)
(***************************************************************************)
StillInTransit(q) == {a \in Asset : involves[q][a] = "IN_TRANSIT"}

(***************************************************************************)
(* findTransferEventSnapshot, read just before the publication; the two    *)
(* are one step, for the read changes nothing and a transfer's assets are  *)
(* fixed once it is created.                                               *)
(***************************************************************************)
SnapshotAssets(q) == Involved(q)

PublishTransfer(c) ==
  /\ pc[c] = "publish"
  /\ LET m == InHand(c)
     IN  Send(Announcement(c),
              Message(m.transfer, m.document, SnapshotAssets(m.transfer), outcome[c]))
  /\ Finish(c)
  /\ UNCHANGED <<graph, table, browser, cursor>>

-----------------------------------------------------------------------------
(***************************************************************************)
(* compliance-service's TransferService.                                   *)
(***************************************************************************)
UpdateDocument ==
  LET c == "updated"
  IN  /\ pc[c] = "document"
      /\ UpdateForDocNumber(InHand(c).document, "COMPLETED")
      /\ Goto(c, "requisition")
      /\ UNCHANGED <<graph, browser, broker, msg, outcome, mishaps>>

(***************************************************************************)
(* Mutant: updated spreads the COMPLETED it wrote on the document.         *)
(***************************************************************************)
SpreadsCompleted(c) ==
  IF c = "created" THEN "IN_PROGRESS" ELSE "COMPLETED"

StatusToSet(c) ==
  CASE c = "created"   -> "IN_PROGRESS"
    [] c = "updated"   -> InHand(c).status
    [] c = "completed" -> "COMPLETED"

UpdateRequisition(c) ==
  /\ pc[c] = "requisition"
  /\ UpdateForReqNumber(InHand(c).transfer, StatusToSet(c))
  /\ Finish(c)
  /\ UNCHANGED <<graph, browser, sent, cursor>>

Handle(c) ==
  \/ c = "initiated" /\ Create
  \/ c \in TopologySubject /\ (Update(c) \/ PublishTransfer(c))
  \/ c = "updated" /\ UpdateDocument
  \/ c \in ComplianceSubject /\ UpdateRequisition(c)

(***************************************************************************)
(* Nothing is on its way: the users may stop here.                         *)
(***************************************************************************)
Settled ==
  /\ \A c \in Subject : pc[c] = "idle" /\ acked[c] = 1..Len(sent[c])

Next ==
  \/ \E o \in Organization, a \in Asset : RegisterAsset(o, a)
  \/ \E d \in Document : Draft(d) \/ SignDocument(d) \/ PublicationLost(d)
  \/ \E c \in Subject : Deliver(c) \/ Handle(c) \/ Redeliver(c) \/ HandlerFails(c)
  \/ RestartTopology \/ RestartCompliance
  \/ Settled /\ UNCHANGED vars

Spec == Init /\ [][Next]_vars

-----------------------------------------------------------------------------
(***************************************************************************)
(* Type invariant.                                                         *)
(***************************************************************************)
Label == {"idle", "create", "update", "publish", "document", "requisition"}

Messages == [transfer : Transfer, document : Document,
             assets : SUBSET Asset, status : DocumentStatus]

PipelineTypeOK ==
  /\ GraphTypeOK
  /\ TableTypeOK
  /\ drafts \subseteq Document
  /\ signings \in [Document -> 0..(MaxMishaps + 1)]
  /\ disturbed \subseteq Asset
  /\ sent \in [Subject -> Seq(Messages)]
  /\ cursor \in [Subject -> Nat] /\ acked \in [Subject -> SUBSET Nat]
  /\ pc \in [Subject -> Label] /\ msg \in [Subject -> Nat]
  /\ \A c \in Subject :
       /\ cursor[c] <= Len(sent[c])
       /\ acked[c] \subseteq 1..cursor[c]
       /\ IF pc[c] = "idle" THEN msg[c] = 0 ELSE msg[c] \in 1..cursor[c]
  /\ outcome \in [Subject -> EventStatus]
  /\ mishaps \in 0..MaxMishaps

(***************************************************************************)
(* An asset that is registered has exactly one custodian, however receipts *)
(* and authorizations of one asset interleave or come twice.  Only the     *)
(* assets of the seed may end with two: a boot merges their first          *)
(* custodian back in.                                                      *)
(***************************************************************************)
OneCustodian ==
  \A a \in Existing :
    IF a \in Seeded THEN Custodians(a) # {} ELSE \E o \in Organization : Custodians(a) = {o}

(***************************************************************************)
(* An asset locked IN_TRANSIT is locked by a transfer that is still open   *)
(* and still expects it, so that findAssets names a requisition for it;    *)
(* and that transfer's sender, whose assets are all a receipt is offered,  *)
(* still holds it, so that a receipt can release it.  The second half does *)
(* not hold of an asset that was promised twice or received again after it *)
(* moved on: it may be locked at the wrong holder for ever.                *)
(***************************************************************************)
InTransitCanBeReceived ==
  \A a \in Asset : assetStatus[a] = "IN_TRANSIT" =>
    /\ RequisitionsOf(a) # {}
    /\ a \notin disturbed =>
         \A q \in RequisitionsOf(a) : <<Order[q].sender, a>> \in custody

(***************************************************************************)
(* The network canvas loses no asset: each is held by someone or listed    *)
(* under a transfer that is drawn.                                         *)
(***************************************************************************)
GraphShowsEveryAsset ==
  \A a \in Existing :
    \/ \E c \in CustodyLinks : c[2] = a
    \/ \E q \in ActiveTransfers : a \in Involved(q)

(***************************************************************************)
(* compliance-service never runs ahead of topology-service: an             *)
(* authorization reports no more progress than the transfer made, a        *)
(* receipt is COMPLETED only when its own assets were received.            *)
(***************************************************************************)
DocumentsFollowTheGraph ==
  \A d \in Document :
    LET q == Content[d].transfer
    IN  /\ Content[d].kind = "AUTHORIZATION" /\ Rank(status[d]) > Rank("SIGNED") =>
             Rank(status[d]) <= Rank(eventStatus[q])
        /\ Content[d].kind = "RECEIPT" /\ status[d] = "COMPLETED" =>
             \A a \in Content[d].assets : involves[q][a] = "COMPLETED"

(***************************************************************************)
(* When nothing is on its way any more, the authorization reports exactly  *)
(* what the graph says, in whatever order created, updated and completed   *)
(* were taken, unless it was signed again or its publication was lost.     *)
(***************************************************************************)
SettledDocumentsAgree ==
  Settled =>
    \A d \in Document :
      (/\ Content[d].kind = "AUTHORIZATION"
       /\ signings[d] = 1
       /\ eventStatus[Content[d].transfer] # "NONE") =>
          status[d] = eventStatus[Content[d].transfer]

(***************************************************************************)
(* Every created and completed event of a requisition lists the same       *)
(* assets, those authorised: the ledger's seal gate relies on it           *)
(* (AuditLedger's PayloadAgreement), and the event can be read back long   *)
(* after its assets were received.                                         *)
(***************************************************************************)
HeadersListTheOrder ==
  \A c \in {"created", "completed"} : \A n \in 1..Len(sent[c]) :
    sent[c][n].assets = Order[sent[c][n].transfer].assets

(***************************************************************************)
(* The graph implements the transfers of TransferLifecycle.                *)
(***************************************************************************)
NoOne == "no one"

OneOf(holders) == IF holders = {} THEN NoOne ELSE CHOOSE o \in holders : TRUE

Holder == [a \in Asset \ Seeded |-> OneOf(Custodians(a))]

Delivered == [q \in Transfer |-> {a \in Asset : involves[q][a] = "COMPLETED"}]

Lifecycle == INSTANCE TransferLifecycle
               WITH Tracked <- Asset \ Seeded, holder <- Holder,
                    delivered <- Delivered, progress <- eventStatus

ImplementsLifecycle == Lifecycle!Spec

-----------------------------------------------------------------------------
(***************************************************************************)
(* ADR-003, "consumers implement idempotent processing": handling a        *)
(* message again, after it was handled and acked, moves no asset.          *)
(***************************************************************************)
RedeliveryMovesNothing ==
  [][\A c \in TopologySubject :
       msg[c] \in acked[c] /\ msg'[c] = msg[c] /\ pc'[c] # pc[c] => custody' = custody]_vars
=============================================================================
