-------------------------- MODULE TransferInvariant --------------------------
(***************************************************************************)
(* The inductive invariant of TransferPipeline: what a handler of          *)
(* topology-service or compliance-service may rely on at each await, and   *)
(* what a message says of the graph it was published from for as long as   *)
(* it is in the stream.                                                    *)
(***************************************************************************)
EXTENDS TransferPipeline

Created(q) == eventStatus[q] # "NONE"
Received(q, assets) == \A a \in assets : involves[q][a] = "COMPLETED"

(***************************************************************************)
(* A transfer involves nothing before it is created and all it orders      *)
(* afterwards; an edge in transit belongs to a transfer that is open.      *)
(***************************************************************************)
EdgesOK ==
  \A q \in Transfer :
    /\ Involved(q) = IF Created(q) THEN Order[q].assets ELSE {}
    /\ \A a \in Asset : involves[q][a] = "IN_TRANSIT" => eventStatus[q] \in Open

(***************************************************************************)
(* Nobody holds an asset that is not there, and the seed's are.            *)
(***************************************************************************)
AbsentOK ==
  \A a \in Asset : assetStatus[a] = "ABSENT" => a \notin Seeded /\ Custodians(a) = {}

(***************************************************************************)
(* A locked asset is locked by a transfer that is open.                    *)
(***************************************************************************)
LocksAreOpen ==
  \A a \in Asset : assetStatus[a] = "IN_TRANSIT" => RequisitionsOf(a) # {}

GraphInv ==
  /\ GraphTypeOK
  /\ EdgesOK
  /\ AbsentOK
  /\ OneCustodian
  /\ LocksAreOpen

(***************************************************************************)
(* A transfer that is to move the asset: authorised and not created, or    *)
(* created and not received.                                               *)
(***************************************************************************)
Authorised(q, a) ==
  \E d \in drafts : /\ Content[d].kind = "AUTHORIZATION"
                   /\ Content[d].transfer = q
                   /\ a \in Content[d].assets

Pending(q, a) ==
  \/ involves[q][a] = "IN_TRANSIT"
  \/ ~ Created(q) /\ Authorised(q, a)

(***************************************************************************)
(* An asset nobody disturbed is awaited by one transfer at most, whose     *)
(* sender holds it and which keeps it locked.                              *)
(***************************************************************************)
BookingOK ==
  \A a \in Asset \ disturbed : \A q \in Transfer : Pending(q, a) =>
    /\ <<Order[q].sender, a>> \in custody
    /\ involves[q][a] = "IN_TRANSIT" => assetStatus[a] = "IN_TRANSIT"
    /\ \A r \in Transfer : Pending(r, a) => r = q

(***************************************************************************)
(* What the selectors offered stays registered, or involved.               *)
(***************************************************************************)
PaperOK(d) ==
  IF Content[d].kind = "AUTHORIZATION" THEN Content[d].assets \subseteq Existing
                                       ELSE Created(Content[d].transfer)

(***************************************************************************)
(* A message of compliance-service is a paper that was drafted; one of     *)
(* topology-service claims no more than the graph has.                     *)
(***************************************************************************)
MessageOK(c, m) ==
  /\ Content[m.document].transfer = m.transfer
  /\ c \in TopologySubject =>
       /\ m.document \in drafts
       /\ PaperOK(m.document)
       /\ m.assets = Content[m.document].assets
       /\ (c = "initiated") = (Content[m.document].kind = "AUTHORIZATION")
  /\ c \in ComplianceSubject =>
       /\ Created(m.transfer)
       /\ m.assets = Order[m.transfer].assets
  /\ c = "updated" =>
       /\ m.status = "PARTIALLY_COMPLETED"
       /\ eventStatus[m.transfer] # "IN_PROGRESS"
       /\ Content[m.document].kind = "RECEIPT"
       /\ Received(m.transfer, Content[m.document].assets)
  /\ c = "completed" => eventStatus[m.transfer] = "COMPLETED"

(***************************************************************************)
(* A handler of topology-service that goes on has created its transfer;    *)
(* what the update returned still holds when it is published.              *)
(***************************************************************************)
PublishOK(c) ==
  LET q == InHand(c).transfer
  IN  /\ Created(q)
      /\ outcome[c] = "NONE" => c = "initiated"
      /\ outcome[c] = "COMPLETED" => eventStatus[q] = "COMPLETED"
      /\ outcome[c] \notin {"NONE", "COMPLETED"} =>
           /\ c = "received"
           /\ outcome[c] = "PARTIALLY_COMPLETED"
           /\ eventStatus[q] # "IN_PROGRESS"
           /\ Received(q, InHand(c).assets)

HandlerOK(c) ==
  /\ pc[c] # "publish" => outcome[c] = "NONE"
  /\ c \in TopologySubject =>
       /\ pc[c] = "update" => Created(InHand(c).transfer)
       /\ pc[c] = "publish" => PublishOK(c)

IInv ==
  /\ PipelineTypeOK
  /\ GraphInv
  /\ BookingOK
  /\ \A d \in drafts : PaperOK(d)
  /\ \A c \in Subject : \A n \in 1..Len(sent[c]) : MessageOK(c, sent[c][n])
  /\ \A c \in Subject : HandlerOK(c)
  /\ DocumentsFollowTheGraph
  /\ \A d \in Document : signings[d] <= mishaps + 1

-----------------------------------------------------------------------------
(***************************************************************************)
(* What makes the documents catch up.  A transfer's progress is what was   *)
(* received of it.                                                         *)
(***************************************************************************)
IsC2(q) == Order[q].type = "C2_TRANSFER"

ProgressOK ==
  \A q \in Transfer :
    /\ (eventStatus[q] = "COMPLETED") = Received(q, Order[q].assets)
    /\ eventStatus[q] = "IN_PROGRESS" => \A a \in Asset : involves[q][a] # "COMPLETED"

(***************************************************************************)
(* A transfer exists only by an initiated event, which its authorization's *)
(* signature published, after the row was written.                         *)
(***************************************************************************)
SignedFirst ==
  /\ \A q \in Transfer : Created(q) =>
       \E n \in 1..Len(sent["initiated"]) : sent["initiated"][n].transfer = q
  /\ \A n \in 1..Len(sent["initiated"]) : signings[sent["initiated"][n].document] > 0
  /\ \A d \in Document : signings[d] > 0 => status[d] # "NONE"

(***************************************************************************)
(* At least once: what topology-service acked is done in the graph.        *)
(***************************************************************************)
DoneOK(c, m) ==
  /\ c = "initiated" =>
       Created(m.transfer) /\ (IsC2(m.transfer) => eventStatus[m.transfer] = "COMPLETED")
  /\ c = "received" => Received(m.transfer, m.assets)

AckedIsDone == \A c \in TopologySubject : \A n \in acked[c] : DoneOK(c, sent[c][n])

(***************************************************************************)
(* A handler about to publish has news no older than the graph, unless the *)
(* handler of the other subject has them.                                  *)
(***************************************************************************)
NewsOK ==
  /\ pc["initiated"] = "update" => IsC2(InHand("initiated").transfer)
  /\ pc["initiated"] = "publish" /\ IsC2(InHand("initiated").transfer) =>
       outcome["initiated"] = "COMPLETED"
  /\ pc["received"] = "publish" /\ ~IsC2(InHand("received").transfer) =>
       outcome["received"] = eventStatus[InHand("received").transfer]

(***************************************************************************)
(* A message of the transfer that is still to be acked and will bring its  *)
(* documents as far as the graph is now.                                   *)
(***************************************************************************)
Unacked(c, q) ==
  \E n \in 1..Len(sent[c]) : n \notin acked[c] /\ sent[c][n].transfer = q

OnItsWay(q) ==
  \/ (IsC2(q) \/ eventStatus[q] = "IN_PROGRESS") /\ Unacked("initiated", q)
  \/ ~IsC2(q) /\ eventStatus[q] # "IN_PROGRESS" /\ Unacked("received", q)
  \/ eventStatus[q] = "IN_PROGRESS" /\ Unacked("created", q)
  \/ eventStatus[q] # "COMPLETED" /\ Unacked("updated", q)
  \/ Unacked("completed", q)

SignedOnce(d) == Content[d].kind = "AUTHORIZATION" /\ signings[d] = 1

CatchesUp(d) ==
  LET q == Content[d].transfer
  IN  SignedOnce(d) /\ Created(q) =>
        Rank(eventStatus[q]) <= Rank(status[d]) \/ OnItsWay(q)

SettleInv ==
  /\ IInv
  /\ ProgressOK
  /\ SignedFirst
  /\ AckedIsDone
  /\ NewsOK
  /\ \A d \in Document : CatchesUp(d)
-----------------------------------------------------------------------------
(***************************************************************************)
(* What idempotence ADR-003's consumers do have: handling a message again, *)
(* after it was handled and acked, neither takes a transfer back nor marks *)
(* one more asset received, and the MERGE of an authorization changes      *)
(* nothing at all.  (What the update of a receipt does move again is       *)
(* custody: RedeliveryMovesNothing.)                                       *)
(***************************************************************************)
RedeliveryKeepsProgress ==
  [][\A c \in TopologySubject :
       msg[c] \in acked[c] /\ msg'[c] = msg[c] /\ pc'[c] # pc[c] =>
         /\ UNCHANGED <<eventStatus, involves>>
         /\ pc[c] = "create" => UNCHANGED graph]_vars

(***************************************************************************)
(* However created, updated and completed are delivered, a row falls back  *)
(* only when its document is signed again.                                 *)
(***************************************************************************)
RowsNeverFallBack ==
  [][\A d \in Document :
       signings'[d] = signings[d] => Rank(status[d]) <= Rank(status'[d])]_vars

(***************************************************************************)
(* What AuditLedger assumes of its events (PayloadAgreement): two that     *)
(* write one path of a draft, the header of a requisition or the receipt   *)
(* of a document, agree on the requisition and on the assets.              *)
(***************************************************************************)
WriteOnePath(b, m, c, n) ==
  \/ {b, c} \subseteq {"created", "completed"} /\ m.transfer = n.transfer
  \/ b = "received" /\ c = "received" /\ m.document = n.document

EventsAgree ==
  \A b, c \in Subject : \A i \in 1..Len(sent[b]), j \in 1..Len(sent[c]) :
    WriteOnePath(b, sent[b][i], c, sent[c][j]) =>
      /\ sent[b][i].transfer = sent[c][j].transfer
      /\ sent[b][i].assets = sent[c][j].assets
=============================================================================
