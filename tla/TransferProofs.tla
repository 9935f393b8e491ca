---------------------------- MODULE TransferProofs ----------------------------
(***************************************************************************)
(* Proofs about TransferPipeline: its invariants, and that the graph of    *)
(* topology-service implements TransferLifecycle.                          *)
(***************************************************************************)
EXTENDS TransferInvariant, TLAPS

(***************************************************************************)
(* What no query of topology-service takes back.                           *)
(***************************************************************************)
GraphGrows ==
  /\ Existing \subseteq Existing'
  /\ \A q \in Transfer :
       /\ Created(q) => Created(q)'
       /\ eventStatus[q] \notin {"NONE", "IN_PROGRESS"} =>
            eventStatus'[q] \notin {"NONE", "IN_PROGRESS"}
       /\ eventStatus[q] = "COMPLETED" => eventStatus'[q] = "COMPLETED"
       /\ \A a \in Asset : involves[q][a] = "COMPLETED" => involves'[q][a] = "COMPLETED"

LEMMA GraphStutters ==
  ASSUME GraphInv, UNCHANGED graph
  PROVE  GraphInv' /\ GraphGrows
BY DEF graph, GraphInv, GraphTypeOK, EdgesOK, AbsentOK, OneCustodian, LocksAreOpen,
       GraphGrows, Existing, Created, Involved, Custodians, RequisitionsOf, ActiveTransfers

LEMMA RegisterKeepsGraph ==
  ASSUME GraphInv, NEW o \in Organization, NEW a \in Asset, CreateAsset(o, a)
  PROVE  GraphInv' /\ GraphGrows
<1>. USE DEF GraphInv, CreateAsset
<1>1. assetStatus[a] = "ABSENT" /\ a \notin Seeded /\ Custodians(a) = {}
  BY DEF AbsentOK, Existing
<1>2. GraphTypeOK'
  BY DEF GraphTypeOK
<1>3. EdgesOK'
  BY DEF EdgesOK, Involved, Created
<1>4. \A b \in Asset \ {a} : Custodians(b)' = Custodians(b) /\ assetStatus'[b] = assetStatus[b]
  BY DEF Custodians, GraphTypeOK
<1>5. Custodians(a)' = {o} /\ assetStatus'[a] = "AVAILABLE"
  BY <1>1 DEF Custodians, GraphTypeOK
<1>6. AbsentOK'
  BY <1>4, <1>5 DEF AbsentOK
<1>7. OneCustodian'
  BY <1>1, <1>4, <1>5 DEF OneCustodian, Existing
<1>8. LocksAreOpen'
  BY <1>4, <1>5 DEF LocksAreOpen, RequisitionsOf, ActiveTransfers
<1>9. GraphGrows
  BY <1>4, <1>5 DEF GraphGrows, Existing, Created
<1>. QED BY <1>2, <1>3, <1>6, <1>7, <1>8, <1>9

LEMMA SeedKeepsGraph ==
  ASSUME GraphInv, Seed
  PROVE  GraphInv' /\ GraphGrows
<1>. USE DEF GraphInv, Seed
<1>1. GraphTypeOK'
  BY OrderType DEF GraphTypeOK
<1>2. EdgesOK'
  BY DEF EdgesOK, Involved, Created
<1>3. \A b \in Asset : b \notin Seeded => Custodians(b)' = Custodians(b)
  BY DEF Custodians, Seeded
<1>4. \A b \in Asset : Custodians(b) \subseteq Custodians(b)'
  BY DEF Custodians
<1>5. AbsentOK'
  BY <1>3 DEF AbsentOK
<1>6. OneCustodian'
  BY <1>3, <1>4 DEF OneCustodian, Existing
<1>7. LocksAreOpen'
  BY DEF LocksAreOpen, RequisitionsOf, ActiveTransfers
<1>8. GraphGrows
  BY DEF GraphGrows, Existing, Created
<1>. QED BY <1>1, <1>2, <1>5, <1>6, <1>7, <1>8

(***************************************************************************)
(* An authorization, the first time or again, of assets that are           *)
(* registered.                                                             *)
(***************************************************************************)
LEMMA CreateKeepsGraph ==
  ASSUME GraphInv, NEW q \in Transfer, Order[q].assets \subseteq Existing,
         CreateTransferEvent(q)
  PROVE  GraphInv' /\ GraphGrows /\ Created(q)'
<1>. DEFINE newly == {a \in Order[q].assets \intersect Existing : involves[q][a] = "NONE"}
<1>. USE DEF GraphInv
<1>1. /\ eventStatus' = [eventStatus EXCEPT ![q] = IF @ = "NONE" THEN "IN_PROGRESS" ELSE @]
      /\ involves' = [involves EXCEPT
                        ![q] = [a \in Asset |-> IF a \in newly THEN "IN_TRANSIT" ELSE @[a]]]
      /\ assetStatus' = [a \in Asset |-> IF a \in newly THEN "IN_TRANSIT" ELSE assetStatus[a]]
      /\ custody' = custody
  BY DEF CreateTransferEvent
<1>2. newly = IF Created(q) THEN {} ELSE Order[q].assets
  BY DEF EdgesOK, Involved, Existing
<1>3. newly \subseteq Existing
  OBVIOUS
<1>. HIDE DEF newly
<1>4. GraphTypeOK'
  BY <1>1 DEF GraphTypeOK, EventStatus, Open
<1>5. \A r \in Transfer : /\ r # q => eventStatus'[r] = eventStatus[r]
                          /\ r # q => involves'[r] = involves[r]
                          /\ Created(r) => eventStatus'[r] = eventStatus[r]
  BY <1>1 DEF GraphTypeOK, Created
<1>6. ~ Created(q) => eventStatus'[q] = "IN_PROGRESS"
  BY <1>1 DEF GraphTypeOK, Created
<1>7. \A a \in Asset : involves'[q][a] = IF a \in newly THEN "IN_TRANSIT" ELSE involves[q][a]
  BY <1>1 DEF GraphTypeOK
<1>8. Created(q)' /\ Involved(q)' = Order[q].assets
  BY <1>2, <1>5, <1>6, <1>7, OrderType DEF EdgesOK, Involved, Created
<1>9. EdgesOK'
  <2>1. ASSUME NEW r \in Transfer, r # q
        PROVE  (Involved(r) = IF Created(r) THEN Order[r].assets ELSE {})'
    BY <1>5, <2>1 DEF EdgesOK, Involved, Created
  <2>2. ASSUME NEW r \in Transfer, NEW a \in Asset, involves'[r][a] = "IN_TRANSIT"
        PROVE  eventStatus'[r] \in Open
    BY <1>2, <1>5, <1>6, <1>7, <2>2 DEF EdgesOK, Open, Created
  <2>. QED BY <1>8, <2>1, <2>2 DEF EdgesOK
<1>10. AbsentOK'
  BY <1>1, <1>3 DEF AbsentOK, Custodians, Existing
<1>11. Existing' = Existing
  BY <1>1, <1>3 DEF Existing
<1>12. OneCustodian'
  BY <1>1, <1>11 DEF OneCustodian, Custodians
<1>13. LocksAreOpen'
  <2>1. ASSUME NEW a \in Asset, a \in newly
        PROVE  q \in RequisitionsOf(a)'
    BY <1>2, <1>6, <1>7, <2>1 DEF RequisitionsOf, ActiveTransfers, Open
  <2>2. ASSUME NEW a \in Asset, a \notin newly
        PROVE  RequisitionsOf(a) \subseteq RequisitionsOf(a)'
    BY <1>5, <1>7, <2>2 DEF RequisitionsOf, ActiveTransfers, Open, Created
  <2>. QED BY <1>1, <2>1, <2>2 DEF LocksAreOpen
<1>14. GraphGrows
  <2>1. \A r \in Transfer : \A a \in Asset :
          involves[r][a] = "COMPLETED" => involves'[r][a] = "COMPLETED"
    BY <1>2, <1>5, <1>7 DEF EdgesOK, Involved
  <2>. QED BY <1>5, <1>8, <1>11, <2>1 DEF GraphGrows, Created
<1>. QED BY <1>4, <1>8, <1>9, <1>10, <1>12, <1>13, <1>14
(***************************************************************************)
(* A receipt, the first time or again: of the assets received, all         *)
(* involved in a transfer that was created.                                *)
(***************************************************************************)
LEMMA UpdateKeepsGraph ==
  ASSUME GraphInv, NEW q \in Transfer, Created(q), NEW received, received \subseteq Involved(q),
         UpdateTransferEvent(q, received)
  PROVE  /\ GraphInv'
         /\ GraphGrows
         /\ eventStatus'[q] = CalculatedStatus(q, received)
         /\ CalculatedStatus(q, received) \in {"PARTIALLY_COMPLETED", "COMPLETED"}
         /\ \A a \in Asset : involves'[q][a] = IF a \in received THEN "COMPLETED" ELSE involves[q][a]
         /\ \A r \in Transfer \ {q} : involves'[r] = involves[r] /\ eventStatus'[r] = eventStatus[r]
<1>. USE DEF GraphInv
<1>1. /\ \A a \in Asset : involves'[q][a] = IF a \in received THEN "COMPLETED" ELSE involves[q][a]
      /\ \A r \in Transfer \ {q} : involves'[r] = involves[r] /\ eventStatus'[r] = eventStatus[r]
      /\ eventStatus'[q] = CalculatedStatus(q, received)
      /\ CalculatedStatus(q, received) \in {"PARTIALLY_COMPLETED", "COMPLETED"}
  BY DEF UpdateTransferEvent, GraphTypeOK, CalculatedStatus
<1>2. received \subseteq Asset /\ received \subseteq Involved(q)
  BY DEF Involved
<1>3. assetStatus' = [a \in Asset |-> IF a \in received THEN "AVAILABLE" ELSE assetStatus[a]]
  BY DEF UpdateTransferEvent
<1>4. \A a \in Asset : Custodians(a)' = IF a \in received THEN {Order[q].receiver}
                                                        ELSE Custodians(a)
  BY OrderType DEF UpdateTransferEvent, Custodians
<1>5. GraphTypeOK'
  BY <1>2, OrderType DEF GraphTypeOK, UpdateTransferEvent, CalculatedStatus, EventStatus, Open
<1>6. \A r \in Transfer : Involved(r)' = Involved(r)
  BY <1>1, <1>2 DEF Involved
<1>7. \A r \in Transfer : Created(r)' = Created(r)
  BY <1>1 DEF Created
<1>8. ASSUME NEW r \in Transfer, NEW a \in Asset, involves'[r][a] = "IN_TRANSIT"
      PROVE  /\ involves[r][a] = "IN_TRANSIT"
             /\ eventStatus'[r] \in Open
             /\ r = q => a \notin received
  <2>1. CASE r # q
    BY <1>1, <1>8, <2>1 DEF EdgesOK
  <2>2. CASE r = q
    <3>1. a \notin received /\ involves[q][a] = "IN_TRANSIT"
      BY <1>1, <1>8, <2>2
    <3>2. a \in Involved(q)
      BY <3>1 DEF Involved
    <3>3. CalculatedStatus(q, received) = "PARTIALLY_COMPLETED"
      BY <3>1, <3>2 DEF CalculatedStatus
    <3>. QED BY <1>1, <2>2, <3>1, <3>3 DEF Open
  <2>. QED BY <2>1, <2>2
<1>9. EdgesOK'
  BY <1>6, <1>7, <1>8 DEF EdgesOK
<1>10. AbsentOK'
  BY <1>3, <1>4 DEF AbsentOK
<1>11. Existing \subseteq Existing'
  BY <1>3 DEF Existing
<1>12. \A a \in Asset \ received : (a \in Existing') = (a \in Existing)
  BY <1>3 DEF Existing
<1>13. OneCustodian'
  BY <1>4, <1>12, OrderType DEF OneCustodian, Existing
<1>14. LocksAreOpen'
  <2>1. ASSUME NEW a \in Asset, a \notin received
        PROVE  RequisitionsOf(a) \subseteq RequisitionsOf(a)'
    <3>1. ASSUME NEW r \in RequisitionsOf(a)
          PROVE  r \in Transfer /\ involves'[r][a] = "IN_TRANSIT"
      BY <1>1, <2>1 DEF RequisitionsOf, ActiveTransfers
    <3>. QED BY <1>8, <3>1 DEF RequisitionsOf, ActiveTransfers
  <2>. QED BY <1>3, <2>1 DEF LocksAreOpen
<1>15. GraphGrows
  <2>1. \A r \in Transfer : \A a \in Asset :
          involves[r][a] = "COMPLETED" => involves'[r][a] = "COMPLETED"
    BY <1>1
  <2>2. eventStatus[q] = "COMPLETED" => eventStatus'[q] = "COMPLETED"
    <3>1. ASSUME NEW a \in Involved(q), eventStatus[q] = "COMPLETED"
          PROVE  involves[q][a] = "COMPLETED"
      BY <3>1 DEF EdgesOK, Open, Involved, GraphTypeOK
    <3>. QED BY <1>1, <3>1 DEF CalculatedStatus
  <2>. QED BY <1>1, <1>7, <1>11, <2>1, <2>2 DEF GraphGrows
<1>. QED BY <1>1, <1>5, <1>9, <1>10, <1>13, <1>14, <1>15
-----------------------------------------------------------------------------
(***************************************************************************)
(* The pipeline.                                                           *)
(***************************************************************************)

(***************************************************************************)
(* The message in hand is one of the stream, and what it claims holds.     *)
(***************************************************************************)
LEMMA InHandOK ==
  ASSUME IInv, NEW c \in Subject, pc[c] # "idle"
  PROVE  /\ msg[c] \in 1..Len(sent[c])
         /\ InHand(c) \in Messages
         /\ MessageOK(c, InHand(c))
<1>1. msg[c] \in 1..Len(sent[c]) /\ sent[c] \in Seq(Messages)
  BY DEF IInv, PipelineTypeOK
<1>2. InHand(c) \in Messages
  BY <1>1 DEF InHand
<1>3. MessageOK(c, InHand(c))
  BY <1>1 DEF IInv, InHand
<1>. QED BY <1>1, <1>2, <1>3

(***************************************************************************)
(* What the create of an authorization and the update of a receipt find.   *)
(***************************************************************************)
LEMMA CreateStep ==
  ASSUME IInv, Create,
         NEW q, q = InHand("initiated").transfer
  PROVE  /\ GraphInv' /\ GraphGrows
         /\ Created(q)'
         /\ q \in Transfer
<1>1. "initiated" \in Subject /\ "initiated" \in TopologySubject /\ pc["initiated"] # "idle"
  BY DEF Create, Subject, TopologySubject
<1>2. InHand("initiated") \in Messages /\ MessageOK("initiated", InHand("initiated"))
  BY <1>1, InHandOK
<1>3. q \in Transfer /\ InHand("initiated").document \in Document
  BY <1>2 DEF Messages
<1>4. Order[q].assets \subseteq Existing
  BY <1>1, <1>2, <1>3, DocumentType DEF MessageOK, PaperOK
<1>5. CreateTransferEvent(q)
  BY DEF Create
<1>6. GraphInv
  BY DEF IInv
<1>. QED BY <1>3, <1>4, <1>5, <1>6, CreateKeepsGraph

LEMMA UpdateStep ==
  ASSUME IInv, NEW c \in TopologySubject, Update(c),
         NEW q, q = InHand(c).transfer
  PROVE  /\ GraphInv' /\ GraphGrows
         /\ q \in Transfer /\ Created(q)
         /\ InHand(c).assets \subseteq Involved(q)
         /\ outcome'[c] = eventStatus'[q]
         /\ eventStatus'[q] \in {"PARTIALLY_COMPLETED", "COMPLETED"}
         /\ eventStatus'[q] = "PARTIALLY_COMPLETED" => c = "received"
         /\ \A a \in InHand(c).assets : involves'[q][a] = "COMPLETED"
<1>. DEFINE received == InHand(c).assets \intersect Involved(q)
<1>1. c \in Subject /\ pc[c] = "update"
  BY DEF Update, Subject
<1>2. InHand(c) \in Messages /\ MessageOK(c, InHand(c))
  BY <1>1, InHandOK
<1>3. q \in Transfer /\ InHand(c).document \in Document
  BY <1>2 DEF Messages
<1>4. Created(q)
  BY <1>1 DEF IInv, HandlerOK
<1>5. Involved(q) = Order[q].assets
  BY <1>3, <1>4 DEF IInv, GraphInv, EdgesOK
<1>6. InHand(c).assets \subseteq Order[q].assets
  BY <1>2, <1>3, DocumentType DEF MessageOK
<1>7. UpdateTransferEvent(q, received) /\ outcome' = [outcome EXCEPT ![c] = CalculatedStatus(q, received)]
  BY DEF Update
<1>8. received \subseteq Involved(q) /\ GraphInv
  BY DEF IInv
<1>9. /\ GraphInv'
      /\ GraphGrows
      /\ eventStatus'[q] = CalculatedStatus(q, received)
      /\ CalculatedStatus(q, received) \in {"PARTIALLY_COMPLETED", "COMPLETED"}
      /\ \A a \in Asset : involves'[q][a] = IF a \in received THEN "COMPLETED" ELSE involves[q][a]
  BY <1>3, <1>4, <1>7, <1>8, UpdateKeepsGraph
<1>10. received = InHand(c).assets
  BY <1>5, <1>6
<1>11. c # "received" => CalculatedStatus(q, received) = "COMPLETED"
  <2>1. c # "received" => InHand(c).assets = Order[q].assets
    BY <1>2, <1>3, DocumentType DEF MessageOK, TopologySubject
  <2>. QED BY <1>5, <1>10, <2>1 DEF CalculatedStatus
<1>12. outcome'[c] = CalculatedStatus(q, received)
  BY <1>1, <1>7 DEF IInv, PipelineTypeOK
<1>13. InHand(c).assets \subseteq Asset
  BY <1>2 DEF Messages
<1>. QED BY <1>3, <1>4, <1>5, <1>6, <1>9, <1>10, <1>11, <1>12, <1>13

(***************************************************************************)
(* No other step changes the graph.                                        *)
(***************************************************************************)
LEMMA WhoChangesTheGraph ==
  ASSUME [Next]_vars
  PROVE  \/ \E o \in Organization, a \in Asset : RegisterAsset(o, a)
         \/ Create
         \/ \E c \in TopologySubject : Update(c)
         \/ RestartTopology
         \/ UNCHANGED graph
<1>1. ASSUME NEW d \in Document, Draft(d) \/ SignDocument(d) \/ PublicationLost(d)
      PROVE  UNCHANGED graph
  BY <1>1 DEF Draft, SignDocument, PublicationLost, Sign
<1>2. ASSUME NEW c \in Subject,
             \/ Deliver(c) \/ Redeliver(c) \/ HandlerFails(c)
             \/ PublishTransfer(c) \/ UpdateDocument \/ UpdateRequisition(c)
      PROVE  UNCHANGED graph
  BY <1>2 DEF Deliver, Redeliver, Take, HandlerFails, PublishTransfer, UpdateDocument,
              UpdateRequisition
<1>3. RestartCompliance => UNCHANGED graph
  BY DEF RestartCompliance
<1>4. UNCHANGED vars => UNCHANGED graph
  BY DEF vars
<1>. QED BY <1>1, <1>2, <1>3, <1>4 DEF Next, Handle

LEMMA GraphStep ==
  ASSUME IInv, [Next]_vars
  PROVE  GraphInv' /\ GraphGrows
<1>. GraphInv
  BY DEF IInv
<1>1. ASSUME NEW o \in Organization, NEW a \in Asset, RegisterAsset(o, a)
      PROVE  GraphInv' /\ GraphGrows
  BY <1>1, RegisterKeepsGraph DEF RegisterAsset
<1>2. CASE Create
  BY <1>2, CreateStep
<1>3. ASSUME NEW c \in TopologySubject, Update(c)
      PROVE  GraphInv' /\ GraphGrows
  BY <1>3, UpdateStep
<1>4. CASE RestartTopology
  BY <1>4, SeedKeepsGraph DEF RestartTopology
<1>5. CASE UNCHANGED graph
  BY <1>5, GraphStutters
<1>. QED BY <1>1, <1>2, <1>3, <1>4, <1>5, WhoChangesTheGraph

(***************************************************************************)
(* Progress, as the CASE of updateForReqNumber ranks it, is never lost.    *)
(***************************************************************************)
LEMMA RankValues ==
  /\ Rank("NONE") = 0
  /\ Rank("SIGNED") = 1
  /\ Rank("IN_PROGRESS") = 2
  /\ Rank("PARTIALLY_COMPLETED") = 3
  /\ Rank("COMPLETED") = 4
BY DEF Rank

LEMMA RankGrows ==
  ASSUME GraphInv, GraphInv', GraphGrows, NEW q \in Transfer
  PROVE  Rank(eventStatus[q]) <= Rank(eventStatus'[q])
<1>1. eventStatus[q] \in EventStatus /\ eventStatus'[q] \in EventStatus
  BY DEF GraphInv, GraphTypeOK
<1>. QED BY <1>1, RankValues DEF GraphGrows, Created, EventStatus, Open

(***************************************************************************)
(* What papers and messages say of the graph stays true.                   *)
(***************************************************************************)
LEMMA WhoDrafts ==
  ASSUME [Next]_vars
  PROVE  UNCHANGED drafts \/ \E d \in Document : Draft(d)
<1>1. (\E c \in Subject : Handle(c)) => UNCHANGED drafts
  BY DEF Handle, Create, Update, PublishTransfer, UpdateDocument, UpdateRequisition, browser
<1>2. (\E c \in Subject : Deliver(c) \/ Redeliver(c) \/ HandlerFails(c)) => UNCHANGED drafts
  BY DEF Deliver, Redeliver, Take, HandlerFails, browser
<1>3. (\E o \in Organization, a \in Asset : RegisterAsset(o, a)) \/ UNCHANGED vars
        => UNCHANGED drafts
  BY DEF RegisterAsset, vars, browser
<1>4. (\E d \in Document : SignDocument(d) \/ PublicationLost(d)) => UNCHANGED drafts
  BY DEF SignDocument, PublicationLost, Sign
<1>5. RestartTopology \/ RestartCompliance => UNCHANGED drafts
  BY DEF RestartTopology, RestartCompliance, browser
<1>. QED BY <1>1, <1>2, <1>3, <1>4, <1>5 DEF Next

LEMMA DraftsGrow ==
  ASSUME [Next]_vars
  PROVE  drafts \subseteq drafts'
BY WhoDrafts DEF Draft

LEMMA PaperKept ==
  ASSUME GraphGrows, NEW d \in Document, PaperOK(d)
  PROVE  PaperOK(d)'
BY DocumentType DEF GraphGrows, PaperOK

LEMMA MessageKept ==
  ASSUME GraphGrows, drafts \subseteq drafts', NEW c, NEW m \in Messages, MessageOK(c, m)
  PROVE  MessageOK(c, m)'
<1>1. m.transfer \in Transfer /\ m.document \in Document
  BY DEF Messages
<1>2. c \in TopologySubject => m.document \in drafts' /\ PaperOK(m.document)'
  BY <1>1, PaperKept DEF MessageOK
<1>3. c \in ComplianceSubject => Created(m.transfer)'
  BY <1>1 DEF MessageOK, GraphGrows
<1>4. c = "updated" => eventStatus'[m.transfer] # "IN_PROGRESS"
  BY <1>1 DEF MessageOK, GraphGrows, ComplianceSubject, Created
<1>5. c = "updated" => Received(m.transfer, Content[m.document].assets)'
  BY <1>1, DocumentType, OrderType DEF MessageOK, GraphGrows, Received
<1>6. c = "completed" => eventStatus'[m.transfer] = "COMPLETED"
  BY <1>1 DEF MessageOK, GraphGrows
<1>. QED BY <1>2, <1>3, <1>4, <1>5, <1>6 DEF MessageOK

LEMMA SendAppends ==
  ASSUME sent \in [Subject -> Seq(Messages)], NEW s \in Subject, NEW m \in Messages, Send(s, m)
  PROVE  /\ sent' \in [Subject -> Seq(Messages)]
         /\ \A c \in Subject :
              /\ Len(sent[c]) <= Len(sent'[c])
              /\ \A n \in 1..Len(sent[c]) : sent'[c][n] = sent[c][n]
              /\ \A n \in 1..Len(sent'[c]) : n \in 1..Len(sent[c]) \/ (c = s /\ sent'[c][n] = m)
<1>1. sent' = [sent EXCEPT ![s] = Append(sent[s], m)]
  BY DEF Send
<1>2. sent[s] \in Seq(Messages)
  OBVIOUS
<1>3. /\ Append(sent[s], m) \in Seq(Messages)
      /\ Len(Append(sent[s], m)) = Len(sent[s]) + 1
      /\ \A n \in 1..Len(sent[s]) : Append(sent[s], m)[n] = sent[s][n]
      /\ Append(sent[s], m)[Len(sent[s]) + 1] = m
  BY <1>2
<1>4. sent'[s] = Append(sent[s], m) /\ \A c \in Subject \ {s} : sent'[c] = sent[c]
  BY <1>1
<1>5. \A c \in Subject : Len(sent[c]) \in Nat
  OBVIOUS
<1>6. sent' \in [Subject -> Seq(Messages)]
  BY <1>1, <1>3
<1>7. ASSUME NEW c \in Subject
      PROVE  /\ Len(sent[c]) <= Len(sent'[c])
             /\ \A n \in 1..Len(sent[c]) : sent'[c][n] = sent[c][n]
             /\ \A n \in 1..Len(sent'[c]) : n \in 1..Len(sent[c]) \/ (c = s /\ sent'[c][n] = m)
  <2>. Len(sent[c]) \in Nat
    BY <1>5
  <2>1. CASE c = s
    <3>1. Len(sent'[c]) = Len(sent[c]) + 1 /\ sent'[c][Len(sent[c]) + 1] = m
      BY <1>3, <1>4, <2>1
    <3>2. \A n \in 1..Len(sent[c]) : sent'[c][n] = sent[c][n]
      BY <1>3, <1>4, <2>1
    <3>3. ASSUME NEW n \in 1..Len(sent'[c]), n \notin 1..Len(sent[c])
          PROVE  n = Len(sent[c]) + 1
      BY <3>1, <3>3
    <3>. QED BY <2>1, <3>1, <3>2, <3>3
  <2>2. CASE c # s
    <3>1. sent'[c] = sent[c]
      BY <1>4, <2>2
    <3>. QED BY <3>1
  <2>. QED BY <2>1, <2>2
<1>. QED BY <1>6, <1>7

(***************************************************************************)
(* The message a signature publishes.                                      *)
(***************************************************************************)
LEMMA SignedMessageOK ==
  ASSUME NEW d \in Document, d \in drafts, PaperOK(d),
         NEW m, m = Message(Content[d].transfer, d, Content[d].assets, "SIGNED")
  PROVE  m \in Messages /\ MessageOK(SubjectOf(d), m)
<1>1. /\ m.transfer = Content[d].transfer /\ m.document = d
      /\ m.assets = Content[d].assets /\ m.status = "SIGNED"
  BY DEF Message
<1>2. m \in Messages
  BY DocumentType, OrderType DEF Message, Messages, DocumentStatus
<1>3. SubjectOf(d) \in TopologySubject /\ SubjectOf(d) \notin ComplianceSubject
  BY DEF SubjectOf, TopologySubject, ComplianceSubject
<1>. QED BY <1>1, <1>2, <1>3 DEF MessageOK, SubjectOf, ComplianceSubject

(***************************************************************************)
(* The message a handler of topology-service publishes.                    *)
(***************************************************************************)
LEMMA AnnouncementOK ==
  ASSUME IInv, NEW c \in TopologySubject, pc[c] = "publish",
         NEW h, h = InHand(c),
         NEW m, m = Message(h.transfer, h.document, SnapshotAssets(h.transfer), outcome[c])
  PROVE  /\ m \in Messages
         /\ Announcement(c) \in ComplianceSubject
         /\ MessageOK(Announcement(c), m)
<1>1. c \in Subject /\ pc[c] # "idle"
  BY DEF Subject
<1>2. h \in Messages /\ MessageOK(c, h)
  BY <1>1, InHandOK
<1>3. h.transfer \in Transfer /\ h.document \in Document
  BY <1>2 DEF Messages
<1>4. PublishOK(c)
  BY <1>1 DEF IInv, HandlerOK
<1>5. Created(h.transfer) /\ SnapshotAssets(h.transfer) = Order[h.transfer].assets
  BY <1>3, <1>4 DEF PublishOK, SnapshotAssets, IInv, GraphInv, EdgesOK
<1>6. outcome[c] \in EventStatus
  BY <1>1 DEF IInv, PipelineTypeOK
<1>7. /\ m.transfer = h.transfer /\ m.document = h.document
      /\ m.assets = Order[h.transfer].assets /\ m.status = outcome[c]
  BY <1>5 DEF Message
<1>8. m \in Messages
  BY <1>3, <1>5, <1>6, OrderType DEF Message, Messages, EventStatus, DocumentStatus, Open
<1>9. Announcement(c) \in ComplianceSubject /\ Announcement(c) \notin TopologySubject
  BY DEF Announcement, ComplianceSubject, TopologySubject
<1>10. Announcement(c) = "updated" => c = "received" /\ outcome[c] = "PARTIALLY_COMPLETED"
  BY DEF Announcement
<1>11. Announcement(c) = "completed" => eventStatus[h.transfer] = "COMPLETED"
  BY <1>4 DEF Announcement, PublishOK
<1>12. c = "received" => Content[h.document].kind = "RECEIPT"
  BY <1>2, <1>3, DocumentType DEF MessageOK
<1>13. h.assets = Content[h.document].assets /\ Content[h.document].transfer = h.transfer
  BY <1>2 DEF MessageOK
<1>14. Announcement(c) = "updated" =>
         eventStatus[h.transfer] # "IN_PROGRESS" /\ Received(h.transfer, h.assets)
  BY <1>4, <1>10 DEF PublishOK
<1>. QED BY <1>5, <1>7, <1>8, <1>9, <1>10, <1>11, <1>12, <1>13, <1>14 DEF MessageOK

(***************************************************************************)
(* The streams only grow, and what is in them is true.                     *)
(***************************************************************************)
StreamsGrow ==
  /\ sent' \in [Subject -> Seq(Messages)]
  /\ \A c \in Subject :
       /\ Len(sent[c]) <= Len(sent'[c])
       /\ \A n \in 1..Len(sent[c]) : sent'[c][n] = sent[c][n]

LEMMA WhoSends ==
  ASSUME [Next]_vars
  PROVE  \/ \E d \in Document : SignDocument(d)
         \/ \E c \in TopologySubject : PublishTransfer(c)
         \/ UNCHANGED sent
<1>1. (\E o \in Organization, a \in Asset : RegisterAsset(o, a)) => UNCHANGED sent
  BY DEF RegisterAsset, broker
<1>2. (\E d \in Document : Draft(d) \/ PublicationLost(d)) => UNCHANGED sent
  BY DEF Draft, PublicationLost, broker
<1>3. (\E c \in Subject : Deliver(c) \/ Redeliver(c) \/ HandlerFails(c)) => UNCHANGED sent
  BY DEF Deliver, Redeliver, Take, HandlerFails, broker
<1>4. RestartTopology \/ RestartCompliance => UNCHANGED sent
  BY DEF RestartTopology, RestartCompliance, broker
<1>5. ASSUME NEW c \in Subject, Handle(c)
      PROVE  UNCHANGED sent \/ (c \in TopologySubject /\ PublishTransfer(c))
  <2>1. Create \/ Update(c) => UNCHANGED sent
    BY DEF Create, Update, broker
  <2>2. UpdateDocument \/ UpdateRequisition(c) => UNCHANGED sent
    BY DEF UpdateDocument, UpdateRequisition, broker
  <2>. QED BY <1>5, <2>1, <2>2 DEF Handle
<1>6. UNCHANGED vars => UNCHANGED sent
  BY DEF vars, broker
<1>. QED BY <1>1, <1>2, <1>3, <1>4, <1>5, <1>6 DEF Next

LEMMA StreamStep ==
  ASSUME IInv, [Next]_vars
  PROVE  /\ StreamsGrow
         /\ \A c \in Subject : \A n \in 1..Len(sent'[c]) : MessageOK(c, sent[c][n])'
<1>. sent \in [Subject -> Seq(Messages)]
  BY DEF IInv, PipelineTypeOK
<1>1. GraphGrows /\ drafts \subseteq drafts'
  BY GraphStep, DraftsGrow
<1>2. ASSUME NEW c \in Subject, NEW n \in 1..Len(sent[c]), sent'[c][n] = sent[c][n]
      PROVE  MessageOK(c, sent[c][n])'
  <2>1. sent[c][n] \in Messages
    <3>. sent[c] \in Seq(Messages) /\ n \in 1..Len(sent[c])
      OBVIOUS
    <3>. QED OBVIOUS
  <2>2. MessageOK(c, sent[c][n])
    BY DEF IInv
  <2>3. ASSUME NEW m \in Messages, m = sent'[c][n], MessageOK(c, m)
        PROVE  MessageOK(c, sent[c][n])'
    <3>1. MessageOK(c, m)'
      BY <1>1, <2>3, MessageKept
    <3>. QED BY <2>3, <3>1 DEF MessageOK
  <2>. QED BY <1>2, <2>1, <2>2, <2>3
<1>3. ASSUME NEW s \in Subject, NEW m \in Messages, MessageOK(s, m), Send(s, m)
      PROVE  /\ StreamsGrow
             /\ \A c \in Subject : \A n \in 1..Len(sent'[c]) : MessageOK(c, sent[c][n])'
  <2>1. /\ StreamsGrow
        /\ \A c \in Subject : \A n \in 1..Len(sent'[c]) :
             n \in 1..Len(sent[c]) \/ (c = s /\ sent'[c][n] = m)
    BY <1>3, SendAppends DEF StreamsGrow
  <2>2. ASSUME NEW c \in Subject, NEW n \in 1..Len(sent'[c])
        PROVE  MessageOK(c, sent[c][n])'
    <3>1. CASE n \in 1..Len(sent[c])
      BY <1>2, <2>1, <3>1 DEF StreamsGrow
    <3>2. CASE c = s /\ sent'[c][n] = m
      <4>1. MessageOK(s, m)'
        BY <1>1, <1>3, MessageKept
      <4>. QED BY <3>2, <4>1 DEF MessageOK
    <3>. QED BY <2>1, <3>1, <3>2
  <2>. QED BY <2>1, <2>2
<1>4. ASSUME NEW d \in Document, SignDocument(d)
      PROVE  /\ StreamsGrow
             /\ \A c \in Subject : \A n \in 1..Len(sent'[c]) : MessageOK(c, sent[c][n])'
  <2>1. d \in drafts /\ PaperOK(d)
    BY <1>4 DEF SignDocument, Sign, IInv
  <2>2. Send(SubjectOf(d), Message(Content[d].transfer, d, Content[d].assets, "SIGNED"))
    BY <1>4 DEF SignDocument
  <2>3. SubjectOf(d) \in Subject
    BY DEF SubjectOf, Subject, TopologySubject
  <2>. QED BY <1>3, <2>1, <2>2, <2>3, SignedMessageOK
<1>5. ASSUME NEW c \in TopologySubject, PublishTransfer(c)
      PROVE  /\ StreamsGrow
             /\ \A b \in Subject : \A n \in 1..Len(sent'[b]) : MessageOK(b, sent[b][n])'
  <2>. DEFINE h == InHand(c)
              m == Message(h.transfer, h.document, SnapshotAssets(h.transfer), outcome[c])
  <2>1. pc[c] = "publish" /\ Send(Announcement(c), m)
    BY <1>5 DEF PublishTransfer
  <2>2. m \in Messages /\ Announcement(c) \in Subject /\ MessageOK(Announcement(c), m)
    BY <2>1, AnnouncementOK DEF Subject
  <2>. HIDE DEF m
  <2>. QED BY <1>3, <2>1, <2>2
<1>6. CASE UNCHANGED sent
  BY <1>2, <1>6 DEF StreamsGrow
<1>. QED BY <1>4, <1>5, <1>6, WhoSends

(***************************************************************************)
(* What a step may mean to one consumer: its handler stays where it is,    *)
(* ends, begins, or makes one of its calls.                                *)
(***************************************************************************)
Rests(c) == pc'[c] = pc[c] /\ msg'[c] = msg[c] /\ outcome'[c] = outcome[c]
Ends(c) == pc'[c] = "idle" /\ msg'[c] = 0 /\ outcome'[c] = "NONE"
Begins(c) ==
  /\ pc[c] = "idle"
  /\ pc'[c] = FirstCall(c)
  /\ msg'[c] \in 1..Len(sent[c])
  /\ outcome'[c] = outcome[c]

LEMMA WhoMoves ==
  ASSUME IInv, [Next]_vars, NEW c \in Subject
  PROVE  \/ Rests(c) \/ Ends(c) \/ Begins(c)
         \/ c = "initiated" /\ Create
         \/ c \in TopologySubject /\ Update(c)
         \/ c = "updated" /\ UpdateDocument
<1>. /\ pc \in [Subject -> Label]
     /\ msg \in [Subject -> Nat]
     /\ outcome \in [Subject -> EventStatus]
  BY DEF IInv, PipelineTypeOK
<1>. UNCHANGED <<pc, msg, outcome>> => Rests(c)
  BY DEF Rests
<1>1. (\E o \in Organization, a \in Asset : RegisterAsset(o, a)) => Rests(c)
  BY DEF RegisterAsset
<1>2. (\E d \in Document : Draft(d) \/ SignDocument(d)) => Rests(c)
  BY DEF Draft, SignDocument
<1>3. ASSUME NEW consumers, Restart(consumers)
      PROVE  Rests(c) \/ Ends(c)
  BY <1>3 DEF Restart, Rests, Ends
<1>4. (\E d \in Document : PublicationLost(d)) \/ RestartTopology \/ RestartCompliance
        => Rests(c) \/ Ends(c)
  BY <1>3 DEF PublicationLost, RestartTopology, RestartCompliance
<1>5. ASSUME NEW b \in Subject, Idle(b)
      PROVE  Rests(c) \/ Ends(c)
  BY <1>5 DEF Idle, Goto, Rests, Ends
<1>6. ASSUME NEW b \in Subject, HandlerFails(b) \/ PublishTransfer(b) \/ UpdateRequisition(b)
      PROVE  Rests(c) \/ Ends(c)
  BY <1>5, <1>6 DEF HandlerFails, PublishTransfer, UpdateRequisition, Finish
<1>7. ASSUME NEW b \in Subject, NEW n \in 1..Len(sent[b]), Take(b, n)
      PROVE  Rests(c) \/ Begins(c)
  <2>1. CASE b = c
    BY <1>7, <2>1 DEF Take, Goto, Begins
  <2>2. CASE b # c
    BY <1>7, <2>2 DEF Take, Goto, Rests
  <2>. QED BY <2>1, <2>2
<1>8. ASSUME NEW b \in Subject, Deliver(b) \/ Redeliver(b)
      PROVE  Rests(c) \/ Begins(c)
  <2>1. acked[b] \subseteq 1..Len(sent[b])
    BY DEF IInv, PipelineTypeOK
  <2>. QED BY <1>7, <1>8, <2>1 DEF Deliver, Redeliver
<1>9. Create => c = "initiated" \/ Rests(c)
  BY DEF Create, Goto, Rests
<1>10. ASSUME NEW b \in Subject, Update(b)
       PROVE  c = b \/ Rests(c)
  BY <1>10 DEF Update, Goto, Rests
<1>11. UpdateDocument => c = "updated" \/ Rests(c)
  BY DEF UpdateDocument, Goto, Rests
<1>12. UNCHANGED vars => Rests(c)
  BY DEF vars
<1>. QED BY <1>1, <1>2, <1>4, <1>6, <1>8, <1>9, <1>10, <1>11, <1>12 DEF Next, Handle

LEMMA HandlerStep ==
  ASSUME IInv, [Next]_vars, NEW c \in Subject
  PROVE  HandlerOK(c)'
<1>1. GraphGrows /\ StreamsGrow
  BY GraphStep, StreamStep
<1>2. pc[c] # "idle" => /\ msg[c] \in 1..Len(sent[c])
                        /\ InHand(c) \in Messages
                        /\ MessageOK(c, InHand(c))
  BY InHandOK
<1>3. HandlerOK(c) /\ outcome[c] \in EventStatus
  BY DEF IInv, PipelineTypeOK
<1>4. CASE Rests(c)
  <2>1. CASE pc[c] = "idle"
    BY <1>3, <1>4, <2>1 DEF HandlerOK, Rests
  <2>2. CASE pc[c] # "idle"
    <3>1. InHand(c)' = InHand(c) /\ InHand(c).transfer \in Transfer /\ InHand(c).assets \subseteq Asset
      BY <1>1, <1>2, <1>4, <2>2 DEF InHand, StreamsGrow, Rests, Messages
    <3>2. ASSUME NEW h, h = InHand(c), h = InHand(c)', h.transfer \in Transfer, h.assets \subseteq Asset,
                 PublishOK(c)
          PROVE  PublishOK(c)'
      BY <1>1, <1>4, <3>2 DEF PublishOK, GraphGrows, Received, Rests, Created
    <3>3. Created(InHand(c).transfer) => Created(InHand(c).transfer)'
      BY <1>1, <3>1 DEF GraphGrows, Created
    <3>. QED BY <1>3, <1>4, <3>1, <3>2, <3>3 DEF HandlerOK, Rests
  <2>. QED BY <2>1, <2>2
<1>5. CASE Ends(c)
  BY <1>5 DEF Ends, HandlerOK
<1>6. CASE Begins(c)
  <2>1. outcome'[c] = "NONE"
    BY <1>3, <1>6 DEF HandlerOK, Begins
  <2>2. pc'[c] # "publish" /\ (pc'[c] = "update" => c = "received")
    BY <1>6 DEF Begins, FirstCall
  <2>3. ASSUME c = "received"
        PROVE  Created(InHand(c).transfer)'
    <3>1. InHand(c)' = sent[c][msg'[c]]
      BY <1>1, <1>6 DEF Begins, InHand, StreamsGrow
    <3>2. sent[c][msg'[c]] \in Messages /\ MessageOK(c, sent[c][msg'[c]])
      <4>1. sent[c] \in Seq(Messages)
        BY DEF IInv, PipelineTypeOK
      <4>. QED BY <1>6, <4>1 DEF Begins, IInv
    <3>3. ASSUME NEW m \in Messages, m = InHand(c)', MessageOK(c, m)
          PROVE  Created(m.transfer)
      <4>1. m.document \in Document /\ Content[m.document].kind # "AUTHORIZATION"
        BY <2>3, <3>3 DEF MessageOK, TopologySubject, Messages
      <4>. QED BY <2>3, <3>3, <4>1 DEF MessageOK, TopologySubject, PaperOK
    <3>4. ASSUME NEW m \in Messages, m = InHand(c)', MessageOK(c, m)
          PROVE  Created(InHand(c).transfer)'
      BY <1>1, <3>3, <3>4 DEF GraphGrows, Created, Messages
    <3>. QED BY <3>1, <3>2, <3>4
  <2>. QED BY <2>1, <2>2, <2>3 DEF HandlerOK
<1>7. CASE c = "initiated" /\ Create
  <2>1. /\ pc'[c] \in {"update", "publish"}
        /\ outcome'[c] = "NONE"
        /\ InHand(c)' = InHand(c)
    BY <1>3, <1>7 DEF Create, Goto, InHand, broker, HandlerOK, IInv, PipelineTypeOK, Label
  <2>2. Created(InHand(c).transfer)'
    <3>1. ASSUME NEW q, q = InHand(c).transfer
          PROVE  Created(q)'
      BY <1>7, <3>1, CreateStep
    <3>. QED BY <2>1, <3>1 DEF Created
  <2>3. PublishOK(c)'
    BY <1>7, <2>1, <2>2 DEF PublishOK
  <2>. QED BY <2>1, <2>2, <2>3 DEF HandlerOK
<1>8. CASE c \in TopologySubject /\ Update(c)
  <2>1. pc'[c] = "publish" /\ InHand(c)' = InHand(c)
    BY <1>8 DEF Update, Goto, InHand, broker, IInv, PipelineTypeOK
  <2>2. ASSUME NEW h, h = InHand(c)
        PROVE  /\ Created(h.transfer)'
               /\ outcome'[c] = eventStatus'[h.transfer]
               /\ outcome'[c] \in {"PARTIALLY_COMPLETED", "COMPLETED"}
               /\ outcome'[c] = "PARTIALLY_COMPLETED" => c = "received"
               /\ Received(h.transfer, h.assets)'
    BY <1>1, <1>8, <2>2, UpdateStep DEF GraphGrows, Received
  <2>3. PublishOK(c)'
    BY <2>1, <2>2 DEF PublishOK
  <2>. QED BY <2>1, <2>3 DEF HandlerOK
<1>9. CASE c = "updated" /\ UpdateDocument
  BY <1>3, <1>9 DEF UpdateDocument, Goto, HandlerOK, TopologySubject
<1>. QED BY <1>4, <1>5, <1>6, <1>7, <1>8, <1>9, WhoMoves

(***************************************************************************)
(* The browser: a document is drafted from what the selectors offered.     *)
(***************************************************************************)
LEMMA OfferedPaperOK ==
  ASSUME GraphInv, NEW d \in Document, Offered(d)
  PROVE  PaperOK(d)
<1>. DEFINE q == Content[d].transfer
<1>1. q \in Transfer /\ Content[d].assets \subseteq Asset /\ Content[d].assets # {}
  BY DocumentType, OrderType
<1>2. CASE Content[d].kind = "AUTHORIZATION"
  BY <1>1, <1>2 DEF Offered, PaperOK, Existing
<1>3. CASE Content[d].kind # "AUTHORIZATION"
  <2>1. Involved(q) # {}
    BY <1>1, <1>3 DEF Offered
  <2>2. Created(q)
    BY <1>1, <2>1 DEF GraphInv, EdgesOK
  <2>. QED BY <1>3, <2>2 DEF PaperOK
<1>. QED BY <1>2, <1>3

LEMMA WhoDisturbs ==
  ASSUME [Next]_vars
  PROVE  \/ \E d \in Document : Draft(d)
         \/ \E c \in TopologySubject : Update(c)
         \/ UNCHANGED disturbed
<1>1. ASSUME NEW c \in Subject, Handle(c)
      PROVE  UNCHANGED disturbed \/ (c \in TopologySubject /\ Update(c))
  BY <1>1 DEF Handle, Create, PublishTransfer, UpdateDocument, UpdateRequisition, browser
<1>2. (\E c \in Subject : Deliver(c) \/ Redeliver(c) \/ HandlerFails(c)) => UNCHANGED disturbed
  BY DEF Deliver, Redeliver, Take, HandlerFails, browser
<1>3. (\E o \in Organization, a \in Asset : RegisterAsset(o, a)) \/ UNCHANGED vars
        => UNCHANGED disturbed
  BY DEF RegisterAsset, vars, browser
<1>4. (\E d \in Document : SignDocument(d) \/ PublicationLost(d)) => UNCHANGED disturbed
  BY DEF SignDocument, PublicationLost, Sign
<1>5. RestartTopology \/ RestartCompliance => UNCHANGED disturbed
  BY DEF RestartTopology, RestartCompliance, browser
<1>. QED BY <1>1, <1>2, <1>3, <1>4, <1>5 DEF Next

LEMMA BrowserStep ==
  ASSUME IInv, [Next]_vars
  PROVE  /\ drafts' \subseteq Document
         /\ \A d \in drafts' : PaperOK(d)'
         /\ mishaps' \in 0..MaxMishaps
         /\ disturbed' \subseteq Asset
         /\ signings' \in [Document -> 0..(MaxMishaps + 1)]
         /\ \A d \in Document : signings'[d] <= mishaps' + 1
<1>. /\ drafts \subseteq Document
     /\ signings \in [Document -> 0..(MaxMishaps + 1)]
     /\ mishaps \in 0..MaxMishaps
     /\ MaxMishaps \in Nat
     /\ \A d \in Document : signings[d] <= mishaps + 1
  BY DocumentType DEF IInv, PipelineTypeOK
<1>1. ASSUME Mishap
      PROVE  mishaps' = mishaps + 1 /\ mishaps' \in 0..MaxMishaps
  BY <1>1 DEF Mishap
<1>2. ASSUME NEW d \in Document, Sign(d), signings[d] = 0 \/ mishaps' = mishaps + 1,
             mishaps' \in 0..MaxMishaps, mishaps <= mishaps'
      PROVE  /\ drafts' = drafts
             /\ signings' \in [Document -> 0..(MaxMishaps + 1)]
             /\ \A e \in Document : signings'[e] <= mishaps' + 1
  <2>1. signings' = [signings EXCEPT ![d] = signings[d] + 1] /\ drafts' = drafts
    BY <1>2 DEF Sign
  <2>2. signings[d] + 1 \in 0..(mishaps' + 1)
    BY <1>2
  <2>3. \A e \in Document : signings'[e] \in 0..(mishaps' + 1)
    BY <1>2, <2>1, <2>2
  <2>4. DOMAIN signings' = Document /\ signings' = [e \in Document |-> signings'[e]]
    BY <2>1
  <2>. QED BY <1>2, <2>1, <2>3, <2>4
<1>3. ASSUME NEW d \in Document, SignDocument(d)
      PROVE  Sign(d) /\ (signings[d] = 0 \/ mishaps' = mishaps + 1) /\ mishaps' \in 0..MaxMishaps
             /\ mishaps <= mishaps'
  BY <1>1, <1>3 DEF SignDocument
<1>4. ASSUME NEW d \in Document, PublicationLost(d)
      PROVE  Sign(d) /\ mishaps' = mishaps + 1 /\ mishaps' \in 0..MaxMishaps /\ mishaps <= mishaps'
  BY <1>1, <1>4 DEF PublicationLost, Restart
<1>5. \/ \E d \in Document : SignDocument(d) \/ PublicationLost(d)
      \/ UNCHANGED signings /\ (UNCHANGED mishaps \/ Mishap)
  <2>1. (\E o \in Organization, a \in Asset : RegisterAsset(o, a)) => UNCHANGED <<signings, mishaps>>
    BY DEF RegisterAsset, browser
  <2>2. (\E d \in Document : Draft(d)) => UNCHANGED <<signings, mishaps>>
    BY DEF Draft
  <2>3. ASSUME NEW c \in Subject, Deliver(c) \/ Redeliver(c) \/ HandlerFails(c)
        PROVE  UNCHANGED signings /\ (UNCHANGED mishaps \/ Mishap)
    BY <2>3 DEF Deliver, Redeliver, Take, HandlerFails, browser
  <2>4. ASSUME NEW c \in Subject, Handle(c)
        PROVE  UNCHANGED signings /\ (UNCHANGED mishaps \/ Mishap)
    <3>1. Create \/ Update(c) \/ UpdateDocument => UNCHANGED <<signings, mishaps>>
      BY DEF Create, Update, UpdateDocument, browser
    <3>2. PublishTransfer(c) \/ UpdateRequisition(c) =>
            UNCHANGED signings /\ (UNCHANGED mishaps \/ Mishap)
      BY DEF PublishTransfer, UpdateRequisition, Finish, browser
    <3>. QED BY <2>4, <3>1, <3>2 DEF Handle
  <2>5. RestartTopology \/ RestartCompliance => UNCHANGED signings /\ Mishap
    BY DEF RestartTopology, RestartCompliance, Restart, browser
  <2>6. UNCHANGED vars => UNCHANGED <<signings, mishaps>>
    BY DEF vars, browser
  <2>. QED BY <2>1, <2>2, <2>3, <2>4, <2>5, <2>6 DEF Next
<1>6. /\ mishaps' \in 0..MaxMishaps
      /\ signings' \in [Document -> 0..(MaxMishaps + 1)]
      /\ \A d \in Document : signings'[d] <= mishaps' + 1
  <2>1. ASSUME UNCHANGED signings, UNCHANGED mishaps \/ Mishap
        PROVE  /\ mishaps' \in 0..MaxMishaps
               /\ \A d \in Document : signings'[d] <= mishaps' + 1
    <3>1. mishaps' \in 0..MaxMishaps /\ mishaps <= mishaps'
      BY <1>1, <2>1
    <3>2. ASSUME NEW d \in Document
          PROVE  signings[d] <= mishaps' + 1
      <4>1. signings[d] \in 0..(MaxMishaps + 1) /\ signings[d] <= mishaps + 1
        OBVIOUS
      <4>. QED BY <3>1, <4>1
    <3>. QED BY <2>1, <3>1, <3>2
  <2>. QED BY <1>2, <1>3, <1>4, <1>5, <2>1
<1>7. \/ UNCHANGED drafts
      \/ \E d \in Document : Draft(d)
  BY WhoDrafts
<1>8. drafts' \subseteq Document /\ \A d \in drafts' : PaperOK(d)
  BY <1>7, OfferedPaperOK DEF Draft, IInv
<1>9. \A d \in drafts' : PaperOK(d)'
  BY <1>8, GraphStep, PaperKept
<1>10. disturbed' \subseteq Asset
  <2>1. disturbed \subseteq Asset
    BY DEF IInv, PipelineTypeOK
  <2>2. ASSUME NEW d \in Document, Draft(d)
        PROVE  disturbed' \subseteq Asset
    BY <2>1, <2>2, DocumentType, OrderType DEF Draft
  <2>3. ASSUME NEW c \in TopologySubject, Update(c)
        PROVE  disturbed' \subseteq Asset
    BY <2>1, <2>3 DEF Update, Involved
  <2>. QED BY <2>1, <2>2, <2>3, WhoDisturbs
<1>. QED BY <1>6, <1>8, <1>9, <1>10

-----------------------------------------------------------------------------
(***************************************************************************)
(* One transfer per asset.                                                 *)
(***************************************************************************)
(***************************************************************************)
(* A step after which no asset is awaited that was not, and every lock and *)
(* every custody edge a pending transfer needs is still there.             *)
(***************************************************************************)
LEMMA BookingKept ==
  ASSUME BookingOK, NEW a \in Asset \ disturbed,
         \A q \in Transfer : Pending(q, a)' => Pending(q, a),
         \A q \in Transfer : Pending(q, a)' /\ <<Order[q].sender, a>> \in custody
                                => <<Order[q].sender, a>> \in custody',
         \A q \in Transfer : involves'[q][a] = "IN_TRANSIT" =>
           \/ assetStatus'[a] = "IN_TRANSIT"
           \/ involves[q][a] = "IN_TRANSIT" /\ assetStatus'[a] = assetStatus[a]
  PROVE  \A q \in Transfer : Pending(q, a)' =>
           /\ <<Order[q].sender, a>> \in custody'
           /\ involves'[q][a] = "IN_TRANSIT" => assetStatus'[a] = "IN_TRANSIT"
           /\ \A r \in Transfer : Pending(r, a)' => r = q
BY DEF BookingOK

(***************************************************************************)
(* An authorization of an asset that is promised to nobody: the selector   *)
(* has seen it AVAILABLE at its sender.                                    *)
(***************************************************************************)
LEMMA DraftBooks ==
  ASSUME BookingOK, NEW d \in Document, Draft(d)
  PROVE  BookingOK'
<1>1. /\ Offered(d) /\ drafts' = drafts \union {d}
      /\ disturbed' = disturbed \union
           {a \in Content[d].assets : Content[d].kind = "AUTHORIZATION" /\ Promised(a)}
      /\ UNCHANGED <<custody, assetStatus, eventStatus, involves>>
  BY DEF Draft, graph
<1>2. SUFFICES ASSUME NEW a \in Asset \ disturbed'
               PROVE  \A q \in Transfer : Pending(q, a)' =>
                        /\ <<Order[q].sender, a>> \in custody'
                        /\ involves'[q][a] = "IN_TRANSIT" => assetStatus'[a] = "IN_TRANSIT"
                        /\ \A r \in Transfer : Pending(r, a)' => r = q
  BY DEF BookingOK
<1>3. a \in Asset \ disturbed
  BY <1>1
<1>4. CASE Content[d].kind = "AUTHORIZATION" /\ a \in Content[d].assets
  <2>1. ~ Promised(a)
    BY <1>1, <1>2, <1>4
  <2>2. assetStatus[a] = "AVAILABLE" /\ <<Order[Content[d].transfer].sender, a>> \in custody
    BY <1>1, <1>4 DEF Offered
  <2>3. \A q \in Transfer : ~ Pending(q, a)
    BY <1>3, <2>1, <2>2 DEF BookingOK, Pending, Authorised, Created, Promised
  <2>4. \A q \in Transfer : Pending(q, a)' => q = Content[d].transfer /\ involves'[q][a] # "IN_TRANSIT"
    BY <1>1, <2>3 DEF Pending, Authorised, Created
  <2>. QED BY <1>1, <2>2, <2>4
<1>5. CASE ~ (Content[d].kind = "AUTHORIZATION" /\ a \in Content[d].assets)
  <2>1. \A q \in Transfer : Pending(q, a)' => Pending(q, a)
    BY <1>1, <1>5 DEF Pending, Authorised, Created
  <2>. QED BY <1>1, <1>3, <2>1, BookingKept
<1>. QED BY <1>4, <1>5

(***************************************************************************)
(* A transfer that is created was pending by its authorization.            *)
(***************************************************************************)
LEMMA CreateBooks ==
  ASSUME IInv, Create
  PROVE  BookingOK'
<1>. DEFINE q == InHand("initiated").transfer
            e == InHand("initiated").document
<1>1. /\ CreateTransferEvent(q)
      /\ UNCHANGED <<drafts, disturbed>>
  BY DEF Create, browser
<1>2. /\ "initiated" \in Subject /\ "initiated" \in TopologySubject /\ pc["initiated"] # "idle"
  BY DEF Create, Subject, TopologySubject
<1>3. InHand("initiated") \in Messages /\ MessageOK("initiated", InHand("initiated"))
  BY <1>2, InHandOK
<1>4. q \in Transfer /\ e \in drafts /\ e \in Document
      /\ Content[e].kind = "AUTHORIZATION" /\ Content[e].transfer = q
  BY <1>2, <1>3 DEF MessageOK, Messages
<1>5. GraphTypeOK /\ EdgesOK /\ BookingOK
  BY DEF IInv, GraphInv
<1>6. \A a \in Order[q].assets : Authorised(q, a)
  BY <1>4, DocumentType DEF Authorised
<1>. HIDE DEF q, e
<1>7. \A r \in Transfer : Created(r) \/ r = q => Created(r)'
  BY <1>1, <1>5 DEF CreateTransferEvent, GraphTypeOK, Created
<1>8. \A r \in Transfer \ {q} : Created(r)' = Created(r) /\ involves'[r] = involves[r]
  BY <1>1, <1>5 DEF CreateTransferEvent, GraphTypeOK, Created
<1>9. \A a \in Asset : involves'[q][a] = "IN_TRANSIT" =>
        \/ involves[q][a] = "IN_TRANSIT" /\ assetStatus'[a] = assetStatus[a]
        \/ /\ assetStatus'[a] = "IN_TRANSIT"
           /\ a \in Order[q].assets /\ involves[q][a] = "NONE"
  BY <1>1, <1>4, <1>5 DEF CreateTransferEvent, GraphTypeOK
<1>10. \A a \in Order[q].assets : involves[q][a] = "NONE" => ~ Created(q)
  BY <1>4, <1>5, OrderType DEF EdgesOK, Involved
<1>11. \A a \in Asset : \/ assetStatus'[a] = "IN_TRANSIT"
                        \/ assetStatus'[a] = assetStatus[a]
  BY <1>1 DEF CreateTransferEvent
<1>12. custody' = custody
  BY <1>1 DEF CreateTransferEvent
<1>13. ASSUME NEW a \in Asset \ disturbed, NEW r \in Transfer, Pending(r, a)'
       PROVE  Pending(r, a)
  <2>1. CASE r = q
    <3>1. involves'[q][a] = "IN_TRANSIT"
      BY <1>4, <1>7, <1>13, <2>1 DEF Pending
    <3>. QED BY <1>6, <1>9, <1>10, <2>1, <3>1 DEF Pending
  <2>2. CASE r # q
    BY <1>1, <1>8, <1>13, <2>2 DEF Pending, Authorised
  <2>. QED BY <2>1, <2>2
<1>14. ASSUME NEW a \in Asset \ disturbed, NEW r \in Transfer, involves'[r][a] = "IN_TRANSIT"
       PROVE  \/ assetStatus'[a] = "IN_TRANSIT"
              \/ involves[r][a] = "IN_TRANSIT" /\ assetStatus'[a] = assetStatus[a]
  BY <1>8, <1>9, <1>11, <1>14
<1>15. ASSUME NEW a \in Asset \ disturbed
       PROVE  \A r \in Transfer : Pending(r, a)' =>
                /\ <<Order[r].sender, a>> \in custody'
                /\ involves'[r][a] = "IN_TRANSIT" => assetStatus'[a] = "IN_TRANSIT"
                /\ \A s \in Transfer : Pending(s, a)' => s = r
  BY <1>5, <1>12, <1>13, <1>14, BookingKept
<1>. QED BY <1>1, <1>15 DEF BookingOK

(***************************************************************************)
(* What is received ends the only transfer that awaited it, or was         *)
(* received before and is where it was left.                               *)
(***************************************************************************)
LEMMA UpdateBooks ==
  ASSUME IInv, NEW c \in TopologySubject, Update(c)
  PROVE  BookingOK'
<1>. DEFINE q == InHand(c).transfer
            received == InHand(c).assets \intersect Involved(q)
<1>1. /\ UpdateTransferEvent(q, received)
      /\ disturbed' = disturbed \union {a \in received : MovedOn(q, a)}
      /\ UNCHANGED drafts
  BY DEF Update
<1>2. q \in Transfer /\ Created(q)
  BY UpdateStep
<1>3. GraphInv /\ BookingOK
  BY DEF IInv
<1>4. received \subseteq Asset /\ received \subseteq Involved(q)
  BY DEF Involved
<1>. HIDE DEF q, received
<1>5. /\ \A a \in Asset : involves'[q][a] = IF a \in received THEN "COMPLETED" ELSE involves[q][a]
      /\ \A r \in Transfer \ {q} : involves'[r] = involves[r] /\ eventStatus'[r] = eventStatus[r]
      /\ eventStatus'[q] \in {"PARTIALLY_COMPLETED", "COMPLETED"}
  BY <1>1, <1>2, <1>3, <1>4, UpdateKeepsGraph
<1>6. \A r \in Transfer : Created(r)' = Created(r)
  BY <1>2, <1>5 DEF Created
<1>7. assetStatus' = [a \in Asset |-> IF a \in received THEN "AVAILABLE" ELSE assetStatus[a]]
  BY <1>1 DEF UpdateTransferEvent
<1>8. custody' = {k \in custody : k[2] \notin received}
                   \union {<<Order[q].receiver, a>> : a \in received}
  BY <1>1 DEF UpdateTransferEvent
<1>9. SUFFICES ASSUME NEW a \in Asset \ disturbed'
               PROVE  \A r \in Transfer : Pending(r, a)' =>
                        /\ <<Order[r].sender, a>> \in custody'
                        /\ involves'[r][a] = "IN_TRANSIT" => assetStatus'[a] = "IN_TRANSIT"
                        /\ \A s \in Transfer : Pending(s, a)' => s = r
  BY DEF BookingOK
<1>10. a \in Asset \ disturbed /\ (a \in received => ~ MovedOn(q, a))
  BY <1>1, <1>9
<1>11. \A r \in Transfer : Pending(r, a)' => Pending(r, a) /\ ~ (r = q /\ a \in received)
  <2>1. ASSUME NEW r \in Transfer, Pending(r, a)'
        PROVE  Pending(r, a) /\ ~ (r = q /\ a \in received)
    <3>1. CASE r = q
      BY <1>1, <1>2, <1>5, <1>6, <1>10, <2>1, <3>1 DEF Pending, Authorised
    <3>2. CASE r # q
      BY <1>1, <1>5, <1>6, <2>1, <3>2 DEF Pending, Authorised
    <3>. QED BY <3>1, <3>2
  <2>. QED BY <2>1
<1>12. CASE a \notin received
  <2>1. assetStatus'[a] = assetStatus[a]
    BY <1>7, <1>10, <1>12
  <2>2. \A r \in Transfer : <<Order[r].sender, a>> \in custody => <<Order[r].sender, a>> \in custody'
    BY <1>8, <1>12
  <2>3. \A r \in Transfer : involves'[r][a] = "IN_TRANSIT" => involves[r][a] = "IN_TRANSIT"
    BY <1>5, <1>10, <1>12
  <2>. QED BY <1>3, <1>10, <1>11, <2>1, <2>2, <2>3, BookingKept
<1>13. CASE a \in received /\ involves[q][a] = "IN_TRANSIT"
  <2>1. Pending(q, a)
    BY <1>13 DEF Pending
  <2>2. \A r \in Transfer : ~ Pending(r, a)'
    BY <1>2, <1>3, <1>10, <1>11, <1>13, <2>1 DEF BookingOK
  <2>. QED BY <2>2
<1>14. CASE a \in received /\ involves[q][a] # "IN_TRANSIT"
  <2>1. involves[q][a] = "COMPLETED"
    BY <1>2, <1>3, <1>4, <1>10, <1>14 DEF Involved, GraphInv, GraphTypeOK
  <2>2. assetStatus[a] # "IN_TRANSIT" /\ Custodians(a) = {Order[q].receiver}
    BY <1>10, <1>14, <2>1 DEF MovedOn
  <2>3. ASSUME NEW r \in Transfer, Pending(r, a)'
        PROVE  <<Order[r].sender, a>> \in custody' /\ involves'[r][a] # "IN_TRANSIT"
    <3>1. <<Order[r].sender, a>> \in custody /\ involves[r][a] # "IN_TRANSIT"
      BY <1>3, <1>10, <1>11, <2>2, <2>3 DEF BookingOK
    <3>2. Order[r].sender = Order[q].receiver
      BY <2>2, <3>1, OrderType DEF Custodians
    <3>3. <<Order[r].sender, a>> \in custody'
      BY <1>8, <1>14, <3>2
    <3>. QED BY <1>5, <1>10, <3>1, <3>3
  <2>. QED BY <1>3, <1>10, <1>11, <2>3 DEF BookingOK
<1>. QED BY <1>12, <1>13, <1>14

LEMMA BookingStep ==
  ASSUME IInv, [Next]_vars
  PROVE  BookingOK'
<1>. BookingOK /\ GraphInv
  BY DEF IInv
<1>1. ASSUME NEW d \in Document, Draft(d)
      PROVE  BookingOK'
  BY <1>1, DraftBooks
<1>2. CASE Create
  BY <1>2, CreateBooks
<1>3. ASSUME NEW c \in TopologySubject, Update(c)
      PROVE  BookingOK'
  BY <1>3, UpdateBooks
<1>4. ASSUME UNCHANGED <<drafts, disturbed, eventStatus, involves>>, custody \subseteq custody',
             \A a \in Asset : assetStatus[a] = "IN_TRANSIT" => assetStatus'[a] = "IN_TRANSIT"
      PROVE  BookingOK'
  <2>1. \A q \in Transfer : \A a \in Asset : Pending(q, a)' = Pending(q, a)
    BY <1>4 DEF Pending, Authorised, Created
  <2>. QED BY <1>4, <2>1 DEF BookingOK
<1>5. ASSUME NEW o \in Organization, NEW a \in Asset, RegisterAsset(o, a)
      PROVE  BookingOK'
  <2>1. /\ UNCHANGED <<drafts, disturbed, eventStatus, involves>> /\ custody \subseteq custody'
        /\ assetStatus' = [assetStatus EXCEPT ![a] = "AVAILABLE"] /\ assetStatus[a] = "ABSENT"
    BY <1>5 DEF RegisterAsset, CreateAsset, browser, Existing
  <2>2. \A b \in Asset : assetStatus[b] = "IN_TRANSIT" => assetStatus'[b] = "IN_TRANSIT"
    BY <2>1 DEF GraphInv, GraphTypeOK
  <2>. QED BY <1>4, <2>1, <2>2
<1>6. CASE RestartTopology
  BY <1>4, <1>6 DEF RestartTopology, Seed, browser
<1>7. CASE UNCHANGED graph /\ UNCHANGED <<drafts, disturbed>>
  BY <1>4, <1>7 DEF graph
<1>. QED BY <1>1, <1>2, <1>3, <1>5, <1>6, <1>7, WhoChangesTheGraph, WhoDrafts, WhoDisturbs

(***************************************************************************)
(* Every step leaves the rows alone, writes one SIGNED, or applies the     *)
(* message in hand.                                                        *)
(***************************************************************************)
LEMMA WhoWrites ==
  ASSUME [Next]_vars
  PROVE  \/ UNCHANGED table
         \/ \E d \in Document : Insert(d)
         \/ UpdateDocument
         \/ \E c \in ComplianceSubject : UpdateRequisition(c)
<1>1. (\E o \in Organization, a \in Asset : RegisterAsset(o, a)) \/ UNCHANGED vars
         => UNCHANGED table
  BY DEF RegisterAsset, vars, table
<1>2. (\E d \in Document : Draft(d)) => UNCHANGED table
  BY DEF Draft, table
<1>3. ASSUME NEW d \in Document, SignDocument(d) \/ PublicationLost(d)
      PROVE  Insert(d)
  BY <1>3 DEF SignDocument, PublicationLost, Sign
<1>4. (\E c \in Subject : Deliver(c) \/ Redeliver(c) \/ HandlerFails(c)) => UNCHANGED table
  BY DEF Deliver, Redeliver, Take, HandlerFails, table
<1>5. Create \/ (\E c \in Subject : Update(c) \/ PublishTransfer(c)) => UNCHANGED table
  BY DEF Create, Update, PublishTransfer, table
<1>6. RestartTopology \/ RestartCompliance => UNCHANGED table
  BY DEF RestartTopology, RestartCompliance, table
<1>. QED BY <1>1, <1>2, <1>3, <1>4, <1>5, <1>6 DEF Next, Handle

LEMMA DocumentStep ==
  ASSUME IInv, UpdateDocument,
         NEW d, d = InHand("updated").document
  PROVE  /\ d \in Document
         /\ Content[d].kind = "RECEIPT"
         /\ Received(Content[d].transfer, Content[d].assets)
         /\ UpdateForDocNumber(d, "COMPLETED")
<1>1. "updated" \in Subject /\ pc["updated"] # "idle"
  BY DEF UpdateDocument, Subject, ComplianceSubject
<1>2. InHand("updated") \in Messages /\ MessageOK("updated", InHand("updated"))
  BY <1>1, InHandOK
<1>. QED BY <1>2 DEF UpdateDocument, MessageOK, Messages

(***************************************************************************)
(* The status a consumer of compliance-service sets is no news to the      *)
(* graph.                                                                  *)
(***************************************************************************)
LEMMA RequisitionStep ==
  ASSUME IInv, NEW c \in ComplianceSubject, UpdateRequisition(c),
         NEW q, q = InHand(c).transfer, NEW s, s = StatusToSet(c)
  PROVE  /\ q \in Transfer
         /\ s \in {"IN_PROGRESS", "PARTIALLY_COMPLETED", "COMPLETED"}
         /\ Rank(s) <= Rank(eventStatus[q])
         /\ s = "COMPLETED" => eventStatus[q] = "COMPLETED"
         /\ UpdateForReqNumber(q, s)
<1>1. c \in Subject /\ pc[c] # "idle"
  BY DEF UpdateRequisition, Subject
<1>2. InHand(c) \in Messages /\ MessageOK(c, InHand(c))
  BY <1>1, InHandOK
<1>3. q \in Transfer /\ Created(q)
  BY <1>2 DEF MessageOK, Messages
<1>4. eventStatus[q] \in EventStatus \ {"NONE"}
  BY <1>3 DEF IInv, GraphInv, GraphTypeOK, Created
<1>5. UpdateForReqNumber(q, s)
  BY DEF UpdateRequisition
<1>6. CASE c = "created"
  <2>1. s = "IN_PROGRESS"
    BY <1>6 DEF StatusToSet
  <2>. QED BY <1>3, <1>4, <1>5, <2>1, RankValues DEF EventStatus, Open
<1>7. CASE c = "updated"
  <2>1. s = InHand(c).status
    BY <1>7 DEF StatusToSet
  <2>2. s = "PARTIALLY_COMPLETED" /\ eventStatus[q] # "IN_PROGRESS"
    BY <1>2, <1>7, <2>1 DEF MessageOK
  <2>. QED BY <1>3, <1>4, <1>5, <2>2, RankValues DEF EventStatus, Open
<1>8. CASE c = "completed"
  <2>1. s = "COMPLETED"
    BY <1>8 DEF StatusToSet
  <2>2. eventStatus[q] = "COMPLETED"
    BY <1>2, <1>8 DEF MessageOK
  <2>. QED BY <1>3, <1>5, <2>1, <2>2, RankValues
<1>. QED BY <1>6, <1>7, <1>8 DEF ComplianceSubject

LEMMA TableStep ==
  ASSUME IInv, [Next]_vars
  PROVE  TableTypeOK' /\ DocumentsFollowTheGraph'
<1>. /\ TableTypeOK
     /\ status \in [Document -> DocumentStatus]
     /\ GraphInv
  BY DEF IInv, PipelineTypeOK, TableTypeOK
<1>1. GraphInv' /\ GraphGrows
  BY GraphStep
<1>. DEFINE Follows(d, s) ==
              LET q == Content[d].transfer
              IN  /\ Content[d].kind = "AUTHORIZATION" /\ Rank(s) > Rank("SIGNED") =>
                       Rank(s) <= Rank(eventStatus[q])
                  /\ Content[d].kind = "RECEIPT" /\ s = "COMPLETED" =>
                       \A a \in Content[d].assets : involves[q][a] = "COMPLETED"
<1>2. \A d \in Document : Follows(d, status[d])
  BY DEF IInv, DocumentsFollowTheGraph
<1>3. ASSUME NEW d \in Document, NEW s \in DocumentStatus, Follows(d, s)
      PROVE  Follows(d, s)'
  <2>1. Content[d].transfer \in Transfer /\ Content[d].assets \subseteq Asset
    BY DocumentType, OrderType
  <2>2. /\ Rank(s) \in Nat
        /\ Rank(eventStatus[Content[d].transfer]) \in Nat
        /\ Rank(eventStatus'[Content[d].transfer]) \in Nat
    <3>1. \A t \in DocumentStatus : Rank(t) \in Nat
      BY RankValues DEF DocumentStatus
    <3>2. \A e \in [Transfer -> EventStatus] : e[Content[d].transfer] \in DocumentStatus
      BY <2>1 DEF DocumentStatus, EventStatus, Open
    <3>. QED BY <1>1, <3>1, <3>2 DEF GraphInv, GraphTypeOK
  <2>3. Rank(eventStatus[Content[d].transfer]) <= Rank(eventStatus'[Content[d].transfer])
    BY <1>1, <2>1, RankGrows
  <2>4. Content[d].kind = "AUTHORIZATION" /\ Rank(s) > Rank("SIGNED") =>
          Rank(s) <= Rank(eventStatus'[Content[d].transfer])
    BY <1>3, <2>2, <2>3
  <2>5. Content[d].kind = "RECEIPT" /\ s = "COMPLETED" =>
          \A a \in Content[d].assets : involves'[Content[d].transfer][a] = "COMPLETED"
    BY <1>1, <1>3, <2>1 DEF GraphGrows
  <2>. QED BY <2>4, <2>5
<1>4. ASSUME TableTypeOK', \A d \in Document : Follows(d, status'[d])
      PROVE  DocumentsFollowTheGraph'
  <2>1. \A d \in Document : status'[d] \in DocumentStatus
    BY <1>4 DEF TableTypeOK
  <2>2. ASSUME NEW d \in Document, NEW s, s = status'[d]
        PROVE  Follows(d, s)'
    BY <1>3, <1>4, <2>1, <2>2
  <2>. QED BY <2>2 DEF DocumentsFollowTheGraph
<1>5. CASE UNCHANGED table
  <2>1. TableTypeOK' /\ status' = status
    BY <1>5 DEF table, TableTypeOK
  <2>. QED BY <1>2, <1>4, <2>1
<1>6. ASSUME NEW d \in Document, Insert(d)
      PROVE  TableTypeOK' /\ DocumentsFollowTheGraph'
  <2>1. status' = [status EXCEPT ![d] = "SIGNED"]
    BY <1>6 DEF Insert
  <2>2. TableTypeOK'
    BY <1>6, <2>1 DEF Insert, TableTypeOK, DocumentStatus
  <2>3. Follows(d, "SIGNED")
    BY RankValues
  <2>. HIDE DEF Follows
  <2>4. \A e \in Document : Follows(e, status'[e])
    BY <1>2, <2>1, <2>3
  <2>. QED BY <1>4, <2>2, <2>4
<1>7. CASE UpdateDocument
  <2>. DEFINE d == InHand("updated").document
  <2>1. /\ d \in Document
        /\ Content[d].kind = "RECEIPT"
        /\ Received(Content[d].transfer, Content[d].assets)
        /\ UpdateForDocNumber(d, "COMPLETED")
    BY <1>7, DocumentStep
  <2>. HIDE DEF d
  <2>2. Follows(d, "COMPLETED")
    BY <2>1 DEF Received
  <2>3. TableTypeOK'
    BY <2>1 DEF UpdateForDocNumber, TableTypeOK, DocumentStatus
  <2>4. \A e \in Document : status'[e] = status[e] \/ (e = d /\ status'[e] = "COMPLETED")
    BY <2>1 DEF UpdateForDocNumber
  <2>. HIDE DEF Follows
  <2>. QED BY <1>2, <1>4, <2>2, <2>3, <2>4
<1>8. ASSUME NEW c \in ComplianceSubject, UpdateRequisition(c)
      PROVE  TableTypeOK' /\ DocumentsFollowTheGraph'
  <2>. DEFINE q == InHand(c).transfer
              s == StatusToSet(c)
  <2>1. /\ q \in Transfer
        /\ s \in {"IN_PROGRESS", "PARTIALLY_COMPLETED", "COMPLETED"}
        /\ Rank(s) <= Rank(eventStatus[q])
        /\ s = "COMPLETED" => eventStatus[q] = "COMPLETED"
        /\ UpdateForReqNumber(q, s)
    BY <1>8, RequisitionStep
  <2>. HIDE DEF q, s
  <2>2. ASSUME NEW d \in Document, Content[d].transfer = q
        PROVE  Follows(d, s)
    <3>1. s = "COMPLETED" => \A a \in Content[d].assets : involves[q][a] = "COMPLETED"
      <4>1. ASSUME NEW a \in Content[d].assets, s = "COMPLETED"
            PROVE  involves[q][a] = "COMPLETED"
        <5>1. a \in Order[q].assets /\ a \in Asset
          BY <2>1, <2>2, DocumentType, OrderType
        <5>2. Created(q) /\ eventStatus[q] \notin Open
          BY <2>1, <4>1 DEF Created, Open
        <5>3. a \in Involved(q) /\ involves[q][a] # "IN_TRANSIT"
          BY <2>1, <5>1, <5>2 DEF GraphInv, EdgesOK
        <5>4. involves[q][a] \in {"NONE", "IN_TRANSIT", "COMPLETED"}
          BY <2>1, <5>1 DEF GraphInv, GraphTypeOK
        <5>. QED BY <5>3, <5>4 DEF Involved
      <4>. QED BY <4>1
    <3>. QED BY <2>1, <2>2, <3>1
  <2>3. TableTypeOK'
    BY <2>1 DEF UpdateForReqNumber, TableTypeOK, DocumentStatus, RowsOf
  <2>4. \A d \in Document :
          status'[d] = status[d] \/ (Content[d].transfer = q /\ status'[d] = s)
    BY <2>1 DEF UpdateForReqNumber, RowsOf
  <2>. HIDE DEF Follows
  <2>. QED BY <1>2, <1>4, <2>2, <2>3, <2>4
<1>. QED BY <1>5, <1>6, <1>7, <1>8, WhoWrites

(***************************************************************************)
(* The consumers' part of the type invariant.                              *)
(***************************************************************************)
ConsumersOK ==
  /\ cursor \in [Subject -> Nat] /\ acked \in [Subject -> SUBSET Nat]
  /\ pc \in [Subject -> Label] /\ msg \in [Subject -> Nat]
  /\ outcome \in [Subject -> EventStatus]
  /\ \A c \in Subject :
       /\ cursor[c] <= Len(sent[c])
       /\ acked[c] \subseteq 1..cursor[c]
       /\ IF pc[c] = "idle" THEN msg[c] = 0 ELSE msg[c] \in 1..cursor[c]

LEMMA ConsumersStep ==
  ASSUME IInv, [Next]_vars
  PROVE  ConsumersOK'
<1>. /\ sent \in [Subject -> Seq(Messages)]
     /\ cursor \in [Subject -> Nat] /\ acked \in [Subject -> SUBSET Nat]
     /\ pc \in [Subject -> Label] /\ msg \in [Subject -> Nat]
     /\ outcome \in [Subject -> EventStatus]
     /\ \A c \in Subject :
          /\ cursor[c] <= Len(sent[c])
          /\ acked[c] \subseteq 1..cursor[c]
          /\ IF pc[c] = "idle" THEN msg[c] = 0 ELSE msg[c] \in 1..cursor[c]
  BY DEF IInv, PipelineTypeOK
<1>1. /\ sent' \in [Subject -> Seq(Messages)]
      /\ \A c \in Subject : Len(sent[c]) \in Nat /\ Len(sent'[c]) \in Nat
      /\ \A c \in Subject : Len(sent[c]) <= Len(sent'[c])
  BY StreamStep DEF StreamsGrow
<1>2. \A c \in Subject : cursor[c] <= Len(sent'[c])
  BY <1>1
<1>3. ASSUME UNCHANGED <<pc, msg, outcome, acked, cursor>>
      PROVE  ConsumersOK'
  BY <1>2, <1>3 DEF ConsumersOK
<1>4. ASSUME NEW b \in Subject, Deliver(b) \/ Redeliver(b)
      PROVE  ConsumersOK'
  <2>. Len(sent[b]) \in Nat /\ cursor[b] \in Nat /\ cursor[b] <= Len(sent[b])
    BY <1>1
  <2>1. PICK n \in 1..Len(sent[b]) :
          /\ Take(b, n)
          /\ cursor' \in [Subject -> Nat]
          /\ \A c \in Subject \ {b} : cursor'[c] = cursor[c]
          /\ n <= cursor'[b] /\ cursor[b] <= cursor'[b] /\ cursor'[b] <= Len(sent[b])
    <3>1. CASE Deliver(b)
      <4>1. PICK n \in 1..Len(sent[b]) :
              Take(b, n) /\ cursor' = [cursor EXCEPT ![b] = IF n > cursor[b] THEN n ELSE cursor[b]]
        BY <3>1 DEF Deliver
      <4>2. cursor'[b] = IF n > cursor[b] THEN n ELSE cursor[b]
        BY <4>1
      <4>3. n \in Nat /\ n <= Len(sent[b])
        OBVIOUS
      <4>4. cursor' \in [Subject -> Nat]
        BY <4>1, <4>3
      <4>5. n <= cursor'[b] /\ cursor[b] <= cursor'[b] /\ cursor'[b] <= Len(sent[b])
        BY <4>2, <4>3
      <4>. QED BY <4>1, <4>4, <4>5
    <3>2. CASE Redeliver(b)
      <4>1. PICK n \in acked[b] : Take(b, n) /\ cursor' = cursor
        BY <3>2 DEF Redeliver
      <4>2. n \in 1..cursor[b]
        OBVIOUS
      <4>3. n \in 1..Len(sent[b]) /\ n <= cursor[b]
        BY <4>2
      <4>. QED BY <4>1, <4>3
    <3>. QED BY <1>4, <3>1, <3>2
  <2>2. cursor' \in [Subject -> Nat]
    BY <2>1
  <2>3. FirstCall(b) \in Label \ {"idle"}
    BY DEF FirstCall, Label
  <2>4. /\ pc' = [pc EXCEPT ![b] = FirstCall(b)]
        /\ msg' = [msg EXCEPT ![b] = n]
        /\ UNCHANGED <<acked, outcome>>
    BY <2>1 DEF Take, Goto
  <2>5. n \in 1..cursor'[b] /\ cursor[b] <= cursor'[b] /\ cursor'[b] <= Len(sent[b])
    BY <2>1
  <2>6. ASSUME NEW c \in Subject
        PROVE  /\ cursor'[c] <= Len(sent'[c])
               /\ acked'[c] \subseteq 1..cursor'[c]
               /\ IF pc'[c] = "idle" THEN msg'[c] = 0 ELSE msg'[c] \in 1..cursor'[c]
    <3>1. CASE c = b
      BY <1>1, <2>2, <2>3, <2>4, <2>5, <3>1
    <3>2. CASE c # b
      <4>1. cursor'[c] = cursor[c] /\ pc'[c] = pc[c] /\ msg'[c] = msg[c] /\ acked'[c] = acked[c]
        BY <2>1, <2>4, <3>2
      <4>. QED BY <1>2, <4>1
    <3>. QED BY <3>1, <3>2
  <2>. QED BY <2>2, <2>3, <2>4, <2>6 DEF ConsumersOK
<1>5. ASSUME NEW b \in Subject, Idle(b), pc[b] # "idle", UNCHANGED cursor,
             UNCHANGED acked \/ acked' = [acked EXCEPT ![b] = acked[b] \union {msg[b]}]
      PROVE  ConsumersOK'
  <2>1. /\ pc' = [pc EXCEPT ![b] = "idle"] /\ msg' = [msg EXCEPT ![b] = 0]
        /\ outcome' = [outcome EXCEPT ![b] = "NONE"]
    BY <1>5 DEF Idle, Goto
  <2>2. msg[b] \in 1..cursor[b]
    BY <1>5
  <2>3. acked[b] \union {msg[b]} \subseteq 1..cursor[b] /\ acked[b] \union {msg[b]} \in SUBSET Nat
    BY <2>2
  <2>4. acked' \in [Subject -> SUBSET Nat]
    BY <1>5, <2>3
  <2>5. \A c \in Subject : acked'[c] \subseteq 1..cursor[c]
    BY <1>5, <2>3
  <2>6. pc' \in [Subject -> Label] /\ msg' \in [Subject -> Nat] /\ outcome' \in [Subject -> EventStatus]
    BY <2>1 DEF Label, EventStatus
  <2>. QED BY <1>2, <1>5, <2>1, <2>4, <2>5, <2>6 DEF ConsumersOK
<1>6. ASSUME NEW b \in Subject, HandlerFails(b) \/ PublishTransfer(b) \/ UpdateRequisition(b)
      PROVE  ConsumersOK'
  <2>1. /\ Idle(b) /\ pc[b] # "idle" /\ UNCHANGED cursor
        /\ UNCHANGED acked \/ acked' = [acked EXCEPT ![b] = acked[b] \union {msg[b]}]
    BY <1>6 DEF HandlerFails, PublishTransfer, UpdateRequisition, Finish, broker
  <2>. QED BY <1>5, <2>1
<1>7. ASSUME NEW consumers, Restart(consumers), UNCHANGED <<acked, cursor>>
      PROVE  ConsumersOK'
  <2>1. /\ pc' = [c \in Subject |-> IF c \in consumers THEN "idle" ELSE pc[c]]
        /\ msg' = [c \in Subject |-> IF c \in consumers THEN 0 ELSE msg[c]]
        /\ outcome' = [c \in Subject |-> IF c \in consumers THEN "NONE" ELSE outcome[c]]
    BY <1>7 DEF Restart
  <2>2. pc' \in [Subject -> Label] /\ msg' \in [Subject -> Nat] /\ outcome' \in [Subject -> EventStatus]
    BY <2>1 DEF Label, EventStatus
  <2>. QED BY <1>2, <1>7, <2>1, <2>2 DEF ConsumersOK
<1>8. ASSUME NEW b \in Subject, NEW l \in Label \ {"idle"}, pc[b] # "idle", Goto(b, l),
             UNCHANGED <<msg, acked, cursor>>, outcome' \in [Subject -> EventStatus]
      PROVE  ConsumersOK'
  <2>1. pc' = [pc EXCEPT ![b] = l] /\ pc' \in [Subject -> Label]
    BY <1>8 DEF Goto
  <2>. QED BY <1>2, <1>8, <2>1 DEF ConsumersOK
<1>9. CASE Create
  <2>1. \E l \in Label \ {"idle"} : pc["initiated"] # "idle" /\ Goto("initiated", l)
    BY <1>9 DEF Create, Label
  <2>2. UNCHANGED <<msg, acked, cursor, outcome>> /\ "initiated" \in Subject
    BY <1>9 DEF Create, broker, Subject, TopologySubject
  <2>. QED BY <1>8, <2>1, <2>2
<1>10. ASSUME NEW b \in TopologySubject, Update(b)
       PROVE  ConsumersOK'
  <2>1. b \in Subject /\ "publish" \in Label \ {"idle"}
    BY DEF Subject, Label
  <2>2. pc[b] # "idle" /\ Goto(b, "publish") /\ UNCHANGED <<msg, acked, cursor>>
    BY <1>10 DEF Update, broker
  <2>3. outcome' \in [Subject -> EventStatus]
    BY <1>10 DEF Update, CalculatedStatus, EventStatus, Open
  <2>. QED BY <1>8, <2>1, <2>2, <2>3
<1>11. CASE UpdateDocument
  <2>1. "updated" \in Subject /\ "requisition" \in Label \ {"idle"}
    BY DEF Subject, ComplianceSubject, Label
  <2>. QED BY <1>8, <1>11, <2>1 DEF UpdateDocument, broker
<1>12. (\E o \in Organization, a \in Asset : RegisterAsset(o, a)) \/ UNCHANGED vars
         => UNCHANGED <<pc, msg, outcome, acked, cursor>>
  BY DEF RegisterAsset, vars, broker
<1>13. (\E d \in Document : Draft(d) \/ SignDocument(d))
         => UNCHANGED <<pc, msg, outcome, acked, cursor>>
  BY DEF Draft, SignDocument, Sign, broker
<1>14. (\E d \in Document : PublicationLost(d)) \/ RestartTopology \/ RestartCompliance
         => \E consumers \in {TopologySubject, ComplianceSubject} :
              Restart(consumers) /\ UNCHANGED <<acked, cursor>>
  BY DEF PublicationLost, Sign, RestartTopology, RestartCompliance, broker
<1>. QED BY <1>3, <1>4, <1>6, <1>7, <1>9, <1>10, <1>11, <1>12, <1>13, <1>14 DEF Next, Handle

-----------------------------------------------------------------------------
(***************************************************************************)
(* The inductive invariant.                                                *)
(***************************************************************************)
LEMMA InvariantInit ==
  ASSUME Init
  PROVE  IInv
<1>. USE DEF Init, GraphInit, TableInit
<1>1. GraphTypeOK
  BY OrderType DEF GraphTypeOK, EventStatus
<1>2. EdgesOK
  BY DEF EdgesOK, Involved, Created
<1>3. AbsentOK /\ OneCustodian /\ LocksAreOpen
  <2>1. \A a \in Asset : (a \in Seeded) = (Custodians(a) # {})
    <3>1. \A c \in SeedCustody : c = <<c[1], c[2]>> /\ c[1] \in Organization
      BY OrderType
    <3>2. ASSUME NEW a \in Asset, a \in Seeded
          PROVE  Custodians(a) # {}
      <4>1. PICK c \in SeedCustody : c[2] = a
        BY <3>2 DEF Seeded
      <4>2. <<c[1], a>> \in custody /\ c[1] \in Organization
        BY <3>1, <4>1
      <4>. QED BY <4>2 DEF Custodians
    <3>3. ASSUME NEW a \in Asset, NEW o \in Custodians(a)
          PROVE  a \in Seeded
      <4>1. <<o, a>> \in SeedCustody /\ a = <<o, a>>[2]
        BY DEF Custodians
      <4>. QED BY <4>1 DEF Seeded
    <3>. QED BY <3>2, <3>3
  <2>2. Existing = {a \in Asset : a \in Seeded}
    BY DEF Existing
  <2>3. \A a \in Asset : /\ assetStatus[a] = "ABSENT" => a \notin Seeded
                         /\ assetStatus[a] # "IN_TRANSIT"
    OBVIOUS
  <2>. QED BY <2>1, <2>2, <2>3 DEF AbsentOK, OneCustodian, LocksAreOpen
<1>4. TableTypeOK
  BY DEF TableTypeOK, DocumentStatus
<1>5. \A c \in Subject : sent[c] = << >> /\ Len(sent[c]) = 0
  OBVIOUS
<1>6. sent \in [Subject -> Seq(Messages)]
  OBVIOUS
<1>7. ConsumersOK
  BY <1>5 DEF ConsumersOK, Label, EventStatus
<1>8. /\ drafts \subseteq Document
      /\ mishaps \in 0..MaxMishaps
      /\ disturbed \subseteq Asset
      /\ signings \in [Document -> 0..(MaxMishaps + 1)]
      /\ \A d \in Document : signings[d] <= mishaps + 1
  BY DocumentType
<1>9. PipelineTypeOK
  BY <1>1, <1>4, <1>6, <1>7, <1>8 DEF PipelineTypeOK, ConsumersOK
<1>10. \A c \in Subject : HandlerOK(c)
  BY DEF HandlerOK
<1>13. BookingOK
  BY DEF BookingOK, Pending, Authorised
<1>11. DocumentsFollowTheGraph
  BY RankValues DEF DocumentsFollowTheGraph
<1>12. \A c \in Subject : \A n \in 1..Len(sent[c]) : MessageOK(c, sent[c][n])
  BY <1>5
<1>. QED BY <1>1, <1>2, <1>3, <1>8, <1>9, <1>10, <1>11, <1>12, <1>13 DEF IInv, GraphInv

LEMMA InvariantStep ==
  ASSUME IInv, [Next]_vars
  PROVE  IInv'
<1>1. GraphInv' /\ StreamsGrow
  BY GraphStep, StreamStep
<1>2. PipelineTypeOK'
  BY <1>1, TableStep, ConsumersStep, BrowserStep
     DEF PipelineTypeOK, GraphInv, ConsumersOK, StreamsGrow
<1>3. (\A d \in drafts : PaperOK(d))' /\ (\A d \in Document : signings[d] <= mishaps + 1)'
  BY BrowserStep
<1>4. (\A c \in Subject : \A n \in 1..Len(sent[c]) : MessageOK(c, sent[c][n]))'
  BY StreamStep
<1>5. (\A c \in Subject : HandlerOK(c))'
  BY HandlerStep
<1>6. BookingOK'
  BY BookingStep
<1>. QED BY <1>1, <1>2, <1>3, <1>4, <1>5, <1>6, TableStep DEF IInv

THEOREM InvariantHolds == Spec => []IInv
<1>1. Init => IInv
  BY InvariantInit
<1>2. IInv /\ [Next]_vars => IInv'
  BY InvariantStep
<1>. QED BY <1>1, <1>2, PTL DEF Spec

(***************************************************************************)
(* TransferPipeline is type correct.                                       *)
(***************************************************************************)
THEOREM PipelineTypeCorrect == Spec => []PipelineTypeOK
BY InvariantHolds, PTL DEF IInv

(***************************************************************************)
(* However authorizations and receipts interleave, fail and are            *)
(* redelivered, a registered asset has one custodian.                      *)
(***************************************************************************)
THEOREM CustodyIsUnique == Spec => []OneCustodian
BY InvariantHolds, PTL DEF IInv, GraphInv

(***************************************************************************)
(* A locked asset is named by an open transfer; and unless it was promised *)
(* twice or received again after it had moved on, the sender of that       *)
(* transfer still holds it, so that a receipt can release it.              *)
(***************************************************************************)
THEOREM LocksCanBeReleased == Spec => []InTransitCanBeReceived
<1>1. ASSUME IInv
      PROVE  InTransitCanBeReceived
  <2>1. \A a \in Asset : assetStatus[a] = "IN_TRANSIT" => RequisitionsOf(a) # {}
    BY <1>1 DEF IInv, GraphInv, LocksAreOpen
  <2>2. ASSUME NEW a \in Asset \ disturbed, NEW q \in RequisitionsOf(a)
        PROVE  <<Order[q].sender, a>> \in custody
    BY <1>1, <2>2 DEF IInv, BookingOK, Pending, RequisitionsOf, ActiveTransfers
  <2>. QED BY <2>1, <2>2 DEF InTransitCanBeReceived
<1>. QED BY <1>1, InvariantHolds, PTL

(***************************************************************************)
(* The network canvas loses no asset.                                      *)
(***************************************************************************)
THEOREM CanvasIsComplete == Spec => []GraphShowsEveryAsset
<1>1. IInv => GraphShowsEveryAsset
  <2>. SUFFICES ASSUME GraphInv, NEW a \in Existing,
                       \A q \in ActiveTransfers : a \notin Involved(q)
                PROVE  \E c \in CustodyLinks : c[2] = a
    BY DEF IInv, GraphShowsEveryAsset
  <2>1. a \in Asset
    BY DEF Existing
  <2>2. \A q \in Transfer : involves[q][a] # "IN_TRANSIT"
    BY <2>1 DEF GraphInv, EdgesOK, ActiveTransfers, Involved
  <2>3. PICK o \in Organization : <<o, a>> \in custody
    BY DEF GraphInv, OneCustodian, Custodians
  <2>4. <<o, a>> \in CustodyLinks
    BY <2>2, <2>3 DEF CustodyLinks
  <2>. QED BY <2>4
<1>. QED BY <1>1, InvariantHolds, PTL

(***************************************************************************)
(* compliance-service never runs ahead of topology-service.                *)
(***************************************************************************)
THEOREM DocumentsNeverRunAhead == Spec => []DocumentsFollowTheGraph
BY InvariantHolds, PTL DEF IInv

(***************************************************************************)
(* Every created and completed event lists the assets authorised.          *)
(***************************************************************************)
THEOREM HeadersAgree == Spec => []HeadersListTheOrder
<1>1. IInv => HeadersListTheOrder
  <2>. SUFFICES ASSUME IInv, NEW c \in {"created", "completed"}, NEW n \in 1..Len(sent[c])
                PROVE  sent[c][n].assets = Order[sent[c][n].transfer].assets
    BY DEF HeadersListTheOrder
  <2>1. c \in Subject /\ c \in ComplianceSubject
    BY DEF Subject, ComplianceSubject
  <2>2. MessageOK(c, sent[c][n])
    BY <2>1 DEF IInv
  <2>. QED BY <2>1, <2>2 DEF MessageOK
<1>. QED BY <1>1, InvariantHolds, PTL

-----------------------------------------------------------------------------
(***************************************************************************)
(* The refinement.                                                         *)
(***************************************************************************)
LEMMA OneHolder ==
  ASSUME NEW o
  PROVE  OneOf({o}) = o
BY DEF OneOf

LEMMA HolderOf ==
  ASSUME NEW a \in Asset \ Seeded
  PROVE  Holder[a] = OneOf(Custodians(a)) /\ Holder'[a] = OneOf(Custodians(a)')
<1>1. Holder' = [b \in Asset \ Seeded |-> OneOf(Custodians(b)')]
  BY DEF Holder, Seeded, OneOf
<1>. QED BY <1>1 DEF Holder

LEMMA RefinesInit ==
  ASSUME Init
  PROVE  Lifecycle!Init
<1>1. \A a \in Asset \ Seeded : Custodians(a) = {}
  <2>1. ASSUME NEW a \in Asset, NEW o \in Custodians(a)
        PROVE  a \in Seeded
    <3>1. <<o, a>> \in SeedCustody /\ a = <<o, a>>[2]
      BY DEF Custodians, Init, GraphInit
    <3>. QED BY <3>1 DEF Seeded
  <2>. QED BY <2>1
<1>2. Holder = [a \in Asset \ Seeded |-> NoOne]
  BY <1>1 DEF Holder, OneOf
<1>3. Delivered = [q \in Transfer |-> {}]
  BY DEF Delivered, Init, GraphInit
<1>. QED BY <1>2, <1>3 DEF Lifecycle!Init, Init, GraphInit

(***************************************************************************)
(* A step that leaves custody and the edges alone moves nothing.           *)
(***************************************************************************)
LEMMA RefinesStutter ==
  ASSUME \A a \in Asset \ Seeded : Custodians(a)' = Custodians(a),
         \A q \in Transfer : \A a \in Asset :
           (involves'[q][a] = "COMPLETED") = (involves[q][a] = "COMPLETED")
  PROVE  UNCHANGED <<Holder, Delivered>>
<1>1. Holder' = [a \in Asset \ Seeded |-> OneOf(Custodians(a)')]
  BY DEF Holder, Seeded, OneOf
<1>2. Holder' = Holder
  BY <1>1 DEF Holder
<1>3. \A q \in Transfer : {a \in Asset : involves'[q][a] = "COMPLETED"}
                            = {a \in Asset : involves[q][a] = "COMPLETED"}
  OBVIOUS
<1>4. Delivered' = Delivered
  BY <1>3 DEF Delivered
<1>. QED BY <1>2, <1>4

LEMMA RefinesRegister ==
  ASSUME IInv, NEW o \in Organization, NEW a \in Asset, RegisterAsset(o, a)
  PROVE  a \in Asset \ Seeded /\ Lifecycle!Register(a, o)
<1>1. /\ custody' = custody \union {<<o, a>>}
      /\ UNCHANGED <<eventStatus, involves>>
      /\ a \notin Existing
  BY DEF RegisterAsset, CreateAsset
<1>2. a \notin Seeded /\ Custodians(a) = {}
  BY <1>1 DEF IInv, GraphInv, AbsentOK, Existing
<1>3. Custodians(a)' = {o} /\ \A b \in Asset \ {a} : Custodians(b)' = Custodians(b)
  BY <1>1, <1>2 DEF Custodians
<1>4. Holder[a] = NoOne
  BY <1>2 DEF Holder, OneOf
<1>5. \A b \in Asset \ Seeded : Holder'[b] = IF b = a THEN o ELSE Holder[b]
  BY <1>2, <1>3, HolderOf, OneHolder
<1>6. Holder' = [Holder EXCEPT ![a] = o]
  <2>1. Holder' = [b \in Asset \ Seeded |-> Holder'[b]]
    BY DEF Holder, Seeded
  <2>2. Holder = [b \in Asset \ Seeded |-> Holder[b]]
    BY DEF Holder
  <2>. QED BY <1>2, <1>5, <2>1, <2>2
<1>7. Delivered' = Delivered
  BY <1>1 DEF Delivered
<1>. QED BY <1>1, <1>2, <1>4, <1>6, <1>7 DEF Lifecycle!Register

(***************************************************************************)
(* The first authorization starts the transfer, another changes nothing.   *)
(***************************************************************************)
LEMMA RefinesCreate ==
  ASSUME IInv, Create
  PROVE  (\E q \in Transfer : Lifecycle!Start(q)) \/ UNCHANGED Lifecycle!vars
<1>1. PICK q \in Transfer : CreateTransferEvent(q)
  BY CreateStep DEF Create
<1>2. GraphTypeOK /\ EdgesOK
  BY DEF IInv, GraphInv
<1>3. /\ custody' = custody
      /\ eventStatus' = [eventStatus EXCEPT ![q] = IF @ = "NONE" THEN "IN_PROGRESS" ELSE @]
      /\ \A r \in Transfer : \A a \in Asset :
           involves'[r][a] = involves[r][a]
             \/ (involves[r][a] = "NONE" /\ involves'[r][a] = "IN_TRANSIT")
  BY <1>1, <1>2 DEF CreateTransferEvent, GraphTypeOK
<1>4. UNCHANGED <<Holder, Delivered>>
  BY <1>3, RefinesStutter DEF Custodians
<1>5. CASE eventStatus[q] = "NONE"
  BY <1>3, <1>4, <1>5 DEF Lifecycle!Start
<1>6. CASE eventStatus[q] # "NONE"
  <2>1. eventStatus' = eventStatus
    BY <1>2, <1>3, <1>6 DEF GraphTypeOK
  <2>. QED BY <1>4, <2>1 DEF Lifecycle!vars
<1>. QED BY <1>5, <1>6

(***************************************************************************)
(* A receipt, or the authorization of a transfer of control, delivers.     *)
(***************************************************************************)
LEMMA RefinesUpdate ==
  ASSUME IInv, NEW c \in TopologySubject, Update(c)
  PROVE  \E q \in Transfer : \E received \in SUBSET Order[q].assets :
           Lifecycle!Deliver(q, received)
<1>. DEFINE q == InHand(c).transfer
            received == InHand(c).assets
<1>1. /\ q \in Transfer /\ Created(q)
      /\ received \subseteq Involved(q)
      /\ eventStatus'[q] \in {"PARTIALLY_COMPLETED", "COMPLETED"}
  BY UpdateStep
<1>2. received # {} /\ received = received \intersect Involved(q)
  <2>1. c \in Subject /\ pc[c] # "idle"
    BY DEF Update, Subject
  <2>2. InHand(c) \in Messages /\ MessageOK(c, InHand(c))
    BY <2>1, InHandOK
  <2>. QED BY <1>1, <2>2, DocumentType DEF MessageOK, Messages
<1>3. UpdateTransferEvent(q, received)
  BY <1>2 DEF Update
<1>. HIDE DEF q, received
<1>4. Involved(q) = Order[q].assets /\ received \subseteq Asset /\ GraphTypeOK
  BY <1>1 DEF IInv, GraphInv, EdgesOK, Involved
<1>5. /\ eventStatus' = [eventStatus EXCEPT ![q] = CalculatedStatus(q, received)]
      /\ \A a \in Asset : Custodians(a)' = IF a \in received THEN {Order[q].receiver}
                                                             ELSE Custodians(a)
      /\ \A r \in Transfer : \A a \in Asset :
           involves'[r][a] = IF r = q /\ a \in received THEN "COMPLETED" ELSE involves[r][a]
  <2>1. \A a \in Asset : Custodians(a)' = IF a \in received THEN {Order[q].receiver}
                                                            ELSE Custodians(a)
    BY <1>1, <1>3, OrderType DEF UpdateTransferEvent, Custodians
  <2>2. \A r \in Transfer : \A a \in Asset :
          involves'[r][a] = IF r = q /\ a \in received THEN "COMPLETED" ELSE involves[r][a]
    BY <1>1, <1>3, <1>4 DEF UpdateTransferEvent, GraphTypeOK
  <2>. QED BY <1>3, <2>1, <2>2 DEF UpdateTransferEvent
<1>6. /\ Delivered' = [Delivered EXCEPT ![q] = Delivered[q] \union received]
      /\ Delivered'[q] = {a \in Asset : a \in received \/ involves[q][a] = "COMPLETED"}
  <2>1. ASSUME NEW r \in Transfer
        PROVE  {a \in Asset : involves'[r][a] = "COMPLETED"}
                 = IF r = q THEN Delivered[r] \union received ELSE Delivered[r]
    BY <1>4, <1>5 DEF Delivered
  <2>2. Delivered' = [r \in Transfer |-> {a \in Asset : involves'[r][a] = "COMPLETED"}]
    BY DEF Delivered
  <2>3. Delivered = [r \in Transfer |-> Delivered[r]]
    BY DEF Delivered
  <2>4. Delivered' = [Delivered EXCEPT ![q] = Delivered[q] \union received]
    BY <2>1, <2>2, <2>3
  <2>5. Delivered'[q] = {a \in Asset : a \in received \/ involves[q][a] = "COMPLETED"}
    BY <1>1, <1>5, <2>2
  <2>. QED BY <2>4, <2>5
<1>7. CalculatedStatus(q, received)
        = IF Delivered'[q] = Order[q].assets THEN "COMPLETED" ELSE "PARTIALLY_COMPLETED"
  <2>1. Delivered'[q] \subseteq Involved(q)
    BY <1>1, <1>6 DEF Involved
  <2>2. (Delivered'[q] = Involved(q)) =
          (\A a \in Involved(q) \ received : involves[q][a] = "COMPLETED")
    BY <1>6, <2>1 DEF Involved
  <2>. QED BY <1>4, <2>2 DEF CalculatedStatus
<1>8. Holder' = [a \in Asset \ Seeded |-> IF a \in received THEN Order[q].receiver ELSE Holder[a]]
  <2>1. \A a \in Asset \ Seeded :
          Holder'[a] = IF a \in received THEN Order[q].receiver ELSE Holder[a]
    BY <1>5, HolderOf, OneHolder
  <2>2. Holder' = [a \in Asset \ Seeded |-> Holder'[a]]
    BY DEF Holder, Seeded
  <2>. QED BY <2>1, <2>2
<1>9. Lifecycle!Deliver(q, received)
  BY <1>1, <1>2, <1>5, <1>6, <1>7, <1>8 DEF Lifecycle!Deliver, Created
<1>. QED BY <1>1, <1>4, <1>9

(***************************************************************************)
(* topology-service keeps the promises of TransferLifecycle.               *)
(***************************************************************************)
THEOREM GraphImplementsLifecycle == Spec => ImplementsLifecycle
<1>1. ASSUME IInv, [Next]_vars
      PROVE  [Lifecycle!Next]_(Lifecycle!vars)
  <2>1. ASSUME NEW o \in Organization, NEW a \in Asset, RegisterAsset(o, a)
        PROVE  Lifecycle!Next
    BY <1>1, <2>1, RefinesRegister DEF Lifecycle!Next
  <2>2. Create => Lifecycle!Next \/ UNCHANGED Lifecycle!vars
    BY <1>1, RefinesCreate DEF Lifecycle!Next
  <2>3. ASSUME NEW c \in TopologySubject, Update(c)
        PROVE  Lifecycle!Next
    BY <1>1, <2>3, RefinesUpdate DEF Lifecycle!Next
  <2>4. ASSUME RestartTopology
        PROVE  UNCHANGED Lifecycle!vars
    <3>1. Seed
      BY <2>4 DEF RestartTopology
    <3>2. \A a \in Asset \ Seeded : Custodians(a)' = Custodians(a)
      BY <3>1 DEF Seed, Custodians, Seeded
    <3>3. UNCHANGED <<Holder, Delivered>>
      BY <3>1, <3>2, RefinesStutter DEF Seed
    <3>. QED BY <3>1, <3>3 DEF Seed, Lifecycle!vars
  <2>5. ASSUME UNCHANGED graph
        PROVE  UNCHANGED Lifecycle!vars
    <3>1. UNCHANGED <<Holder, Delivered>>
      BY <2>5, RefinesStutter DEF graph, Custodians
    <3>. QED BY <2>5, <3>1 DEF graph, Lifecycle!vars
  <2>. QED BY <1>1, <2>1, <2>2, <2>3, <2>4, <2>5, WhoChangesTheGraph
<1>2. Init => Lifecycle!Init
  BY RefinesInit
<1>. QED BY <1>1, <1>2, InvariantHolds, PTL DEF Spec, ImplementsLifecycle, Lifecycle!Spec
=============================================================================
