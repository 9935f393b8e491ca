--------------------------- MODULE SettlementProofs ---------------------------
(***************************************************************************)
(* Proofs about TransferPipeline, continued: whatever fails, is repeated   *)
(* or comes out of order, the documents catch up with the graph.           *)
(***************************************************************************)
EXTENDS TransferProofs

(***************************************************************************)
(* What an update does to the graph.                                       *)
(***************************************************************************)
LEMMA UpdateMeans ==
  ASSUME IInv, NEW c \in TopologySubject, Update(c),
         NEW q, q = InHand(c).transfer,
         NEW received, received = InHand(c).assets
  PROVE  /\ q \in Transfer /\ Created(q)
         /\ received # {} /\ received \subseteq Order[q].assets
         /\ Involved(q) = Order[q].assets
         /\ eventStatus'[q] = CalculatedStatus(q, received)
         /\ eventStatus'[q] \in {"PARTIALLY_COMPLETED", "COMPLETED"}
         /\ \A r \in Transfer : \A a \in Asset :
              involves'[r][a] = IF r = q /\ a \in received THEN "COMPLETED" ELSE involves[r][a]
         /\ \A r \in Transfer \ {q} : eventStatus'[r] = eventStatus[r]
<1>1. /\ q \in Transfer /\ Created(q)
      /\ received \subseteq Involved(q)
  BY UpdateStep
<1>2. received # {} /\ received = received \intersect Involved(q)
  <2>1. c \in Subject /\ pc[c] # "idle"
    BY DEF Update, Subject
  <2>2. InHand(c) \in Messages /\ MessageOK(c, InHand(c))
    BY <2>1, InHandOK
  <2>. QED BY <1>1, <2>2, DocumentType DEF MessageOK, Messages
<1>3. UpdateTransferEvent(q, received)
  BY <1>2 DEF Update
<1>4. GraphInv /\ Involved(q) = Order[q].assets
  BY <1>1 DEF IInv, GraphInv, EdgesOK
<1>5. /\ eventStatus'[q] = CalculatedStatus(q, received)
      /\ CalculatedStatus(q, received) \in {"PARTIALLY_COMPLETED", "COMPLETED"}
      /\ \A a \in Asset : involves'[q][a] = IF a \in received THEN "COMPLETED" ELSE involves[q][a]
      /\ \A r \in Transfer \ {q} : involves'[r] = involves[r] /\ eventStatus'[r] = eventStatus[r]
  BY <1>1, <1>3, <1>4, UpdateKeepsGraph
<1>. QED BY <1>1, <1>2, <1>4, <1>5

LEMMA UpdateIsCalculated ==
  ASSUME IInv, NEW c \in TopologySubject, Update(c),
         NEW q, q = InHand(c).transfer
  PROVE  (eventStatus'[q] = "COMPLETED") =
           (\A a \in Order[q].assets : involves'[q][a] = "COMPLETED")
<1>. DEFINE received == InHand(c).assets
<1>1. /\ q \in Transfer /\ Involved(q) = Order[q].assets
      /\ eventStatus'[q] = CalculatedStatus(q, received)
      /\ \A a \in Asset :
           involves'[q][a] = IF a \in received THEN "COMPLETED" ELSE involves[q][a]
  BY UpdateMeans
<1>2. Order[q].assets \subseteq Asset
  BY <1>1, OrderType
<1>. HIDE DEF received
<1>. QED BY <1>1, <1>2 DEF CalculatedStatus

(***************************************************************************)
(* A receipt handled again after its assets were received changes neither  *)
(* the progress of the transfer nor an edge.                               *)
(***************************************************************************)
LEMMA RepeatedUpdate ==
  ASSUME IInv, ProgressOK, NEW c \in TopologySubject, Update(c),
         NEW q, q = InHand(c).transfer, Received(q, InHand(c).assets)
  PROVE  /\ \A r \in Transfer : eventStatus'[r] = eventStatus[r]
         /\ \A r \in Transfer : \A a \in Asset : involves'[r][a] = involves[r][a]
<1>. DEFINE received == InHand(c).assets
<1>1. /\ q \in Transfer /\ Created(q)
      /\ received # {} /\ received \subseteq Order[q].assets
      /\ eventStatus'[q] \in {"PARTIALLY_COMPLETED", "COMPLETED"}
      /\ \A r \in Transfer : \A a \in Asset :
           involves'[r][a] = IF r = q /\ a \in received THEN "COMPLETED" ELSE involves[r][a]
      /\ \A r \in Transfer \ {q} : eventStatus'[r] = eventStatus[r]
  BY UpdateMeans
<1>2. Order[q].assets \subseteq Asset /\ \A a \in received : involves[q][a] = "COMPLETED"
  BY <1>1, OrderType DEF Received
<1>. HIDE DEF received
<1>3. \A r \in Transfer : \A a \in Asset : involves'[r][a] = involves[r][a]
  BY <1>1, <1>2
<1>4. (eventStatus'[q] = "COMPLETED") = (eventStatus[q] = "COMPLETED")
  <2>1. (eventStatus'[q] = "COMPLETED") = (\A a \in Order[q].assets : involves'[q][a] = "COMPLETED")
    BY UpdateIsCalculated
  <2>2. (eventStatus[q] = "COMPLETED") = (\A a \in Order[q].assets : involves[q][a] = "COMPLETED")
    BY <1>1 DEF ProgressOK, Received
  <2>3. \A a \in Order[q].assets : involves'[q][a] = involves[q][a]
    BY <1>1, <1>2, <1>3
  <2>. QED BY <2>1, <2>2, <2>3
<1>5. eventStatus[q] \in {"PARTIALLY_COMPLETED", "COMPLETED"}
  <2>1. eventStatus[q] # "IN_PROGRESS"
    BY <1>1, <1>2 DEF ProgressOK
  <2>2. eventStatus[q] \in EventStatus
    BY <1>1 DEF IInv, GraphInv, GraphTypeOK
  <2>. QED BY <1>1, <2>1, <2>2 DEF Created, EventStatus, Open
<1>6. eventStatus'[q] = eventStatus[q]
  BY <1>1, <1>4, <1>5
<1>. QED BY <1>1, <1>3, <1>6

(***************************************************************************)
(* Creating a transfer completes nothing.                                  *)
(***************************************************************************)
LEMMA CreateMeans ==
  ASSUME IInv, Create,
         NEW q, q = InHand("initiated").transfer
  PROVE  /\ q \in Transfer
         /\ \A r \in Transfer :
              eventStatus'[r] = IF r = q /\ ~Created(r) THEN "IN_PROGRESS" ELSE eventStatus[r]
         /\ \A r \in Transfer : \A a \in Asset :
              (involves'[r][a] = "COMPLETED") = (involves[r][a] = "COMPLETED")
<1>1. q \in Transfer /\ CreateTransferEvent(q)
  BY CreateStep DEF Create
<1>2. GraphTypeOK
  BY DEF IInv, GraphInv
<1>3. \A r \in Transfer :
        eventStatus'[r] = IF r = q /\ ~Created(r) THEN "IN_PROGRESS" ELSE eventStatus[r]
  BY <1>1, <1>2 DEF CreateTransferEvent, GraphTypeOK, Created
<1>4. \A r \in Transfer : \A a \in Asset :
        (involves'[r][a] = "COMPLETED") = (involves[r][a] = "COMPLETED")
  BY <1>1, <1>2 DEF CreateTransferEvent, GraphTypeOK
<1>. QED BY <1>1, <1>3, <1>4

(***************************************************************************)
(* How a transfer progresses.                                              *)
(***************************************************************************)
LEMMA WhoProgresses ==
  ASSUME IInv, [Next]_vars
  PROVE  \/ UNCHANGED <<eventStatus, involves>>
         \/ Create
         \/ \E c \in TopologySubject : Update(c)
<1>1. (\E o \in Organization, a \in Asset : RegisterAsset(o, a)) => UNCHANGED <<eventStatus, involves>>
  BY DEF RegisterAsset, CreateAsset
<1>2. RestartTopology \/ UNCHANGED graph => UNCHANGED <<eventStatus, involves>>
  BY DEF RestartTopology, Seed, graph
<1>. QED BY <1>1, <1>2, WhoChangesTheGraph

LEMMA ProgressStep ==
  ASSUME IInv, ProgressOK, [Next]_vars
  PROVE  ProgressOK'
<1>. DEFINE Agrees(q, s, e) ==
              /\ (s = "COMPLETED") = (\A a \in Order[q].assets : e[a] = "COMPLETED")
              /\ s = "IN_PROGRESS" => \A a \in Asset : e[a] # "COMPLETED"
<1>0. /\ \A q \in Transfer : Agrees(q, eventStatus[q], involves[q])
      /\ (\A q \in Transfer : Agrees(q, eventStatus'[q], involves'[q])) => ProgressOK'
      /\ \A q \in Transfer : Order[q].assets \subseteq Asset
  BY OrderType DEF ProgressOK, Received
<1>1. CASE UNCHANGED <<eventStatus, involves>>
  BY <1>0, <1>1
<1>2. CASE Create
  <2>. DEFINE p == InHand("initiated").transfer
  <2>1. /\ p \in Transfer
        /\ \A r \in Transfer :
             eventStatus'[r] = IF r = p /\ ~Created(r) THEN "IN_PROGRESS" ELSE eventStatus[r]
        /\ \A r \in Transfer : \A a \in Asset :
             (involves'[r][a] = "COMPLETED") = (involves[r][a] = "COMPLETED")
    BY <1>2, CreateMeans
  <2>. HIDE DEF p
  <2>2. ~Created(p) => \A a \in Asset : involves[p][a] # "COMPLETED"
    BY <2>1 DEF IInv, GraphInv, EdgesOK, Involved
  <2>3. ASSUME NEW q \in Transfer
        PROVE  Agrees(q, eventStatus'[q], involves'[q])
    <3>1. Order[q].assets # {} /\ Order[q].assets \subseteq Asset
      BY OrderType
    <3>2. Agrees(q, eventStatus[q], involves[q])
      BY <1>0
    <3>3. (\A a \in Order[q].assets : involves'[q][a] = "COMPLETED")
            = (\A a \in Order[q].assets : involves[q][a] = "COMPLETED")
      BY <2>1, <3>1
    <3>4. CASE q = p /\ ~Created(q)
      <4>1. eventStatus'[q] = "IN_PROGRESS" /\ \A a \in Asset : involves'[q][a] # "COMPLETED"
        BY <2>1, <2>2, <3>4
      <4>2. ~(\A a \in Order[q].assets : involves'[q][a] = "COMPLETED")
        BY <3>1, <4>1
      <4>. QED BY <4>1, <4>2
    <3>5. CASE ~(q = p /\ ~Created(q))
      <4>1. eventStatus'[q] = eventStatus[q]
        BY <2>1, <3>5
      <4>2. eventStatus'[q] = "IN_PROGRESS" => \A a \in Asset : involves'[q][a] # "COMPLETED"
        BY <2>1, <3>2, <4>1
      <4>. QED BY <3>2, <3>3, <4>1, <4>2
    <3>. QED BY <3>4, <3>5
  <2>. HIDE DEF Agrees
  <2>. QED BY <1>0, <2>3
<1>3. ASSUME NEW c \in TopologySubject, Update(c)
      PROVE  ProgressOK'
  <2>. DEFINE p == InHand(c).transfer
              received == InHand(c).assets
  <2>1. /\ p \in Transfer
        /\ eventStatus'[p] \in {"PARTIALLY_COMPLETED", "COMPLETED"}
        /\ \A r \in Transfer : \A a \in Asset :
             involves'[r][a] = IF r = p /\ a \in received THEN "COMPLETED" ELSE involves[r][a]
        /\ \A r \in Transfer \ {p} : eventStatus'[r] = eventStatus[r]
    BY <1>3, UpdateMeans
  <2>2. (eventStatus'[p] = "COMPLETED") = (\A a \in Order[p].assets : involves'[p][a] = "COMPLETED")
    BY <1>3, UpdateIsCalculated
  <2>. HIDE DEF p, received
  <2>3. Agrees(p, eventStatus'[p], involves'[p])
    BY <2>1, <2>2
  <2>4. ASSUME NEW q \in Transfer \ {p}
        PROVE  Agrees(q, eventStatus'[q], involves'[q])
    <3>1. eventStatus'[q] = eventStatus[q] /\ \A a \in Asset : involves'[q][a] = involves[q][a]
      BY <2>1
    <3>2. (\A a \in Order[q].assets : involves'[q][a] = "COMPLETED")
            = (\A a \in Order[q].assets : involves[q][a] = "COMPLETED")
      BY <1>0, <3>1
    <3>3. Agrees(q, eventStatus[q], involves[q])
      BY <1>0
    <3>4. eventStatus'[q] = "IN_PROGRESS" => \A a \in Asset : involves'[q][a] # "COMPLETED"
      BY <3>1, <3>3
    <3>. QED BY <3>1, <3>2, <3>3, <3>4
  <2>. HIDE DEF Agrees
  <2>5. \A q \in Transfer : Agrees(q, eventStatus'[q], involves'[q])
    BY <2>3, <2>4
  <2>. QED BY <1>0, <2>5
<1>. QED BY <1>1, <1>2, <1>3, WhoProgresses
(***************************************************************************)
(* Who signs, and what becomes of the other rows.                          *)
(***************************************************************************)
LEMMA WhoSigns ==
  ASSUME [Next]_vars
  PROVE  \/ \E d \in Document : Sign(d)
         \/ /\ UNCHANGED signings
            /\ \/ UNCHANGED table
               \/ UpdateDocument
               \/ \E c \in ComplianceSubject : UpdateRequisition(c)
<1>1. (\E o \in Organization, a \in Asset : RegisterAsset(o, a)) \/ UNCHANGED vars
         => UNCHANGED signings /\ UNCHANGED table
  BY DEF RegisterAsset, vars, browser
<1>2. (\E d \in Document : Draft(d)) => UNCHANGED signings /\ UNCHANGED table
  BY DEF Draft
<1>3. ASSUME NEW d \in Document, SignDocument(d) \/ PublicationLost(d)
      PROVE  Sign(d)
  BY <1>3 DEF SignDocument, PublicationLost
<1>4. (\E c \in Subject : Deliver(c) \/ Redeliver(c) \/ HandlerFails(c))
         => UNCHANGED signings /\ UNCHANGED table
  BY DEF Deliver, Redeliver, Take, HandlerFails, browser
<1>5. Create \/ (\E c \in Subject : Update(c) \/ PublishTransfer(c))
         => UNCHANGED signings /\ UNCHANGED table
  BY DEF Create, Update, PublishTransfer, browser
<1>6. UpdateDocument \/ (\E c \in Subject : UpdateRequisition(c)) => UNCHANGED signings
  BY DEF UpdateDocument, UpdateRequisition, browser
<1>7. RestartTopology \/ RestartCompliance => UNCHANGED signings /\ UNCHANGED table
  BY DEF RestartTopology, RestartCompliance, browser
<1>. QED BY <1>1, <1>2, <1>3, <1>4, <1>5, <1>6, <1>7 DEF Next, Handle

(***************************************************************************)
(* A row loses progress only by being signed again.                        *)
(***************************************************************************)
LEMMA RowsClimb ==
  ASSUME IInv, [Next]_vars, NEW d \in Document
  PROVE  \/ /\ Sign(d)
            /\ signings'[d] = signings[d] + 1
            /\ status'[d] = "SIGNED"
         \/ /\ signings'[d] = signings[d]
            /\ Rank(status[d]) <= Rank(status'[d])
            /\ status[d] # "NONE" => status'[d] # "NONE"
<1>. /\ signings \in [Document -> 0..(MaxMishaps + 1)]
     /\ status \in [Document -> DocumentStatus]
     /\ status' \in [Document -> DocumentStatus]
  BY TableStep DEF IInv, PipelineTypeOK, TableTypeOK
<1>0. \A s \in DocumentStatus : Rank(s) \in 0..4 /\ (Rank(s) = 0) = (s = "NONE")
  BY RankValues DEF DocumentStatus
<1>1. Rank(status[d]) \in 0..4 /\ Rank(status'[d]) \in 0..4
  BY <1>0
<1>2. ASSUME NEW e \in Document, Sign(e)
      PROVE  IF e = d THEN signings'[d] = signings[d] + 1 /\ status'[d] = "SIGNED"
                      ELSE signings'[d] = signings[d] /\ status'[d] = status[d]
  BY <1>2 DEF Sign, Insert
<1>3. UNCHANGED table => status'[d] = status[d]
  BY DEF table
<1>4. UpdateDocument => status'[d] = status[d] \/ (status[d] # "NONE" /\ status'[d] = "COMPLETED")
  BY DEF UpdateDocument, UpdateForDocNumber
<1>5. ASSUME NEW c \in ComplianceSubject, UpdateRequisition(c)
      PROVE  status'[d] = status[d] \/ Rank(status'[d]) > Rank(status[d])
  BY <1>5 DEF UpdateRequisition, UpdateForReqNumber
<1>6. Rank("COMPLETED") = 4 /\ "COMPLETED" # "NONE"
  BY RankValues
<1>7. status'[d] = status[d] =>
        Rank(status[d]) <= Rank(status'[d]) /\ (status[d] # "NONE" => status'[d] # "NONE")
  BY <1>1
<1>8. Rank(status'[d]) > Rank(status[d]) =>
        Rank(status[d]) <= Rank(status'[d]) /\ (status[d] # "NONE" => status'[d] # "NONE")
  BY <1>0, <1>1
<1>9. UpdateDocument =>
        Rank(status[d]) <= Rank(status'[d]) /\ (status[d] # "NONE" => status'[d] # "NONE")
  BY <1>1, <1>4, <1>6, <1>7
<1>10. CASE \E e \in Document : Sign(e)
  <2>1. PICK e \in Document : Sign(e)
    BY <1>10
  <2>. QED BY <1>2, <1>7, <2>1
<1>11. CASE UNCHANGED signings /\ UNCHANGED table
  BY <1>3, <1>7, <1>11
<1>12. CASE UNCHANGED signings /\ UpdateDocument
  BY <1>9, <1>12
<1>13. CASE UNCHANGED signings /\ \E c \in ComplianceSubject : UpdateRequisition(c)
  BY <1>5, <1>7, <1>8, <1>13
<1>. QED BY <1>10, <1>11, <1>12, <1>13, WhoSigns

(***************************************************************************)
(* Only a handler that made its last call acks, and only what it has in    *)
(* hand.                                                                   *)
(***************************************************************************)
Answers(c) ==
  \/ c \in TopologySubject /\ PublishTransfer(c)
  \/ c \in ComplianceSubject /\ UpdateRequisition(c)

LEMMA WhoAcks ==
  ASSUME IInv, [Next]_vars, NEW c \in Subject
  PROVE  \/ acked'[c] = acked[c]
         \/ acked'[c] = acked[c] \union {msg[c]} /\ Answers(c)
<1>. acked \in [Subject -> SUBSET Nat]
  BY DEF IInv, PipelineTypeOK
<1>1. (\E o \in Organization, a \in Asset : RegisterAsset(o, a)) \/ UNCHANGED vars
         => UNCHANGED acked
  BY DEF RegisterAsset, vars, broker
<1>2. (\E d \in Document : Draft(d) \/ SignDocument(d) \/ PublicationLost(d)) => UNCHANGED acked
  BY DEF Draft, SignDocument, PublicationLost, Sign, broker
<1>3. (\E b \in Subject : Deliver(b) \/ Redeliver(b) \/ HandlerFails(b)) => UNCHANGED acked
  BY DEF Deliver, Redeliver, Take, HandlerFails, broker
<1>4. Create \/ UpdateDocument \/ (\E b \in Subject : Update(b)) => UNCHANGED acked
  BY DEF Create, UpdateDocument, Update, broker
<1>5. RestartTopology \/ RestartCompliance => UNCHANGED acked
  BY DEF RestartTopology, RestartCompliance, broker
<1>6. ASSUME NEW b \in Subject, Answers(b)
      PROVE  acked'[c] = acked[c] \/ (b = c /\ acked'[c] = acked[c] \union {msg[c]})
  BY <1>6 DEF Answers, PublishTransfer, UpdateRequisition, Finish
<1>7. ASSUME NEW b \in Subject, Handle(b)
      PROVE  Create \/ UpdateDocument \/ Update(b) \/ Answers(b)
  BY <1>7 DEF Handle, Answers
<1>. QED BY <1>1, <1>2, <1>3, <1>4, <1>5, <1>6, <1>7 DEF Next

(***************************************************************************)
(* A transfer exists only by an initiated event, signed before.            *)
(***************************************************************************)
LEMMA InStream ==
  ASSUME IInv, NEW c \in Subject, NEW n \in 1..Len(sent[c])
  PROVE  sent[c][n] \in Messages /\ MessageOK(c, sent[c][n])
<1>1. sent[c] \in Seq(Messages)
  BY DEF IInv, PipelineTypeOK
<1>. QED BY <1>1 DEF IInv

LEMMA SignedFirstStep ==
  ASSUME IInv, SignedFirst, [Next]_vars
  PROVE  SignedFirst'
<1>. /\ sent \in [Subject -> Seq(Messages)]
     /\ signings \in [Document -> 0..(MaxMishaps + 1)]
     /\ "initiated" \in Subject /\ "initiated" \in TopologySubject
     /\ "initiated" \notin ComplianceSubject
  BY DEF IInv, PipelineTypeOK, Subject, TopologySubject, ComplianceSubject
<1>1. /\ Len(sent["initiated"]) \in Nat /\ Len(sent'["initiated"]) \in Nat
      /\ Len(sent["initiated"]) <= Len(sent'["initiated"])
      /\ \A n \in 1..Len(sent["initiated"]) : sent'["initiated"][n] = sent["initiated"][n]
  BY StreamStep DEF StreamsGrow
<1>2. \A n \in 1..Len(sent["initiated"]) :
        /\ n \in 1..Len(sent'["initiated"])
        /\ sent["initiated"][n].document \in Document
  BY <1>1, InStream DEF Messages
<1>3. \A d \in Document : signings[d] > 0 => signings'[d] > 0
  <2>1. ASSUME NEW d \in Document, signings[d] > 0
        PROVE  signings'[d] > 0
    <3>1. signings[d] \in 0..(MaxMishaps + 1) /\ MaxMishaps \in Nat
      BY DocumentType
    <3>2. signings'[d] = signings[d] \/ signings'[d] = signings[d] + 1
      BY RowsClimb
    <3>. QED BY <2>1, <3>1, <3>2
  <2>. QED BY <2>1
<1>4. ASSUME NEW q \in Transfer, Created(q)'
      PROVE  \E n \in 1..Len(sent'["initiated"]) : sent'["initiated"][n].transfer = q
  <2>1. Created(q) \/ (Create /\ q = InHand("initiated").transfer)
    <3>1. UNCHANGED <<eventStatus, involves>> => Created(q)
      BY <1>4 DEF Created
    <3>2. Create => Created(q) \/ q = InHand("initiated").transfer
      BY <1>4, CreateMeans DEF Created
    <3>3. ASSUME NEW c \in TopologySubject, Update(c)
          PROVE  Created(q)
      BY <1>4, <3>3, UpdateMeans DEF Created
    <3>. QED BY <3>1, <3>2, <3>3, WhoProgresses
  <2>2. \E n \in 1..Len(sent["initiated"]) : sent["initiated"][n].transfer = q
    <3>1. CASE Created(q)
      BY <3>1 DEF SignedFirst
    <3>2. CASE Create /\ q = InHand("initiated").transfer
      <4>1. msg["initiated"] \in 1..Len(sent["initiated"])
        BY <3>2, InHandOK DEF Create
      <4>. QED BY <3>2, <4>1 DEF InHand
    <3>. QED BY <2>1, <3>1, <3>2
  <2>. QED BY <1>1, <1>2, <2>2
<1>5. ASSUME NEW n \in 1..Len(sent'["initiated"])
      PROVE  signings'[sent'["initiated"][n].document] > 0
  <2>1. CASE n \in 1..Len(sent["initiated"])
    BY <1>1, <1>2, <1>3, <2>1 DEF SignedFirst
  <2>2. ASSUME NEW d \in Document, SignDocument(d), n \notin 1..Len(sent["initiated"])
        PROVE  signings'[sent'["initiated"][n].document] > 0
    <3>. DEFINE m == Message(Content[d].transfer, d, Content[d].assets, "SIGNED")
    <3>1. d \in drafts /\ PaperOK(d) /\ Send(SubjectOf(d), m) /\ Sign(d)
      BY <2>2 DEF SignDocument, Sign, IInv
    <3>2. m.document = d
      BY DEF Message
    <3>3. m \in Messages
      BY <3>1, SignedMessageOK
    <3>4. SubjectOf(d) \in Subject
      BY DEF SubjectOf, Subject, TopologySubject
    <3>. HIDE DEF m
    <3>5. sent'["initiated"][n] = m
      BY <2>2, <3>1, <3>3, <3>4, SendAppends
    <3>6. signings'[d] = signings[d] + 1
      BY <3>1 DEF Sign
    <3>7. signings[d] \in Nat
      BY DocumentType
    <3>. QED BY <3>2, <3>5, <3>6, <3>7
  <2>3. ASSUME NEW c \in TopologySubject, PublishTransfer(c), n \notin 1..Len(sent["initiated"])
        PROVE  FALSE
    <3>. DEFINE h == InHand(c)
                m == Message(h.transfer, h.document, SnapshotAssets(h.transfer), outcome[c])
    <3>1. pc[c] = "publish" /\ Send(Announcement(c), m)
      BY <2>3 DEF PublishTransfer
    <3>2. m \in Messages /\ Announcement(c) \in Subject /\ Announcement(c) # "initiated"
      BY <3>1, AnnouncementOK DEF Subject, ComplianceSubject
    <3>. HIDE DEF m
    <3>. QED BY <2>3, <3>1, <3>2, SendAppends
  <2>. QED BY <2>1, <2>2, <2>3, WhoSends
<1>6. ASSUME NEW d \in Document, signings'[d] > 0
      PROVE  status'[d] # "NONE"
  BY <1>6, RowsClimb DEF SignedFirst
<1>. QED BY <1>4, <1>5, <1>6 DEF SignedFirst

(***************************************************************************)
(* At least once: a handler publishes, and acks, what it has done.         *)
(***************************************************************************)
LEMMA DoneKept ==
  ASSUME GraphGrows, NEW c, NEW m \in Messages, DoneOK(c, m)
  PROVE  DoneOK(c, m)'
BY DEF GraphGrows, DoneOK, Received, Messages

LEMMA PublishedIsDone ==
  ASSUME IInv, ProgressOK, NewsOK, NEW c \in TopologySubject, pc[c] = "publish"
  PROVE  DoneOK(c, InHand(c))
<1>. DEFINE m == InHand(c)
            q == m.transfer
<1>1. c \in Subject /\ c \in {"initiated", "received"}
  BY DEF Subject, TopologySubject
<1>2. m \in Messages /\ MessageOK(c, m) /\ PublishOK(c)
  BY <1>1, InHandOK DEF IInv, HandlerOK
<1>3. /\ q \in Transfer /\ Created(q)
      /\ m.assets \subseteq Order[q].assets
  BY <1>2, DocumentType DEF Messages, MessageOK, PublishOK
<1>4. CASE c = "initiated"
  <2>1. IsC2(q) => eventStatus[q] = "COMPLETED"
    BY <1>2, <1>4 DEF NewsOK, PublishOK
  <2>. QED BY <1>3, <1>4, <2>1 DEF DoneOK
<1>5. CASE c = "received"
  <2>1. outcome[c] = "COMPLETED" => Received(q, Order[q].assets)
    BY <1>2, <1>3 DEF PublishOK, ProgressOK
  <2>2. outcome[c] # "COMPLETED" => Received(q, m.assets)
    BY <1>2, <1>5 DEF PublishOK
  <2>3. Received(q, m.assets)
    BY <1>3, <2>1, <2>2 DEF Received
  <2>. QED BY <1>5, <2>3 DEF DoneOK
<1>. QED BY <1>1, <1>4, <1>5

LEMMA AckedStep ==
  ASSUME IInv, ProgressOK, NewsOK, AckedIsDone, [Next]_vars
  PROVE  AckedIsDone'
<1>1. GraphGrows /\ StreamsGrow
  BY GraphStep, StreamStep
<1>2. ASSUME NEW c \in TopologySubject, NEW n \in acked'[c]
      PROVE  /\ n \in 1..Len(sent[c])
             /\ DoneOK(c, sent[c][n])
  <2>1. c \in Subject /\ acked[c] \subseteq 1..cursor[c] /\ cursor[c] <= Len(sent[c])
    BY DEF Subject, IInv, PipelineTypeOK
  <2>2. cursor[c] \in Nat /\ Len(sent[c]) \in Nat
    BY <2>1 DEF IInv, PipelineTypeOK
  <2>3. acked[c] \subseteq 1..Len(sent[c])
    BY <2>1, <2>2
  <2>4. CASE n \in acked[c]
    BY <2>3, <2>4 DEF AckedIsDone
  <2>5. CASE n = msg[c] /\ Answers(c)
    <3>1. pc[c] = "publish"
      BY <2>5 DEF Answers, PublishTransfer, TopologySubject, ComplianceSubject
    <3>. QED BY <2>1, <2>5, <3>1, PublishedIsDone, InHandOK DEF InHand
  <2>. QED BY <2>1, <2>4, <2>5, WhoAcks
<1>3. ASSUME NEW c \in TopologySubject, NEW n \in acked'[c]
      PROVE  DoneOK(c, sent[c][n])'
  <2>1. n \in 1..Len(sent[c]) /\ DoneOK(c, sent[c][n]) /\ c \in Subject
    BY <1>2 DEF Subject
  <2>2. sent'[c][n] = sent[c][n] /\ sent[c][n] \in Messages
    BY <1>1, <2>1, InStream DEF StreamsGrow
  <2>3. ASSUME NEW m \in Messages, m = sent'[c][n], DoneOK(c, m)
        PROVE  DoneOK(c, sent[c][n])'
    <3>1. DoneOK(c, m)'
      BY <1>1, <2>3, DoneKept
    <3>. QED BY <2>3, <3>1 DEF DoneOK
  <2>. QED BY <2>1, <2>2, <2>3
<1>. QED BY <1>3 DEF AckedIsDone

(***************************************************************************)
(* The news of a handler that is about to publish.  Between its update and *)
(* its publication only the other consumer can change the transfer, and it *)
(* updates C2 transfers alone.                                             *)
(***************************************************************************)
LEMMA HandsKept ==
  ASSUME IInv, [Next]_vars, NEW c \in Subject, pc[c] # "idle", msg'[c] = msg[c]
  PROVE  InHand(c)' = InHand(c)
BY StreamStep, InHandOK DEF StreamsGrow, InHand

LEMMA NewsOfAuthorization ==
  ASSUME IInv, NewsOK, [Next]_vars,
         NEW c, c = "initiated"
  PROVE  /\ pc'[c] = "update" => IsC2(InHand(c)'.transfer)
         /\ pc'[c] = "publish" /\ IsC2(InHand(c)'.transfer) => outcome'[c] = "COMPLETED"
<1>. /\ c \in Subject /\ c \in TopologySubject
     /\ pc \in [Subject -> Label]
  BY DEF Subject, TopologySubject, IInv, PipelineTypeOK
<1>1. CASE Rests(c)
  <2>1. pc[c] # "idle" => InHand(c)' = InHand(c)
    BY <1>1, HandsKept DEF Rests
  <2>. QED BY <1>1, <2>1 DEF Rests, NewsOK
<1>2. CASE Ends(c) \/ Begins(c)
  BY <1>2 DEF Ends, Begins, FirstCall
<1>3. CASE Create
  <2>1. InHand(c)' = InHand(c)
    BY <1>3 DEF Create, InHand, broker
  <2>2. pc'[c] = IF IsC2(InHand(c).transfer) THEN "update" ELSE "publish"
    BY <1>3 DEF Create, Goto, IsC2
  <2>. QED BY <2>1, <2>2
<1>4. CASE Update(c)
  <2>1. pc'[c] = "publish"
    BY <1>4 DEF Update, Goto
  <2>2. outcome'[c] = "COMPLETED"
    BY <1>4, UpdateStep
  <2>. QED BY <2>1, <2>2
<1>. QED BY <1>1, <1>2, <1>3, <1>4, WhoMoves

LEMMA NewsOfReceipt ==
  ASSUME IInv, NewsOK, [Next]_vars,
         NEW c, c = "received", pc'[c] = "publish",
         NEW q, q = InHand(c)'.transfer, ~IsC2(q)
  PROVE  outcome'[c] = eventStatus'[q]
<1>. /\ c \in Subject /\ c \in TopologySubject
     /\ pc \in [Subject -> Label]
  BY DEF Subject, TopologySubject, IInv, PipelineTypeOK
<1>1. CASE Rests(c)
  <2>1. pc[c] = "publish" /\ InHand(c)' = InHand(c)
    BY <1>1, HandsKept DEF Rests
  <2>2. outcome[c] = eventStatus[q] /\ outcome'[c] = outcome[c]
    BY <1>1, <2>1 DEF Rests, NewsOK
  <2>3. Created(q) /\ q \in Transfer
    BY <2>1, InHandOK DEF IInv, HandlerOK, PublishOK, Messages
  <2>4. eventStatus'[q] = eventStatus[q]
    <3>1. UNCHANGED <<eventStatus, involves>> => eventStatus'[q] = eventStatus[q]
      OBVIOUS
    <3>2. Create => eventStatus'[q] = eventStatus[q]
      BY <2>3, CreateMeans
    <3>3. ASSUME NEW b \in TopologySubject, Update(b)
          PROVE  eventStatus'[q] = eventStatus[q]
      <4>1. b = "initiated" /\ pc[b] = "update"
        BY <2>1, <3>3 DEF Update, TopologySubject
      <4>2. InHand(b).transfer # q
        BY <4>1 DEF NewsOK
      <4>3. PICK h, received : h = InHand(b).transfer /\ received = InHand(b).assets
        OBVIOUS
      <4>4. \A r \in Transfer \ {h} : eventStatus'[r] = eventStatus[r]
        BY <3>3, <4>3, UpdateMeans
      <4>. QED BY <2>3, <4>2, <4>3, <4>4
    <3>. QED BY <3>1, <3>2, <3>3, WhoProgresses
  <2>. QED BY <2>2, <2>4
<1>2. CASE Ends(c) \/ Begins(c)
  BY <1>2 DEF Ends, Begins, FirstCall
<1>3. CASE Update(c)
  <2>1. InHand(c)' = InHand(c)
    BY <1>3 DEF Update, InHand, broker
  <2>. QED BY <1>3, <2>1, UpdateStep
<1>. QED BY <1>1, <1>2, <1>3, WhoMoves

LEMMA NewsStep ==
  ASSUME IInv, NewsOK, [Next]_vars
  PROVE  NewsOK'
<1>1. /\ pc'["initiated"] = "update" => IsC2(InHand("initiated")'.transfer)
      /\ pc'["initiated"] = "publish" /\ IsC2(InHand("initiated")'.transfer)
           => outcome'["initiated"] = "COMPLETED"
  BY NewsOfAuthorization
<1>2. pc'["received"] = "publish" /\ ~IsC2(InHand("received")'.transfer)
        => outcome'["received"] = eventStatus'[InHand("received")'.transfer]
  BY NewsOfReceipt
<1>. QED BY <1>1, <1>2 DEF NewsOK, IsC2

(***************************************************************************)
(* Once a transfer exists, its authorization was signed and has a row.     *)
(***************************************************************************)
LEMMA AuthorizedBySignature ==
  ASSUME IInv, SignedFirst, NEW d \in Document, Content[d].kind = "AUTHORIZATION",
         NEW q, q = Content[d].transfer, Created(q)
  PROVE  /\ signings[d] > 0 /\ status[d] # "NONE"
         /\ \E n \in 1..Len(sent["initiated"]) : sent["initiated"][n].transfer = q
<1>1. q \in Transfer
  BY DocumentType
<1>2. PICK n \in 1..Len(sent["initiated"]) : sent["initiated"][n].transfer = q
  BY <1>1 DEF SignedFirst
<1>3. "initiated" \in Subject /\ "initiated" \in TopologySubject
  BY DEF Subject, TopologySubject
<1>4. /\ sent["initiated"][n].document \in Document
      /\ Content[sent["initiated"][n].document].kind = "AUTHORIZATION"
      /\ Content[sent["initiated"][n].document].transfer = q
  BY <1>2, <1>3, InStream DEF MessageOK, Messages
<1>5. sent["initiated"][n].document = d
  BY <1>4, OneAuthorization
<1>. QED BY <1>2, <1>5 DEF SignedFirst

(***************************************************************************)
(* A message stays on its way until its own handler answers it.            *)
(***************************************************************************)
LEMMA UnackedKept ==
  ASSUME IInv, [Next]_vars, NEW c \in Subject, NEW q, Unacked(c, q)
  PROVE  Unacked(c, q)' \/ (Answers(c) /\ InHand(c).transfer = q)
<1>1. PICK n \in 1..Len(sent[c]) : n \notin acked[c] /\ sent[c][n].transfer = q
  BY DEF Unacked
<1>2. /\ Len(sent[c]) \in Nat /\ Len(sent'[c]) \in Nat /\ Len(sent[c]) <= Len(sent'[c])
      /\ sent'[c][n] = sent[c][n]
  <2>1. sent \in [Subject -> Seq(Messages)] /\ StreamsGrow
    BY StreamStep DEF IInv, PipelineTypeOK
  <2>. QED BY <2>1 DEF StreamsGrow
<1>3. n \in 1..Len(sent'[c]) /\ sent'[c][n].transfer = q
  BY <1>1, <1>2
<1>4. CASE n \notin acked'[c]
  BY <1>3, <1>4 DEF Unacked
<1>5. CASE n \in acked'[c]
  <2>1. n = msg[c] /\ Answers(c)
    BY <1>1, <1>5, WhoAcks
  <2>. QED BY <1>1, <2>1 DEF InHand
<1>. QED BY <1>4, <1>5

LEMMA InHandIsUnacked ==
  ASSUME IInv, AckedIsDone, NEW c \in TopologySubject, pc[c] # "idle", ~DoneOK(c, InHand(c)),
         UNCHANGED <<sent, acked>>, NEW q, q = InHand(c).transfer
  PROVE  Unacked(c, q)'
<1>1. c \in Subject /\ msg[c] \in 1..Len(sent[c])
  BY InHandOK DEF Subject
<1>2. msg[c] \notin acked[c]
  BY DEF AckedIsDone, InHand
<1>. QED BY <1>1, <1>2 DEF Unacked, InHand

(***************************************************************************)
(* A publication puts its news on their way.                               *)
(***************************************************************************)
LEMMA Announces ==
  ASSUME IInv, NEW c \in TopologySubject, PublishTransfer(c),
         NEW q, q = InHand(c).transfer,
         NEW s, s = Announcement(c)
  PROVE  Unacked(s, q)'
<1>. DEFINE h == InHand(c)
            m == Message(h.transfer, h.document, SnapshotAssets(h.transfer), outcome[c])
<1>1. pc[c] = "publish" /\ Send(s, m)
  BY DEF PublishTransfer
<1>2. m \in Messages /\ s \in Subject /\ s # c
  BY <1>1, AnnouncementOK DEF Subject, ComplianceSubject, TopologySubject
<1>3. m.transfer = q
  BY DEF Message
<1>4. acked'[s] = acked[s]
  BY <1>2 DEF PublishTransfer, Finish, IInv, PipelineTypeOK
<1>. HIDE DEF m
<1>5. sent \in [Subject -> Seq(Messages)] /\ sent[s] \in Seq(Messages)
  BY <1>2 DEF IInv, PipelineTypeOK
<1>6. sent'[s] = Append(sent[s], m)
  BY <1>1, <1>2, <1>5 DEF Send
<1>7. /\ Len(sent[s]) \in Nat
      /\ Len(sent'[s]) = Len(sent[s]) + 1
      /\ sent'[s][Len(sent[s]) + 1] = m
  BY <1>2, <1>5, <1>6
<1>8. Len(sent[s]) + 1 \notin acked[s]
  <2>1. acked[s] \subseteq 1..cursor[s] /\ cursor[s] <= Len(sent[s]) /\ cursor[s] \in Nat
    BY <1>2 DEF IInv, PipelineTypeOK
  <2>. QED BY <1>7, <2>1
<1>9. Len(sent[s]) + 1 \in 1..Len(sent'[s])
  BY <1>7
<1>10. Len(sent[s]) + 1 \notin acked'[s] /\ sent'[s][Len(sent[s]) + 1].transfer = q
  BY <1>3, <1>4, <1>7, <1>8
<1>11. \E n \in 1..Len(sent'[s]) : n \notin acked'[s] /\ sent'[s][n].transfer = q
  BY <1>9, <1>10
<1>. QED BY <1>11 DEF Unacked

(***************************************************************************)
(* A handler of topology-service that answers while the transfer stays as  *)
(* it is passes the news on.                                               *)
(***************************************************************************)
LEMMA NewsPassedOn ==
  ASSUME IInv, NewsOK, NEW c \in TopologySubject, PublishTransfer(c),
         NEW q, q = InHand(c).transfer,
         eventStatus'[q] = eventStatus[q],
         \/ c = "initiated" /\ (IsC2(q) \/ eventStatus[q] = "IN_PROGRESS")
         \/ c = "received" /\ ~IsC2(q) /\ eventStatus[q] # "IN_PROGRESS"
  PROVE  OnItsWay(q)'
<1>1. pc[c] = "publish" /\ c \in Subject
  BY DEF PublishTransfer, Subject
<1>2. PublishOK(c)
  BY <1>1 DEF IInv, HandlerOK
<1>3. Unacked(Announcement(c), q)' \/ \A s : s = Announcement(c) => Unacked(s, q)'
  BY Announces
<1>4. \A s : s = Announcement(c) => Unacked(s, q)'
  BY Announces
<1>5. CASE c = "initiated"
  <2>1. IsC2(q) => outcome[c] = "COMPLETED"
    BY <1>1, <1>5 DEF NewsOK
  <2>2. ~IsC2(q) => outcome[c] = "NONE" /\ eventStatus[q] = "IN_PROGRESS"
    BY <1>2, <1>5 DEF PublishOK
  <2>3. IsC2(q) => Announcement(c) = "completed"
    BY <1>5, <2>1 DEF Announcement
  <2>4. ~IsC2(q) => Announcement(c) = "created"
    BY <2>2 DEF Announcement
  <2>. QED BY <1>4, <2>2, <2>3, <2>4 DEF OnItsWay
<1>6. CASE c = "received"
  <2>1. outcome[c] = eventStatus[q]
    BY <1>1, <1>6 DEF NewsOK
  <2>2. outcome[c] \in {"PARTIALLY_COMPLETED", "COMPLETED"}
    BY <1>2, <1>6 DEF PublishOK
  <2>3. outcome[c] = "COMPLETED" => Announcement(c) = "completed"
    BY DEF Announcement
  <2>4. outcome[c] = "PARTIALLY_COMPLETED" => Announcement(c) = "updated"
    BY <1>6 DEF Announcement
  <2>. QED BY <1>4, <2>1, <2>2, <2>3, <2>4 DEF OnItsWay
<1>. QED BY <1>5, <1>6 DEF TopologySubject

(***************************************************************************)
(* A handler of compliance-service that answers has brought every row of   *)
(* the transfer as far as its message.                                     *)
(***************************************************************************)
LEMMA NewsArrive ==
  ASSUME IInv, NEW c \in ComplianceSubject, UpdateRequisition(c),
         NEW d \in Document, status[d] # "NONE",
         NEW q, q = Content[d].transfer, q = InHand(c).transfer,
         \/ c = "created" /\ eventStatus[q] = "IN_PROGRESS"
         \/ c = "updated" /\ eventStatus[q] # "COMPLETED"
         \/ c = "completed"
  PROVE  Rank(eventStatus[q]) <= Rank(status'[d])
<1>. DEFINE s == StatusToSet(c)
<1>1. /\ q \in Transfer
      /\ s \in {"IN_PROGRESS", "PARTIALLY_COMPLETED", "COMPLETED"}
      /\ Rank(s) <= Rank(eventStatus[q])
      /\ UpdateForReqNumber(q, s)
  BY RequisitionStep
<1>2. eventStatus[q] \in EventStatus /\ status[d] \in DocumentStatus
  BY <1>1 DEF IInv, GraphInv, GraphTypeOK, PipelineTypeOK, TableTypeOK
<1>3. /\ Rank(eventStatus[q]) \in 0..4
      /\ Rank(status[d]) \in 0..4
      /\ Rank(s) \in 0..4
  BY <1>1, <1>2, RankValues DEF EventStatus, Open, DocumentStatus
<1>4. Rank(eventStatus[q]) <= Rank(s)
  <2>1. c = "created" => s = "IN_PROGRESS"
    BY DEF StatusToSet
  <2>2. c = "updated" => s = "PARTIALLY_COMPLETED"
    <3>1. ASSUME c = "updated"
          PROVE  InHand(c).status = "PARTIALLY_COMPLETED"
      <4>1. c \in Subject /\ pc[c] # "idle"
        BY DEF UpdateRequisition, Subject
      <4>. QED BY <3>1, <4>1, InHandOK DEF MessageOK
    <3>. QED BY <3>1 DEF StatusToSet
  <2>3. c = "completed" => s = "COMPLETED"
    BY DEF StatusToSet
  <2>. HIDE DEF s
  <2>. QED BY <1>2, <2>1, <2>2, <2>3, RankValues DEF EventStatus, Open
<1>. HIDE DEF s
<1>5. status'[d] = IF Rank(s) > Rank(status[d]) THEN s ELSE status[d]
  BY <1>1 DEF UpdateForReqNumber, RowsOf
<1>6. CASE Rank(s) > Rank(status[d])
  BY <1>4, <1>5, <1>6
<1>7. CASE ~(Rank(s) > Rank(status[d]))
  BY <1>3, <1>4, <1>5, <1>7
<1>. QED BY <1>6, <1>7

(***************************************************************************)
(* While a transfer stays as it is, news of it stay on their way until     *)
(* they arrive.                                                            *)
(***************************************************************************)
LEMMA OnItsWayKept ==
  ASSUME IInv, NewsOK, [Next]_vars,
         NEW d \in Document, status[d] # "NONE",
         NEW q, q = Content[d].transfer, OnItsWay(q),
         eventStatus'[q] = eventStatus[q]
  PROVE  OnItsWay(q)' \/ Rank(eventStatus[q]) <= Rank(status'[d])
<1>1. TopologySubject \subseteq Subject /\ ComplianceSubject \subseteq Subject
  BY DEF Subject
<1>2. ASSUME NEW c \in TopologySubject, Unacked(c, q),
             \/ c = "initiated" /\ (IsC2(q) \/ eventStatus[q] = "IN_PROGRESS")
             \/ c = "received" /\ ~IsC2(q) /\ eventStatus[q] # "IN_PROGRESS"
      PROVE  OnItsWay(q)'
  <2>1. CASE Unacked(c, q)'
    BY <1>2, <2>1 DEF OnItsWay, IsC2
  <2>2. CASE Answers(c) /\ InHand(c).transfer = q
    <3>1. PublishTransfer(c)
      BY <2>2 DEF Answers, TopologySubject, ComplianceSubject
    <3>. QED BY <1>2, <2>2, <3>1, NewsPassedOn
  <2>. QED BY <1>1, <1>2, <2>1, <2>2, UnackedKept
<1>3. ASSUME NEW c \in ComplianceSubject, Unacked(c, q),
             \/ c = "created" /\ eventStatus[q] = "IN_PROGRESS"
             \/ c = "updated" /\ eventStatus[q] # "COMPLETED"
             \/ c = "completed"
      PROVE  OnItsWay(q)' \/ Rank(eventStatus[q]) <= Rank(status'[d])
  <2>1. CASE Unacked(c, q)'
    BY <1>3, <2>1 DEF OnItsWay
  <2>2. CASE Answers(c) /\ InHand(c).transfer = q
    <3>1. UpdateRequisition(c)
      BY <2>2 DEF Answers, TopologySubject, ComplianceSubject
    <3>. QED BY <1>3, <2>2, <3>1, NewsArrive
  <2>. QED BY <1>1, <1>3, <2>1, <2>2, UnackedKept
<1>4. "initiated" \in TopologySubject /\ "received" \in TopologySubject
  BY DEF TopologySubject
<1>5. ComplianceSubject = {"created", "updated", "completed"}
  BY DEF ComplianceSubject
<1>. QED BY <1>2, <1>3, <1>4, <1>5 DEF OnItsWay

(***************************************************************************)
(* A transfer's progress changes at the hands of a consumer that has not   *)
(* answered yet.                                                           *)
(***************************************************************************)
LEMMA ProgressIsNews ==
  ASSUME IInv, ProgressOK, SignedFirst, AckedIsDone, NewsOK, [Next]_vars,
         NEW q \in Transfer, eventStatus'[q] # eventStatus[q]
  PROVE  OnItsWay(q)'
<1>1. CASE Create
  <2>1. q = InHand("initiated").transfer /\ ~Created(q) /\ eventStatus'[q] = "IN_PROGRESS"
    BY <1>1, CreateMeans
  <2>2. "initiated" \in TopologySubject /\ pc["initiated"] # "idle" /\ UNCHANGED <<sent, acked>>
    BY <1>1 DEF Create, TopologySubject, broker
  <2>3. ~DoneOK("initiated", InHand("initiated"))
    BY <2>1 DEF DoneOK
  <2>4. Unacked("initiated", q)'
    BY <2>1, <2>2, <2>3, InHandIsUnacked
  <2>. QED BY <2>1, <2>4 DEF OnItsWay
<1>2. ASSUME NEW c \in TopologySubject, Update(c)
      PROVE  OnItsWay(q)'
  <2>1. q = InHand(c).transfer
    <3>1. \A r \in Transfer \ {InHand(c).transfer} : eventStatus'[r] = eventStatus[r]
      BY <1>2, UpdateMeans
    <3>. QED BY <3>1
  <2>2. Created(q) /\ eventStatus'[q] \in {"PARTIALLY_COMPLETED", "COMPLETED"}
    BY <1>2, <2>1, UpdateMeans
  <2>3. ~Received(q, InHand(c).assets)
    BY <1>2, <2>1, RepeatedUpdate
  <2>4. pc[c] = "update" /\ UNCHANGED <<sent, acked>>
    BY <1>2 DEF Update, broker
  <2>5. CASE IsC2(q)
    <3>1. PICK n \in 1..Len(sent["initiated"]) : sent["initiated"][n].transfer = q
      BY <2>2 DEF SignedFirst
    <3>2. eventStatus[q] # "COMPLETED"
      <4>1. GraphGrows
        BY GraphStep
      <4>. QED BY <4>1 DEF GraphGrows
    <3>3. n \notin acked["initiated"]
      BY <2>5, <3>1, <3>2 DEF AckedIsDone, DoneOK, TopologySubject
    <3>4. Unacked("initiated", q)'
      BY <2>4, <3>1, <3>3 DEF Unacked
    <3>. QED BY <2>5, <3>4 DEF OnItsWay, IsC2
  <2>6. CASE ~IsC2(q)
    <3>1. c = "received"
      BY <2>1, <2>4, <2>6 DEF NewsOK, TopologySubject
    <3>2. ~DoneOK(c, InHand(c))
      BY <2>1, <2>3, <3>1 DEF DoneOK
    <3>3. Unacked(c, q)'
      BY <2>1, <2>4, <3>2, InHandIsUnacked
    <3>. QED BY <2>2, <2>6, <3>1, <3>3 DEF OnItsWay, IsC2
  <2>. QED BY <2>5, <2>6
<1>. QED BY <1>1, <1>2, WhoProgresses

LEMMA CatchesUpStep ==
  ASSUME SettleInv, [Next]_vars, NEW d \in Document
  PROVE  CatchesUp(d)'
<1>. DEFINE q == Content[d].transfer
<1>. /\ IInv /\ ProgressOK /\ SignedFirst /\ AckedIsDone /\ NewsOK /\ CatchesUp(d)
     /\ q \in Transfer
  BY DocumentType DEF SettleInv
<1>. SUFFICES ASSUME SignedOnce(d)', Created(q)'
              PROVE  Rank(eventStatus'[q]) <= Rank(status'[d]) \/ OnItsWay(q)'
  BY DEF CatchesUp
<1>1. Content[d].kind = "AUTHORIZATION" /\ signings'[d] = 1
  BY DEF SignedOnce
<1>2. CASE eventStatus'[q] # eventStatus[q]
  BY <1>2, ProgressIsNews
<1>3. CASE eventStatus'[q] = eventStatus[q]
  <2>1. Created(q)
    BY <1>3 DEF Created
  <2>2. signings[d] > 0 /\ status[d] # "NONE"
    BY <1>1, <2>1, AuthorizedBySignature
  <2>3. signings[d] \in Nat
    <3>1. signings[d] \in 0..(MaxMishaps + 1)
      BY DEF IInv, PipelineTypeOK
    <3>. QED BY <3>1, DocumentType
  <2>4. signings'[d] # signings[d] + 1
    BY <1>1, <2>2, <2>3
  <2>5. signings'[d] = signings[d] /\ Rank(status[d]) <= Rank(status'[d])
    BY <2>4, RowsClimb
  <2>6. SignedOnce(d)
    BY <1>1, <2>5 DEF SignedOnce
  <2>7. CASE Rank(eventStatus[q]) <= Rank(status[d])
    <3>1. eventStatus[q] \in EventStatus /\ status[d] \in DocumentStatus /\ status'[d] \in DocumentStatus
      BY TableStep DEF IInv, GraphInv, GraphTypeOK, PipelineTypeOK, TableTypeOK
    <3>2. \A s \in DocumentStatus : Rank(s) \in Nat
      BY RankValues DEF DocumentStatus
    <3>3. Rank(eventStatus[q]) \in Nat /\ Rank(status[d]) \in Nat /\ Rank(status'[d]) \in Nat
      BY <3>1, <3>2 DEF DocumentStatus, EventStatus, Open
    <3>. QED BY <1>3, <2>5, <2>7, <3>3
  <2>8. CASE OnItsWay(q)
    BY <1>3, <2>2, <2>8, OnItsWayKept
  <2>. QED BY <2>1, <2>6, <2>7, <2>8 DEF CatchesUp
<1>. QED BY <1>2, <1>3

-----------------------------------------------------------------------------
LEMMA SettleInit ==
  ASSUME Init
  PROVE  SettleInv
<1>1. IInv
  BY InvariantInit
<1>2. /\ \A q \in Transfer : ~Created(q)
      /\ \A q \in Transfer : \A a \in Asset : involves[q][a] # "COMPLETED"
  BY DEF Init, GraphInit, Created
<1>3. ProgressOK
  <2>1. ASSUME NEW q \in Transfer
        PROVE  /\ ~Received(q, Order[q].assets)
               /\ eventStatus[q] # "COMPLETED"
    <3>1. PICK a \in Order[q].assets : a \in Asset
      BY OrderType
    <3>2. eventStatus[q] = "NONE"
      BY <1>2 DEF Created
    <3>. QED BY <1>2, <3>1, <3>2 DEF Received
  <2>2. \A q \in Transfer : (eventStatus[q] = "COMPLETED") = Received(q, Order[q].assets)
    BY <2>1 DEF Received
  <2>. QED BY <1>2, <2>2 DEF ProgressOK
<1>4. SignedFirst
  <2>1. Len(sent["initiated"]) = 0 /\ \A d \in Document : signings[d] = 0
    BY DEF Init, Subject, TopologySubject
  <2>. QED BY <1>2, <2>1 DEF SignedFirst
<1>5. AckedIsDone
  BY DEF Init, AckedIsDone, Subject
<1>6. NewsOK
  BY DEF Init, NewsOK, Subject, TopologySubject
<1>7. \A d \in Document : CatchesUp(d)
  BY <1>2, DocumentType DEF CatchesUp
<1>. QED BY <1>1, <1>3, <1>4, <1>5, <1>6, <1>7 DEF SettleInv

LEMMA SettleStep ==
  ASSUME SettleInv, [Next]_vars
  PROVE  SettleInv'
<1>1. IInv /\ ProgressOK /\ SignedFirst /\ AckedIsDone /\ NewsOK
  BY DEF SettleInv
<1>2. IInv'
  BY <1>1, InvariantStep
<1>3. ProgressOK'
  BY <1>1, ProgressStep
<1>4. SignedFirst'
  BY <1>1, SignedFirstStep
<1>5. AckedIsDone' /\ NewsOK'
  BY <1>1, AckedStep, NewsStep
<1>6. \A d \in Document : CatchesUp(d)'
  BY CatchesUpStep
<1>. QED BY <1>2, <1>3, <1>4, <1>5, <1>6 DEF SettleInv

(***************************************************************************)
(* The invariant of a pipeline that loses no news: what topology-service   *)
(* acked it has done, a handler publishes what the graph says, and a       *)
(* message that brings an authorization up to date is there as long as it  *)
(* is behind.                                                              *)
(***************************************************************************)
THEOREM SettleInvariant == Spec => []SettleInv
<1>1. Init => SettleInv
  BY SettleInit
<1>2. SettleInv /\ [Next]_vars => SettleInv'
  BY SettleStep
<1>. QED BY <1>1, <1>2, PTL DEF Spec

(***************************************************************************)
(* At least once: of what JetStream will not deliver again, nothing is     *)
(* left to do in the graph.                                                *)
(***************************************************************************)
THEOREM AckedWorkIsDone == Spec => []AckedIsDone
<1>1. SettleInv => AckedIsDone
  BY DEF SettleInv
<1>. QED BY <1>1, SettleInvariant, PTL

(***************************************************************************)
(* When nothing is on its way, an authorization signed once says what the  *)
(* graph says.                                                             *)
(***************************************************************************)
LEMMA SettledAgree ==
  ASSUME SettleInv
  PROVE  SettledDocumentsAgree
<1>. SUFFICES ASSUME Settled, NEW d \in Document,
                     Content[d].kind = "AUTHORIZATION", signings[d] = 1,
                     NEW q, q = Content[d].transfer, eventStatus[q] # "NONE"
              PROVE  status[d] = eventStatus[q]
  BY DEF SettledDocumentsAgree
<1>1. \A c \in Subject : ~Unacked(c, q)
  BY DEF Settled, Unacked
<1>2. ~OnItsWay(q)
  BY <1>1 DEF OnItsWay, Subject, TopologySubject, ComplianceSubject
<1>3. Rank(eventStatus[q]) <= Rank(status[d])
  BY <1>2 DEF SettleInv, CatchesUp, SignedOnce, Created
<1>4. Rank(status[d]) > Rank("SIGNED") => Rank(status[d]) <= Rank(eventStatus[q])
  BY DEF SettleInv, IInv, DocumentsFollowTheGraph
<1>5. eventStatus[q] \in EventStatus /\ status[d] \in DocumentStatus
  BY DocumentType DEF SettleInv, IInv, GraphInv, GraphTypeOK, PipelineTypeOK, TableTypeOK
<1>. QED BY <1>3, <1>4, <1>5, RankValues DEF EventStatus, Open, DocumentStatus

(***************************************************************************)
(* For any number of failures and redeliveries, once both services have    *)
(* acked everything the status of an authorization signed once is that of  *)
(* its transfer (signDocument and the consumers of compliance-service).    *)
(***************************************************************************)
THEOREM DocumentsSettle == Spec => []SettledDocumentsAgree
<1>1. SettleInv => SettledDocumentsAgree
  BY SettledAgree
<1>. QED BY <1>1, SettleInvariant, PTL

(***************************************************************************)
(* What a message handled again after it was acked cannot do.              *)
(***************************************************************************)
LEMMA CreateOfCreated ==
  ASSUME IInv, Create, Created(InHand("initiated").transfer)
  PROVE  UNCHANGED graph
<1>. DEFINE q == InHand("initiated").transfer
            newly == {a \in Order[q].assets \intersect Existing : involves[q][a] = "NONE"}
<1>1. q \in Transfer /\ GraphTypeOK
  BY CreateStep DEF IInv, GraphInv
<1>2. newly = {}
  BY <1>1, OrderType DEF IInv, GraphInv, EdgesOK, Involved
<1>3. /\ eventStatus' = [eventStatus EXCEPT ![q] = IF @ = "NONE" THEN "IN_PROGRESS" ELSE @]
      /\ involves' = [involves EXCEPT
                        ![q] = [a \in Asset |-> IF a \in newly THEN "IN_TRANSIT" ELSE @[a]]]
      /\ assetStatus' = [a \in Asset |-> IF a \in newly THEN "IN_TRANSIT" ELSE assetStatus[a]]
      /\ custody' = custody
  BY DEF Create, CreateTransferEvent
<1>4. eventStatus[q] # "NONE"
  BY DEF Created
<1>. HIDE DEF newly, q
<1>5. eventStatus' = eventStatus
  BY <1>1, <1>3, <1>4 DEF GraphTypeOK
<1>6. assetStatus' = assetStatus
  BY <1>1, <1>2, <1>3 DEF GraphTypeOK
<1>7. involves' = involves
  <2>1. [a \in Asset |-> IF a \in newly THEN "IN_TRANSIT" ELSE involves[q][a]] = involves[q]
    BY <1>1, <1>2 DEF GraphTypeOK
  <2>. QED BY <1>1, <1>3, <2>1 DEF GraphTypeOK
<1>. QED BY <1>3, <1>5, <1>6, <1>7 DEF graph

LEMMA RedeliveredStep ==
  ASSUME SettleInv, [Next]_vars, NEW c \in TopologySubject,
         msg[c] \in acked[c], msg'[c] = msg[c], pc'[c] # pc[c]
  PROVE  /\ UNCHANGED <<eventStatus, involves>>
         /\ pc[c] = "create" => UNCHANGED graph
<1>1. /\ IInv /\ ProgressOK /\ AckedIsDone /\ NewsOK
      /\ c \in Subject
  BY DEF SettleInv, Subject
<1>2. msg[c] # 0 /\ pc[c] # "idle"
  BY <1>1 DEF IInv, PipelineTypeOK
<1>3. ~Rests(c) /\ ~Ends(c) /\ ~Begins(c)
  BY <1>2 DEF Rests, Ends, Begins
<1>4. (c = "initiated" /\ Create) \/ Update(c)
  BY <1>1, <1>3, WhoMoves DEF TopologySubject
<1>5. DoneOK(c, InHand(c))
  BY <1>1 DEF AckedIsDone, InHand
<1>6. CASE c = "initiated" /\ Create
  <2>1. UNCHANGED graph
    BY <1>1, <1>5, <1>6, CreateOfCreated DEF DoneOK
  <2>. QED BY <2>1 DEF graph
<1>7. CASE Update(c)
  <2>. DEFINE q == InHand(c).transfer
  <2>1. InHand(c) \in Messages /\ MessageOK(c, InHand(c))
    BY <1>1, <1>2, InHandOK
  <2>2. q \in Transfer /\ InHand(c).assets \subseteq Order[q].assets
    BY <2>1, DocumentType DEF Messages, MessageOK
  <2>3. c = "received" => Received(q, InHand(c).assets)
    BY <1>5 DEF DoneOK
  <2>4. c = "initiated" => Received(q, InHand(c).assets)
    <3>1. c = "initiated" => IsC2(q)
      BY <1>1, <1>7 DEF NewsOK, Update
    <3>2. c = "initiated" => Received(q, Order[q].assets)
      BY <1>1, <1>5, <2>2, <3>1 DEF DoneOK, ProgressOK
    <3>. QED BY <2>2, <3>2 DEF Received
  <2>5. Received(q, InHand(c).assets)
    BY <2>3, <2>4 DEF TopologySubject
  <2>6. /\ \A r \in Transfer : eventStatus'[r] = eventStatus[r]
        /\ \A r \in Transfer : \A a \in Asset : involves'[r][a] = involves[r][a]
    BY <1>1, <1>7, <2>5, RepeatedUpdate
  <2>7. GraphTypeOK /\ GraphTypeOK'
    BY <1>1, GraphStep DEF IInv, GraphInv
  <2>8. eventStatus' = eventStatus
    BY <2>6, <2>7 DEF GraphTypeOK
  <2>9. \A r \in Transfer : involves'[r] = involves[r]
    <3>1. ASSUME NEW r \in Transfer
          PROVE  /\ involves[r] \in [Asset -> {"NONE", "IN_TRANSIT", "COMPLETED"}]
                 /\ involves'[r] \in [Asset -> {"NONE", "IN_TRANSIT", "COMPLETED"}]
      BY <2>7 DEF GraphTypeOK
    <3>. QED BY <2>6, <3>1
  <2>10. involves' = involves
    BY <2>7, <2>9 DEF GraphTypeOK
  <2>11. pc[c] # "create"
    BY <1>7 DEF Update
  <2>. QED BY <2>8, <2>10, <2>11
<1>. QED BY <1>4, <1>6, <1>7

(***************************************************************************)
(* A message handled again after it was acked takes no transfer back and   *)
(* none forward, and an authorization handled again changes nothing.       *)
(***************************************************************************)
THEOREM RedeliveryKeepsTransfers == Spec => RedeliveryKeepsProgress
<1>1. SettleInv /\ [Next]_vars =>
        [\A c \in TopologySubject :
           msg[c] \in acked[c] /\ msg'[c] = msg[c] /\ pc'[c] # pc[c] =>
             /\ UNCHANGED <<eventStatus, involves>>
             /\ pc[c] = "create" => UNCHANGED graph]_vars
  BY RedeliveredStep
<1>. QED BY <1>1, SettleInvariant, PTL DEF Spec, RedeliveryKeepsProgress

(***************************************************************************)
(* A row of a document falls back only when the document is signed again.  *)
(***************************************************************************)
THEOREM RowsOnlyClimb == Spec => RowsNeverFallBack
<1>1. IInv /\ [Next]_vars =>
        [\A d \in Document :
           signings'[d] = signings[d] => Rank(status[d]) <= Rank(status'[d])]_vars
  <2>. SUFFICES ASSUME IInv, [Next]_vars, NEW d \in Document, signings'[d] = signings[d]
                PROVE  Rank(status[d]) <= Rank(status'[d])
    OBVIOUS
  <2>1. signings[d] \in Nat
    <3>1. signings[d] \in 0..(MaxMishaps + 1)
      BY DEF IInv, PipelineTypeOK
    <3>. QED BY <3>1, DocumentType
  <2>2. signings'[d] # signings[d] + 1
    BY <2>1
  <2>. QED BY <2>2, RowsClimb
<1>. QED BY <1>1, InvariantHolds, PTL DEF Spec, RowsNeverFallBack

(***************************************************************************)
(* The ledger may assume PayloadAgreement of what topology-service and     *)
(* compliance-service publish.                                             *)
(***************************************************************************)
THEOREM LedgerInputAgrees == Spec => []EventsAgree
<1>1. ASSUME IInv
      PROVE  EventsAgree
  <2>. SUFFICES ASSUME NEW b \in Subject, NEW c \in Subject,
                       NEW i \in 1..Len(sent[b]), NEW j \in 1..Len(sent[c]),
                       NEW m, m = sent[b][i], NEW n, n = sent[c][j],
                       WriteOnePath(b, m, c, n)
                PROVE  m.transfer = n.transfer /\ m.assets = n.assets
    BY DEF EventsAgree
  <2>1. MessageOK(b, m) /\ MessageOK(c, n)
    BY <1>1, InStream
  <2>2. CASE {b, c} \subseteq {"created", "completed"} /\ m.transfer = n.transfer
    <3>1. b \in ComplianceSubject /\ c \in ComplianceSubject
      BY <2>2 DEF ComplianceSubject
    <3>. QED BY <2>1, <2>2, <3>1 DEF MessageOK
  <2>3. CASE b = "received" /\ c = "received" /\ m.document = n.document
    <3>1. b \in TopologySubject /\ c \in TopologySubject
      BY <2>3 DEF TopologySubject
    <3>. QED BY <2>1, <2>3, <3>1 DEF MessageOK
  <2>. QED BY <2>2, <2>3 DEF WriteOnePath
<1>. QED BY <1>1, InvariantHolds, PTL
=============================================================================
