--------------------------- MODULE ReceiptPageProofs ---------------------------
(***************************************************************************)
(* Proofs about ReceiptPage: for every set of transfers and assets, any    *)
(* number of choices and failures, and answers in any order.               *)
(***************************************************************************)
EXTENDS ReceiptPage, FiniteSetTheorems, TLAPS

(***************************************************************************)
(* An organization as it is listed, with the requisitions it has a part in. *)
(***************************************************************************)
Party == [id : Organization, requisitions : (SUBSET Requisition) \ {{}}]

(***************************************************************************)
(* A list that is not loading was answered for the filter asked last (or   *)
(* is empty, after an error).                                              *)
(***************************************************************************)
ListsOK ==
  \A q \in Query : ~busy[q] => items[q] \subseteq Result(q)

ReceiptInv ==
  /\ ReceiptTypeOK
  /\ items = [q \in Query |-> items[q]]
  /\ \A s \in OrgSelector : items[s] \subseteq Party
  /\ items["assets"] \subseteq Asset
  /\ \A filter \in fetches : filter = Unfiltered \/ filter \subseteq Requisition
  /\ ListsOK

LEMMA Kinds ==
  /\ OrgSelector = {"from", "receiving"}
  /\ Query = {"from", "receiving", "assets"}
  /\ None \notin Organization /\ None \notin Asset /\ None \notin Requisition
  /\ Nobody \notin Party /\ Nobody.id = None
BY ShipmentType DEF OrgSelector, Query, Party, Nobody

(***************************************************************************)
(* What a selector offers and keeps is on its list.                        *)
(***************************************************************************)
LEMMA SynchronizedIsOffered ==
  ASSUME NEW chosen, NEW offered, NEW suppressed
  PROVE  /\ Synchronized(chosen, offered, suppressed) \in offered \union {chosen, None}
         /\ (Synchronized(chosen, offered, suppressed) = chosen /\ chosen # None)
              => chosen \in offered
<1>1. Cardinality({}) = 0
  BY FS_EmptySet
<1>2. Cardinality(offered) = 1 => (CHOOSE o \in offered : TRUE) \in offered
  BY <1>1
<1>. QED BY <1>2 DEF Synchronized

LEMMA OptionsListed ==
  ASSUME NEW s \in OrgSelector, NEW id \in Options(s)
  PROVE  /\ \E o \in items[s] : o.id = id
         /\ s = "receiving" /\ Own # None => id = Own
BY DEF Options, Offered

LEMMA ResultsListed ==
  /\ \A s \in OrgSelector : Result(s) \subseteq Party
  /\ Result("assets") \subseteq Asset
<1>1. ASSUME NEW s \in OrgSelector
      PROVE  Result(s) \subseteq Party
  <2>1. Result(s) = FindOrganizations(s, asked[s])
    BY <1>1 DEF Result, OrgSelector
  <2>2. \A o : Requisitions(s, o, asked[s]) \subseteq Requisition
    BY DEF Requisitions
  <2>3. ASSUME NEW p \in FindOrganizations(s, asked[s])
        PROVE  p \in Party
    <3>. DEFINE of(o) == Requisitions(s, o, asked[s])
    <3>1. \A o : of(o) \in SUBSET Requisition
      BY <2>2
    <3>2. p \in {[id |-> o, requisitions |-> of(o)] : o \in {o \in Organization : of(o) # {}}}
      BY <2>3 DEF FindOrganizations
    <3>. HIDE DEF of
    <3>3. PICK o \in Organization : p = [id |-> o, requisitions |-> of(o)] /\ of(o) # {}
      BY <3>2
    <3>4. of(o) \in (SUBSET Requisition) \ {{}}
      BY <3>1, <3>3
    <3>. QED BY <3>3, <3>4 DEF Party
  <2>. QED BY <2>1, <2>3
<1>2. Result("assets") \subseteq Asset
  BY DEF Result, FindAssets
<1>. QED BY <1>1, <1>2

LEMMA SameQuestion ==
  ASSUME NEW q \in Query, asked'[q] = asked[q]
  PROVE  Result(q)' = Result(q)
BY DEF Result, FindOrganizations, FindAssets, Requisitions

(***************************************************************************)
(* What is emitted for an organization offered is its entry in the list.   *)
(***************************************************************************)
LEMMA EmittedIsListed ==
  ASSUME NEW s \in OrgSelector, NEW id \in Options(s)
  PROVE  id # None => Emitted(s, id) \in items[s] /\ Emitted(s, id).id = id
<1>1. \E o \in items[s] : o.id = id
  BY OptionsListed
<1>. QED BY <1>1 DEF Emitted

-----------------------------------------------------------------------------
LEMMA ReceiptInit ==
  ASSUME Init
  PROVE  ReceiptInv
<1>1. ReceiptTypeOK
  BY Kinds DEF Init, ReceiptTypeOK
<1>2. ListsOK
  BY DEF Init, ListsOK
<1>. QED BY <1>1, <1>2, Kinds DEF Init, ReceiptInv

LEMMA OrgAfterType ==
  ASSUME ReceiptInv, NEW s \in OrgSelector
  PROVE  OrgAfter(s) \in Party \union {Nobody}
<1>. DEFINE id == Synchronized(org[s].id, Options(s), Suppressed(s))
<1>1. org[s] \in Party \union {Nobody} /\ items[s] \subseteq Party
  BY DEF ReceiptInv, ReceiptTypeOK, Party
<1>2. CASE busy[s] \/ id = org[s].id
  BY <1>1, <1>2 DEF OrgAfter
<1>3. CASE ~(busy[s] \/ id = org[s].id)
  <2>1. id \in Options(s) \union {None}
    BY <1>3, SynchronizedIsOffered
  <2>2. id = None => Emitted(s, id) = Nobody
    BY DEF Emitted
  <2>3. id # None => Emitted(s, id) \in items[s]
    BY <2>1, EmittedIsListed
  <2>4. OrgAfter(s) = Emitted(s, id)
    BY <1>3 DEF OrgAfter
  <2>. QED BY <1>1, <2>2, <2>3, <2>4
<1>. QED BY <1>2, <1>3

LEMMA FilterType == Filter = Unfiltered \/ Filter \subseteq Requisition
BY DEF Filter

LEMMA RenderStep ==
  ASSUME ReceiptInv, Render
  PROVE  ReceiptInv'
<1>1. /\ org' = [s \in OrgSelector |-> OrgAfter(s)]
      /\ assets' = AssetsAfter
      /\ asked' = [q \in Query |-> Key(q)]
      /\ busy' = [q \in Query |-> busy[q] \/ Changed(q)]
      /\ failed' = [q \in Query |-> failed[q] /\ ~Changed(q)]
      /\ UNCHANGED <<event, items>>
  BY DEF Render
<1>2. org' \in [OrgSelector -> Party \union {Nobody}]
  BY <1>1, OrgAfterType
<1>3. fetches' \subseteq fetches \union {Filter} /\ rows' \subseteq rows
  <2>1. FetchDocuments
    BY DEF Render
  <2>2. CASE Filter = shown
    BY <2>1, <2>2 DEF FetchDocuments
  <2>3. CASE Filter = {} /\ Filter # shown
    BY <2>1, <2>3 DEF FetchDocuments
  <2>4. CASE Filter # {} /\ Filter # shown
    BY <2>1, <2>4 DEF FetchDocuments
  <2>. QED BY <2>2, <2>3, <2>4
<1>4. ReceiptTypeOK'
  <2>1. busy' \in [Query -> BOOLEAN] /\ failed' \in [Query -> BOOLEAN]
    BY <1>1 DEF ReceiptInv, ReceiptTypeOK, Changed
  <2>2. assets' \subseteq assets
    BY <1>1 DEF AssetsAfter
  <2>. QED BY <1>1, <1>2, <1>3, <2>1, <2>2 DEF ReceiptInv, ReceiptTypeOK, Party
<1>5. ListsOK'
  <2>1. ASSUME NEW q \in Query, ~busy'[q]
        PROVE  items'[q] \subseteq Result(q)'
    <3>1. ~busy[q] /\ ~Changed(q)
      BY <1>1, <2>1
    <3>2. asked'[q] = asked[q]
      BY <1>1, <3>1 DEF Changed
    <3>. QED BY <1>1, <3>1, <3>2, SameQuestion DEF ReceiptInv, ListsOK
  <2>. QED BY <2>1 DEF ListsOK
<1>6. \A filter \in fetches' : filter = Unfiltered \/ filter \subseteq Requisition
  BY <1>3, FilterType DEF ReceiptInv
<1>. QED BY <1>1, <1>4, <1>5, <1>6 DEF ReceiptInv, Unfiltered

(***************************************************************************)
(* The request of one list ends, with an answer or an error.               *)
(***************************************************************************)
LEMMA ListStep ==
  ASSUME ReceiptInv, NEW q \in Query, Answer(q) \/ Fail(q)
  PROVE  ReceiptInv'
<1>1. PICK answer \in {{}, Result(q)} :
        /\ busy' = [busy EXCEPT ![q] = FALSE]
        /\ items' = [items EXCEPT ![q] = answer]
  BY DEF Answer, Fail
<1>2. UNCHANGED <<org, assets, event, asked, cleared, shown, fetches, loading, error, rows>>
  BY DEF Answer, Fail, choice, table
<1>3. failed' \in [Query -> BOOLEAN]
  BY DEF Answer, Fail, ReceiptInv, ReceiptTypeOK
<1>4. /\ busy' \in [Query -> BOOLEAN]
      /\ \A p \in Query \ {q} : busy'[p] = busy[p]
  BY <1>1 DEF ReceiptInv, ReceiptTypeOK
<1>5. /\ items' = [p \in Query |-> items'[p]] /\ items'[q] = answer
      /\ \A p \in Query \ {q} : items'[p] = items[p]
  <2>1. items' = [p \in Query |-> IF p = q THEN answer ELSE items[p]]
    BY <1>1 DEF ReceiptInv
  <2>. QED BY <2>1
<1>6. (\A s \in OrgSelector : items'[s] \subseteq Party) /\ items'["assets"] \subseteq Asset
  <2>1. answer \subseteq Result(q)
    OBVIOUS
  <2>2. ASSUME NEW s \in OrgSelector
        PROVE  items'[s] \subseteq Party
    <3>1. CASE s = q
      BY <1>5, <2>1, <3>1, ResultsListed
    <3>2. CASE s # q
      BY <1>5, <3>2, Kinds DEF ReceiptInv
    <3>. QED BY <3>1, <3>2
  <2>3. items'["assets"] \subseteq Asset
    BY <1>5, <2>1, ResultsListed, Kinds DEF ReceiptInv
  <2>. QED BY <2>2, <2>3
<1>7. ReceiptTypeOK'
  BY <1>2, <1>3, <1>4 DEF ReceiptInv, ReceiptTypeOK
<1>8. ListsOK'
  <2>1. ASSUME NEW p \in Query, ~busy'[p]
        PROVE  items'[p] \subseteq Result(p)'
    <3>1. Result(p)' = Result(p)
      BY <1>2, SameQuestion
    <3>2. CASE p = q
      BY <1>5, <3>1, <3>2
    <3>3. CASE p # q
      BY <1>4, <1>5, <2>1, <3>1, <3>3 DEF ReceiptInv, ListsOK
    <3>. QED BY <3>2, <3>3
  <2>. QED BY <2>1 DEF ListsOK
<1>. QED BY <1>2, <1>5, <1>6, <1>7, <1>8 DEF ReceiptInv, Unfiltered

(***************************************************************************)
(* Answers to the table change its rows only.                              *)
(***************************************************************************)
LEMMA DocumentsStep ==
  ASSUME ReceiptInv, Documents
  PROVE  ReceiptInv'
<1>1. UNCHANGED <<org, assets, event, asked, busy, failed, items>>
  BY DEF Documents, DocumentsArrive, DocumentsFail, choice, requests
<1>2. fetches' \subseteq fetches /\ rows' \subseteq Requisition
  BY DEF Documents, DocumentsArrive, DocumentsFail, FindDocuments, ReceiptInv, ReceiptTypeOK
<1>3. ListsOK'
  BY <1>1, SameQuestion DEF ReceiptInv, ListsOK
<1>. QED BY <1>1, <1>2, <1>3 DEF ReceiptInv, ReceiptTypeOK, Unfiltered

LEMMA UserStep ==
  ASSUME ReceiptInv, User
  PROVE  ReceiptInv'
<1>1. UNCHANGED <<asked, busy, failed, items, shown, fetches, loading, error, rows>>
  BY DEF User, requests, table
<1>2. ListsOK'
  BY <1>1, SameQuestion DEF ReceiptInv, ListsOK
<1>3. ReceiptTypeOK'
  <2>1. ASSUME NEW s \in OrgSelector, NEW id \in Organization \union {None}, PickOrg(s, id)
        PROVE  ReceiptTypeOK'
    <3>1. /\ id \in Options(s) \union {None}
          /\ org' = [org EXCEPT ![s] = Emitted(s, id)]
          /\ UNCHANGED <<assets, event>>
      BY <2>1 DEF PickOrg
    <3>2. Emitted(s, id) \in Party \union {Nobody}
      <4>1. id = None => Emitted(s, id) = Nobody
        BY DEF Emitted
      <4>2. id # None => Emitted(s, id) \in items[s]
        BY <3>1, EmittedIsListed
      <4>. QED BY <4>1, <4>2 DEF ReceiptInv
    <3>3. org \in [OrgSelector -> Party \union {Nobody}]
      BY DEF ReceiptInv, ReceiptTypeOK, Party
    <3>4. org' \in [OrgSelector -> Party \union {Nobody}]
      BY <3>1, <3>2, <3>3
    <3>. QED BY <1>1, <3>1, <3>4 DEF ReceiptInv, ReceiptTypeOK, Party
  <2>2. ASSUME NEW a \in Asset, ToggleAsset(a)
        PROVE  ReceiptTypeOK'
    BY <1>1, <2>2 DEF ReceiptInv, ReceiptTypeOK, ToggleAsset
  <2>3. ASSUME NEW r \in Requisition, SelectRow(r)
        PROVE  ReceiptTypeOK'
    BY <1>1, <2>3 DEF ReceiptInv, ReceiptTypeOK, SelectRow
  <2>. QED BY <2>1, <2>2, <2>3 DEF User
<1>. QED BY <1>1, <1>2, <1>3 DEF ReceiptInv, Unfiltered

LEMMA ReceiptStep ==
  ASSUME ReceiptInv, [Next]_vars
  PROVE  ReceiptInv'
<1>1. CASE Render
  BY <1>1, RenderStep
<1>2. ASSUME NEW q \in Query, Answer(q) \/ Fail(q)
      PROVE  ReceiptInv'
  BY <1>2, ListStep
<1>3. CASE Documents
  BY <1>3, DocumentsStep
<1>4. CASE User
  BY <1>4, UserStep
<1>5. CASE UNCHANGED vars
  <2>1. UNCHANGED <<org, assets, event, asked, busy, failed, items, fetches, rows>>
    BY <1>5 DEF vars, choice, requests, table
  <2>2. ListsOK'
    BY <2>1, SameQuestion DEF ReceiptInv, ListsOK
  <2>. QED BY <2>1, <2>2 DEF ReceiptInv, ReceiptTypeOK, Unfiltered
<1>. QED BY <1>1, <1>2, <1>3, <1>4, <1>5 DEF Next, Page

-----------------------------------------------------------------------------
(***************************************************************************)
(* What the effects of the receipt page find in every commit.              *)
(***************************************************************************)
THEOREM ReceiptInvariant == Spec => []ReceiptInv
<1>1. Init => ReceiptInv
  BY ReceiptInit
<1>2. ReceiptInv /\ [Next]_vars => ReceiptInv'
  BY ReceiptStep
<1>. QED BY <1>1, <1>2, PTL DEF Spec

(***************************************************************************)
(* An organization is only ever selected with the requisitions it was      *)
(* listed for, and the page's choices, flags and rows keep their kind.     *)
(***************************************************************************)
THEOREM ReceiptTypeCorrect == Spec => []ReceiptTypeOK
<1>1. ReceiptInv => ReceiptTypeOK
  BY DEF ReceiptInv
<1>. QED BY <1>1, ReceiptInvariant, PTL

(***************************************************************************)
(* An organization a selector at rest shows is on its list, whatever list  *)
(* it was chosen from.                                                     *)
(***************************************************************************)
LEMMA ShownIsListed ==
  ASSUME ReceiptInv, Settled, NEW s \in OrgSelector, org[s] # Nobody
  PROVE  /\ \E r \in Requisition : r \in Requisitions(s, org[s].id, Key(s))
         /\ s = "receiving" /\ Own # None => org[s].id = Own
<1>. DEFINE id == Synchronized(org[s].id, Options(s), Suppressed(s))
<1>1. ~busy[s] /\ OrgAfter(s) = org[s] /\ asked[s] = Key(s)
  BY Kinds DEF Settled, Quiet, Changed
<1>2. org[s] \in Party /\ org[s].id # None
  <2>1. org[s] \in Party
    BY DEF ReceiptInv, ReceiptTypeOK, Party
  <2>. QED BY <2>1, Kinds DEF Party
<1>3. id = org[s].id
  <2>1. SUFFICES ASSUME id # org[s].id PROVE FALSE
    OBVIOUS
  <2>2. Emitted(s, id) = org[s]
    BY <1>1, <2>1 DEF OrgAfter
  <2>3. id # None
    BY <2>2 DEF Emitted
  <2>4. id \in Options(s)
    BY <2>1, <2>3, SynchronizedIsOffered
  <2>5. Emitted(s, id).id = id
    BY <2>3, <2>4, EmittedIsListed
  <2>. QED BY <2>1, <2>2, <2>5
<1>4. org[s].id \in Options(s)
  BY <1>2, <1>3, SynchronizedIsOffered
<1>5. PICK o \in items[s] : o.id = org[s].id
  BY <1>4, OptionsListed
<1>6. o \in FindOrganizations(s, Key(s))
  BY <1>1, <1>5, Kinds DEF ReceiptInv, ListsOK, Result
<1>7. Requisitions(s, org[s].id, Key(s)) # {}
  BY <1>5, <1>6 DEF FindOrganizations
<1>. QED BY <1>4, <1>7, OptionsListed DEF Requisitions

(***************************************************************************)
(* The receipt that TransferReceiptPage passes to the workflow once        *)
(* isReadyForPdf and at rest is of one transfer, with its sender, its      *)
(* receiver and assets it moves.                                           *)
(***************************************************************************)
THEOREM ReceiptIsSound == Spec => []SettledReceiptIsSound
<1>1. ASSUME ReceiptInv, Settled, Ready
      PROVE  /\ org["from"].id = Shipment[event].sender
             /\ org["receiving"].id = Shipment[event].receiver
             /\ Own # None => org["receiving"].id = Own
             /\ \A a \in assets : Inventory[a].transfer = event
  <2>1. event # None /\ org["from"] # Nobody /\ org["receiving"] # Nobody
    BY <1>1, Kinds DEF Ready
  <2>2. \A q \in Query : Key(q).event = event
    BY Kinds DEF Key
  <2>3. PICK r \in Requisition : r \in Requisitions("from", org["from"].id, Key("from"))
    BY <1>1, <2>1, ShownIsListed, Kinds
  <2>4. org["from"].id = Shipment[event].sender
    BY <2>1, <2>2, <2>3, Kinds DEF Requisitions
  <2>5. PICK t \in Requisition :
          t \in Requisitions("receiving", org["receiving"].id, Key("receiving"))
    BY <1>1, <2>1, ShownIsListed, Kinds
  <2>6. org["receiving"].id = Shipment[event].receiver
    BY <2>1, <2>2, <2>5, Kinds DEF Requisitions
  <2>7. Own # None => org["receiving"].id = Own
    BY <1>1, <2>1, ShownIsListed, Kinds
  <2>8. ~busy["assets"] /\ assets \subseteq items["assets"] /\ asked["assets"] = Key("assets")
    BY <1>1, Kinds DEF Settled, Quiet, Changed, AssetsAfter
  <2>9. assets \subseteq FindAssets(Key("assets"))
    BY <1>1, <2>8, Kinds DEF ReceiptInv, ListsOK, Result
  <2>10. \A a \in assets : Inventory[a].transfer = event
    BY <2>1, <2>2, <2>9, Kinds DEF FindAssets
  <2>. QED BY <2>4, <2>6, <2>7, <2>10
<1>2. ReceiptInv => SettledReceiptIsSound
  BY <1>1 DEF SettledReceiptIsSound
<1>. QED BY <1>2, ReceiptInvariant, PTL
=============================================================================
