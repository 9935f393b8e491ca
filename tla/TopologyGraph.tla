---------------------------- MODULE TopologyGraph ----------------------------
(***************************************************************************)
(* The Neo4j graph of topology-service: who holds which asset, and which   *)
(* transfers are under way.  Every repository method runs one query in one *)
(* managed transaction, so each is one operator here; the steps between    *)
(* two of them belong to TransferPipeline.                                 *)
(***************************************************************************)
EXTENDS Naturals, FiniteSets

CONSTANTS
  Organization,
  Asset,
  Transfer,     \* requisition numbers, the key of TransferEvent nodes
  Order,        \* what is authorised: [Transfer -> type, sender, receiver, assets]
  SeedCustody   \* the HAS_CUSTODY edges the seed merges on every boot

TransferType == {"PHYSICAL_TRANSFER", "C2_TRANSFER"}
Open == {"IN_PROGRESS", "PARTIALLY_COMPLETED"}
EventStatus == {"NONE", "COMPLETED"} \union Open

ASSUME OrderType ==
  /\ SeedCustody \subseteq Organization \X Asset
  /\ \A q \in Transfer : /\ Order[q].type \in TransferType
                         /\ Order[q].sender \in Organization
                         /\ Order[q].receiver \in Organization
                         /\ Order[q].assets \subseteq Asset
                         /\ Order[q].assets # {}

VARIABLES
  custody,      \* HAS_CUSTODY: organization, asset
  assetStatus,  \* Asset.status, ABSENT for a node that is not there
  eventStatus,  \* TransferEvent.status, NONE for a node that is not there
  involves      \* INVOLVES.status, NONE for an edge that is not there

graph == <<custody, assetStatus, eventStatus, involves>>

Seeded == {c[2] : c \in SeedCustody}
Existing == {a \in Asset : assetStatus[a] # "ABSENT"}
Involved(q) == {a \in Asset : involves[q][a] # "NONE"}
Custodians(a) == {o \in Organization : <<o, a>> \in custody}

GraphTypeOK ==
  /\ custody \subseteq Organization \X Asset
  /\ assetStatus \in [Asset -> {"ABSENT", "AVAILABLE", "IN_TRANSIT"}]
  /\ eventStatus \in [Transfer -> EventStatus]
  /\ involves \in [Transfer -> [Asset -> {"NONE", "IN_TRANSIT", "COMPLETED"}]]

(***************************************************************************)
(* An empty database after the first boot's seed.                          *)
(***************************************************************************)
GraphInit ==
  /\ custody = SeedCustody
  /\ assetStatus = [a \in Asset |-> IF a \in Seeded THEN "AVAILABLE" ELSE "ABSENT"]
  /\ eventStatus = [q \in Transfer |-> "NONE"]
  /\ involves = [q \in Transfer |-> [a \in Asset |-> "NONE"]]

(***************************************************************************)
(* seedSpaceCustodyGraphTopology on a later boot: nodes are MERGEd ON      *)
(* CREATE and stay as they are, custody edges are MERGEd as they are in    *)
(* the script, whoever holds the asset by now.                             *)
(***************************************************************************)
Seed ==
  /\ custody' = custody \union SeedCustody
  /\ UNCHANGED <<assetStatus, eventStatus, involves>>

(***************************************************************************)
(* AssetsRepository.createAsset; the unique constraint on id rejects a     *)
(* second one.                                                             *)
(***************************************************************************)
CreateAsset(o, a) ==
  /\ a \notin Existing
  /\ assetStatus' = [assetStatus EXCEPT ![a] = "AVAILABLE"]
  /\ custody' = custody \union {<<o, a>>}
  /\ UNCHANGED <<eventStatus, involves>>

(***************************************************************************)
(* Mutant: asset.status is set outside ON CREATE.                          *)
(***************************************************************************)
AlwaysInTransit(q) ==
  LET linked == {a \in Order[q].assets \intersect Existing : involves[q][a] = "NONE"}
  IN  /\ eventStatus' = [eventStatus EXCEPT
                           ![q] = IF @ = "NONE" THEN "IN_PROGRESS" ELSE @]
      /\ involves' = [involves EXCEPT
                        ![q] = [a \in Asset |-> IF a \in linked THEN "IN_TRANSIT" ELSE @[a]]]
      /\ assetStatus' = [a \in Asset |-> IF a \in Order[q].assets
                                           THEN "IN_TRANSIT" ELSE assetStatus[a]]
      /\ UNCHANGED custody

(***************************************************************************)
(* createTransferEvent: MERGE the node by requisition number, keep its     *)
(* progress if it is there, link the assets and lock those newly linked.   *)
(***************************************************************************)
CreateTransferEvent(q) ==
  LET linked == {a \in Order[q].assets \intersect Existing : involves[q][a] = "NONE"}
  IN  /\ eventStatus' = [eventStatus EXCEPT
                           ![q] = IF @ = "NONE" THEN "IN_PROGRESS" ELSE @]
      /\ involves' = [involves EXCEPT
                        ![q] = [a \in Asset |-> IF a \in linked THEN "IN_TRANSIT" ELSE @[a]]]
      /\ assetStatus' = [a \in Asset |-> IF a \in linked
                                           THEN "IN_TRANSIT" ELSE assetStatus[a]]
      /\ UNCHANGED custody

(***************************************************************************)
(* Mutant: any(...) in place of all(...).                                  *)
(***************************************************************************)
AnyReceived(q, received) ==
  IF \E a \in Involved(q) : a \in received \/ involves[q][a] = "COMPLETED"
    THEN "COMPLETED" ELSE "PARTIALLY_COMPLETED"

(***************************************************************************)
(* calculatedStatus, once the assets received are COMPLETED.               *)
(***************************************************************************)
CalculatedStatus(q, received) ==
  IF \A a \in Involved(q) \ received : involves[q][a] = "COMPLETED"
    THEN "COMPLETED" ELSE "PARTIALLY_COMPLETED"

(***************************************************************************)
(* Mutant: the old custody edge stays.                                     *)
(***************************************************************************)
KeepsOldCustody(q, received) ==
  /\ involves' = [involves EXCEPT
                    ![q] = [a \in Asset |-> IF a \in received THEN "COMPLETED" ELSE @[a]]]
  /\ assetStatus' = [a \in Asset |-> IF a \in received THEN "AVAILABLE" ELSE assetStatus[a]]
  /\ custody' = custody \union {<<Order[q].receiver, a>> : a \in received}
  /\ eventStatus' = [eventStatus EXCEPT ![q] = CalculatedStatus(q, received)]

(***************************************************************************)
(* updateTransferEvent: complete the edges of the assets received, release *)
(* the assets, hand them to the receiver, and evaluate the whole event.    *)
(***************************************************************************)
UpdateTransferEvent(q, received) ==
  /\ involves' = [involves EXCEPT
                    ![q] = [a \in Asset |-> IF a \in received THEN "COMPLETED" ELSE @[a]]]
  /\ assetStatus' = [a \in Asset |-> IF a \in received THEN "AVAILABLE" ELSE assetStatus[a]]
  /\ custody' = {c \in custody : c[2] \notin received}
                  \union {<<Order[q].receiver, a>> : a \in received}
  /\ eventStatus' = [eventStatus EXCEPT ![q] = CalculatedStatus(q, received)]

-----------------------------------------------------------------------------
(***************************************************************************)
(* Mutant: only IN_PROGRESS counts as active.                              *)
(***************************************************************************)
NotYetReceived == {q \in Transfer : eventStatus[q] = "IN_PROGRESS"}

(***************************************************************************)
(* GraphRepository.getGraph, as the network canvas draws it: the transfers *)
(* under way with their assets, and custody of every asset that is not in  *)
(* transit.                                                                *)
(***************************************************************************)
ActiveTransfers == {q \in Transfer : eventStatus[q] \in Open}

CustodyLinks ==
  {c \in custody : \A q \in Transfer : involves[q][c[2]] # "IN_TRANSIT"}

(***************************************************************************)
(* The requisition findAssets reports for an asset in transit.             *)
(***************************************************************************)
RequisitionsOf(a) ==
  {q \in ActiveTransfers : involves[q][a] = "IN_TRANSIT"}
=============================================================================
