----------------------------- MODULE ReceiptPage -----------------------------
(***************************************************************************)
(* The page on which an officer receives assets (TransferReceiptPage.tsx): *)
(* a table of the documents of open transfers, two organization selectors  *)
(* and an asset selector.  The row chosen pins the transfer the selectors  *)
(* list; the selections leave in the table the requisitions they have in   *)
(* common, as they were when each selection was made.                      *)
(*                                                                         *)
(* The selectors' requests are as in CustodyPage: a new filter aborts the  *)
(* request in flight.  The table's are not aborted (useDocuments.ts): the  *)
(* answers to an old and a new filter are both shown, in the order in      *)
(* which they come.                                                        *)
(***************************************************************************)
EXTENDS Integers, Selectors

CONSTANTS
  Organization,  \* the organizations of the topology service
  Own,           \* the organization of the signed-in profile, or None
  Shipment,      \* the transfers, by their requisition numbers
  Inventory,     \* the assets in transit: place in lists, transfer
  MaxPicks,      \* bound: choices the user makes
  MaxFailures    \* bound: requests that fail

Asset == DOMAIN Inventory
Requisition == DOMAIN Shipment
OrgSelector == {"from", "receiving"}
Query == OrgSelector \cup {"assets"}
Unfiltered == {None}  \* no requisitionNumbers filter; {} matches nothing

ASSUME ShipmentType ==
  /\ None \notin Organization \cup Asset \cup Requisition
  /\ Own \in Organization \cup {None}
  /\ Shipment \in [Requisition -> [sender : Organization, receiver : Organization,
                                   open : BOOLEAN]]
  /\ Inventory \in [Asset -> [transfer : Requisition, place : Nat]]
  /\ \A a, b \in Asset : Inventory[a].place = Inventory[b].place => a = b

VARIABLES
  org,      \* fromOrg and receivingOrg as selected: [id, requisitions]
  assets,   \* the assets selected
  event,    \* transferEventId (and requisitionNumber) of the row selected
  asked, busy, failed, items, cleared,  \* the selectors', as in CustodyPage
  shown,    \* the filter the table last asked for
  fetches,  \* the table's requests under way, by filter
  loading,  \* the table's loading
  error,    \* the table's error
  rows,     \* the documents in the table
  picks,    \* choices made so far
  failures  \* requests failed so far

choice == <<org, assets, event>>
requests == <<asked, busy, failed, items>>
table == <<shown, fetches, loading, error, rows>>
vars == <<choice, requests, cleared, table, picks, failures>>

Nobody == [id |-> None, requisitions |-> {}]

-----------------------------------------------------------------------------
(* What is asked and what the services answer. *)

FirstOf(chosen) ==
  IF chosen = {} THEN None
  ELSE CHOOSE a \in chosen :
         \A b \in chosen : Inventory[a].place <= Inventory[b].place

(* Mutant: the row chosen is not passed on to the selectors. *)
ForgetsTransfer(q) ==
  CASE q = "from"      -> [owned |-> FirstOf(assets), exclude |-> org["receiving"].id,
                           event |-> None]
    [] q = "receiving" -> [owned |-> None, exclude |-> org["from"].id, event |-> None]
    [] q = "assets"    -> [owner |-> org["from"].id, event |-> None]

Key(q) ==
  CASE q = "from"      -> [owned |-> FirstOf(assets), exclude |-> org["receiving"].id,
                           event |-> event]
    [] q = "receiving" -> [owned |-> None, exclude |-> org["from"].id, event |-> event]
    [] q = "assets"    -> [owner |-> org["from"].id, event |-> event]

\* intersectRequisitions: every selection there is narrows the table.
Filter ==
  LET active == {org[s].requisitions : s \in {s \in OrgSelector : org[s] # Nobody}}
                \cup (IF assets = {} THEN {}
                      ELSE {{Inventory[a].transfer : a \in assets}})
  IN IF active = {} THEN Unfiltered
     ELSE {r \in Requisition : \A set \in active : r \in set}

\* The requisitions findOrganizations collects for an organization in a role:
\* of the pinned transfer, or of the open ones.
Requisitions(role, o, key) ==
  {r \in Requisition :
      LET party == IF role = "from" THEN Shipment[r].sender ELSE Shipment[r].receiver
          other == IF role = "from" THEN Shipment[r].receiver ELSE Shipment[r].sender
      IN /\ party = o
         /\ IF key.event = None THEN Shipment[r].open ELSE r = key.event
         /\ key.owned # None => Inventory[key.owned].transfer = r
         /\ key.exclude # None => other = key.exclude}

(* Mutant: organizations without a requisition in the role are listed too. *)
ListsEveryParty(role, key) ==
  {[id |-> o, requisitions |-> Requisitions(role, o, key)] : o \in Organization}

FindOrganizations(role, key) ==
  {[id |-> o, requisitions |-> Requisitions(role, o, key)] :
      o \in {o \in Organization : Requisitions(role, o, key) # {}}}

\* findAssets with includeAvailable false; the sender has custody in transit.
FindAssets(key) ==
  {a \in Asset :
      /\ key.owner # None => Shipment[Inventory[a].transfer].sender = key.owner
      /\ key.event # None => Inventory[a].transfer = key.event}

FindDocuments(filter) ==
  {r \in Requisition : Shipment[r].open /\ (filter = Unfiltered \/ r \in filter)}

Result(q) == IF q = "assets" THEN FindAssets(asked[q]) ELSE FindOrganizations(q, asked[q])

-----------------------------------------------------------------------------
(* The effects of one commit. *)

(* Mutant: filters are compared as the objects each render builds anew. *)
ComparesObjects(q) == TRUE

Changed(q) == Key(q) # asked[q]

Suppressed(s) ==
  IF ~Changed(s) THEN cleared[s]
  ELSE \/ Removed(asked[s].owned, Key(s).owned)
       \/ Removed(asked[s].exclude, Key(s).exclude)
       \/ Removed(asked[s].event, Key(s).event)

Options(s) ==
  LET listed == {o.id : o \in items[s]}
  IN Offered(IF s = "receiving" /\ Own # None THEN listed \cap {Own} ELSE listed,
             Key(s).owned, Key(s).exclude)

\* The organization emitted is the one in the list now.
Emitted(s, id) ==
  IF id = None THEN Nobody ELSE CHOOSE o \in items[s] : o.id = id

OrgAfter(s) ==
  LET id == Synchronized(org[s].id, Options(s), Suppressed(s))
  IN IF busy[s] \/ id = org[s].id THEN org[s] ELSE Emitted(s, id)

AssetsAfter == assets \cap items["assets"]

Quiet ==
  /\ \A q \in Query : ~Changed(q)
  /\ \A s \in OrgSelector : OrgAfter(s) = org[s]
  /\ AssetsAfter = assets
  /\ Filter = shown

Settled == Quiet /\ fetches = {} /\ \A q \in Query : ~busy[q]

-----------------------------------------------------------------------------
Init ==
  /\ org = [s \in OrgSelector |-> Nobody]
  /\ assets = {}
  /\ event = None
  /\ asked = [q \in Query |-> Key(q)]
  /\ busy = [q \in Query |-> TRUE]
  /\ failed = [q \in Query |-> FALSE]
  /\ items = [q \in Query |-> {}]
  /\ cleared = [s \in OrgSelector |-> FALSE]
  /\ shown = Unfiltered
  /\ fetches = {Unfiltered}
  /\ loading = TRUE
  /\ error = FALSE
  /\ rows = {}
  /\ picks = 0
  /\ failures = 0

\* fetchDocuments, when the filter changed: nothing to match is not asked for.
FetchDocuments ==
  /\ shown' = Filter
  /\ CASE Filter = shown -> UNCHANGED <<fetches, loading, error, rows>>
       [] Filter = {} /\ Filter # shown ->
            /\ rows' = {}
            /\ loading' = FALSE
            /\ error' = FALSE
            /\ UNCHANGED fetches
       [] OTHER ->
            /\ fetches' = fetches \cup {Filter}
            /\ loading' = TRUE
            /\ error' = FALSE
            /\ UNCHANGED rows

Render ==
  /\ ~Quiet
  /\ org' = [s \in OrgSelector |-> OrgAfter(s)]
  /\ assets' = AssetsAfter
  /\ cleared' = [s \in OrgSelector |-> Suppressed(s)]
  /\ asked' = [q \in Query |-> Key(q)]
  /\ busy' = [q \in Query |-> busy[q] \/ Changed(q)]
  /\ failed' = [q \in Query |-> failed[q] /\ ~Changed(q)]
  /\ FetchDocuments
  /\ UNCHANGED <<event, items, picks, failures>>

Answer(q) ==
  /\ busy[q]
  /\ busy' = [busy EXCEPT ![q] = FALSE]
  /\ items' = [items EXCEPT ![q] = Result(q)]
  /\ UNCHANGED <<choice, asked, failed, cleared, table, picks, failures>>

Fail(q) ==
  /\ busy[q]
  /\ failures < MaxFailures
  /\ failures' = failures + 1
  /\ busy' = [busy EXCEPT ![q] = FALSE]
  /\ failed' = [failed EXCEPT ![q] = TRUE]
  /\ items' = [items EXCEPT ![q] = {}]
  /\ UNCHANGED <<choice, asked, cleared, table, picks>>

\* The first answer ends the loading, whichever request it is of.
DocumentsArrive(filter) ==
  /\ fetches' = fetches \ {filter}
  /\ rows' = FindDocuments(filter)
  /\ loading' = FALSE
  /\ UNCHANGED <<choice, requests, cleared, shown, error, picks, failures>>

DocumentsFail(filter) ==
  /\ failures < MaxFailures
  /\ failures' = failures + 1
  /\ fetches' = fetches \ {filter}
  /\ error' = TRUE
  /\ loading' = FALSE
  /\ UNCHANGED <<choice, requests, cleared, shown, rows, picks>>

PickOrg(s, id) ==
  /\ ~busy[s] /\ ~failed[s]
  /\ id \in Options(s) \cup {None} /\ id # org[s].id
  /\ org' = [org EXCEPT ![s] = Emitted(s, id)]
  /\ cleared' = [cleared EXCEPT ![s] = id = None]
  /\ UNCHANGED <<assets, event>>

ToggleAsset(a) ==
  /\ ~busy["assets"] /\ ~failed["assets"]
  /\ a \in items["assets"]
  /\ assets' = IF a \in assets THEN assets \ {a} ELSE assets \cup {a}
  /\ UNCHANGED <<org, event, cleared>>

\* handleRowSelect: choosing the chosen row again releases it.
SelectRow(r) ==
  /\ ~loading /\ ~error
  /\ r \in rows
  /\ event' = IF event = r THEN None ELSE r
  /\ UNCHANGED <<org, assets, cleared>>

User ==
  /\ picks < MaxPicks
  /\ Quiet
  /\ picks' = picks + 1
  /\ \/ \E s \in OrgSelector, id \in Organization \cup {None} : PickOrg(s, id)
     \/ \E a \in Asset : ToggleAsset(a)
     \/ \E r \in Requisition : SelectRow(r)
  /\ UNCHANGED <<requests, table, failures>>

Documents == \E filter \in fetches : DocumentsArrive(filter) \/ DocumentsFail(filter)

\* Everything the page does without its user.
Page ==
  \/ Render
  \/ \E q \in Query : Answer(q) \/ Fail(q)
  \/ Documents

Next == Page \/ User

Spec == Init /\ [][Next]_vars /\ WF_vars(Page)

-----------------------------------------------------------------------------
(* isReadyForPdf of the workflow: the form follows from the row chosen.    *)
Ready ==
  /\ event # None
  /\ assets # {}
  /\ \A s \in OrgSelector : org[s] # Nobody

(* Type correctness; and an organization is only ever selected with the    *)
(* requisitions it was listed for, at least one.                           *)
ReceiptTypeOK ==
  /\ org \in [OrgSelector -> [id : Organization, requisitions : (SUBSET Requisition) \ {{}}]
                              \cup {Nobody}]
  /\ assets \in SUBSET Asset
  /\ event \in Requisition \cup {None}
  /\ busy \in [Query -> BOOLEAN] /\ failed \in [Query -> BOOLEAN]
  /\ rows \in SUBSET Requisition

(* A page that has come to rest and enables the workflow proposes a        *)
(* receipt of one transfer: its sender, its receiver, and assets it moves, *)
(* although every selection was made from a list that changed since.       *)
SettledReceiptIsSound ==
  Settled /\ Ready =>
    /\ org["from"].id = Shipment[event].sender
    /\ org["receiving"].id = Shipment[event].receiver
    /\ Own # None => org["receiving"].id = Own
    /\ \A a \in assets : Inventory[a].transfer = event

(* The selections filter the table, the row chosen the selectors, and the  *)
(* page still comes to rest whenever the user lets it.                     *)
AlwaysSettles == []<>Settled

(* Violated: "an empty array matches nothing" (TransferReceiptPage.tsx:16). *)
(* An answer to a filter of before, arriving after the newer one's, leaves  *)
(* its rows in the table.                                                   *)
TableObeysFilter ==
  Settled /\ ~error /\ Filter # Unfiltered => rows \subseteq Filter
=============================================================================
