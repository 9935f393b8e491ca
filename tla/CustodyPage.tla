----------------------------- MODULE CustodyPage -----------------------------
(***************************************************************************)
(* The page on which an officer fills in an authorization                  *)
(* (UnifiedCustodyPage.tsx): four selectors, each a component of another   *)
(* team's bundle, each with a list of its own fetched from a service, and  *)
(* each one's choice a filter of the others.  The sender excludes itself   *)
(* from the receivers and keeps the assets it holds; the first asset       *)
(* decides which organizations may be senders and which forms apply; the   *)
(* form decides which assets may be chosen.                                *)
(*                                                                         *)
(* Render is one commit of React: every selector's effects run on the      *)
(* same props and state, each writes its own choice, and a selector whose  *)
(* filter changed starts a request (and aborts the one in flight).  The    *)
(* two effects of the page that turn the first asset into a transfer type  *)
(* and the form into a control type are folded into the commit that        *)
(* follows.  Answers come in any order.                                    *)
(***************************************************************************)
EXTENDS Integers, Selectors

CONSTANTS
  Organization,  \* the organizations of the topology service
  Own,           \* the organization of the signed-in profile, or None
  Inventory,     \* its assets, each with its place in the lists of findAssets
  FormType,      \* the authorization forms and the transfer type of each
  MaxPicks,      \* bound: choices the user makes
  MaxFailures    \* bound: requests that fail

Asset == DOMAIN Inventory
Form == DOMAIN FormType
ControlType == {"LOCAL", "REMOTE"}
TransferType == {"PHYSICAL_TRANSFER", "C2_TRANSFER"}
OrgSelector == {"source", "target"}
Query == OrgSelector \cup {"assets", "forms", "content"}

ASSUME InventoryType ==
  /\ None \notin Organization \cup Asset \cup Form
  /\ Own \in Organization \cup {None}
  /\ Inventory \in [Asset -> [holder : Organization, controlType : ControlType,
                              inTransit : BOOLEAN, place : Nat]]
  /\ \A a, b \in Asset : Inventory[a].place = Inventory[b].place => a = b
  /\ FormType \in [Form -> TransferType]

VARIABLES
  org,      \* the sourceOrg and targetOrg of the page, as the selectors show them
  assets,   \* the assets of the page
  shown,    \* the form the template selector shows (selectedId)
  template, \* the form the page has (the last one emitted)
  asked,    \* the filter of each query's last request (also prevPropsRef)
  busy,     \* isLoading
  failed,   \* error
  items,    \* what the last answer listed
  cleared,  \* userClearedRef of the selectors that choose by themselves
  picks,    \* choices made so far
  failures  \* requests failed so far

choice == <<org, assets, shown, template>>
requests == <<asked, busy, failed, items>>
vars == <<choice, requests, cleared, picks, failures>>

-----------------------------------------------------------------------------
(* What the selectors ask and what the services answer. *)

\* assets[0]: the lists keep the order of the server.
FirstOf(chosen) ==
  IF chosen = {} THEN None
  ELSE CHOOSE a \in chosen :
         \A b \in chosen : Inventory[a].place <= Inventory[b].place

TransferTypeOf(chosen) ==
  CASE chosen = {} -> None
    [] Inventory[FirstOf(chosen)].controlType = "LOCAL" -> "PHYSICAL_TRANSFER"
    [] OTHER -> "C2_TRANSFER"

ControlTypeOf(form) ==
  CASE form = None -> None
    [] FormType[form] = "PHYSICAL_TRANSFER" -> "LOCAL"
    [] OTHER -> "REMOTE"

\* The filters the page passes to each selector now.
Key(q) ==
  CASE q = "source"  -> [owned |-> FirstOf(assets), exclude |-> org["target"]]
    [] q = "target"  -> [owned |-> None, exclude |-> org["source"]]
    [] q = "assets"  -> [owner |-> org["source"], notOwner |-> org["target"],
                         control |-> ControlTypeOf(template)]
    [] q = "forms"   -> TransferTypeOf(assets)
    [] q = "content" -> shown

\* findOrganizations with no transfer event and no role.
FindOrganizations(key, active) ==
  {o \in Organization :
      /\ key.owned # None => Inventory[key.owned].holder = o
      /\ active => \E a \in Asset : Inventory[a].holder = o /\ ~Inventory[a].inTransit}

\* findAssets with includeInTransit false.
FindAssets(key) ==
  {a \in Asset :
      /\ key.owner # None => Inventory[a].holder = key.owner
      /\ Inventory[a].holder # key.notOwner
      /\ ~Inventory[a].inTransit
      /\ key.control # None => Inventory[a].controlType = key.control}

FindForms(key) == {f \in Form : key # None => FormType[f] = key}

Result(q) ==
  CASE q = "source"  -> FindOrganizations(asked[q], TRUE)
    [] q = "target"  -> FindOrganizations(asked[q], FALSE)
    [] q = "assets"  -> FindAssets(asked[q])
    [] q = "forms"   -> FindForms(asked[q])
    [] q = "content" -> {asked[q]}

-----------------------------------------------------------------------------
(* The effects of one commit: what each selector makes of its props. *)

(* Mutant: filters are compared as the objects each render builds anew. *)
ComparesObjects(q) == q # "content" \/ Key(q) # asked[q]

\* queryKey: filters are compared by their values.
Changed(q) == Key(q) # asked[q]

\* A filter removed suppresses the automatic choice, a new one allows it.
Suppressed(q) ==
  IF ~Changed(q) THEN cleared[q]
  ELSE IF q = "forms" THEN Key(q) = None
  ELSE \/ Removed(asked[q].owned, Key(q).owned)
       \/ Removed(asked[q].exclude, Key(q).exclude)

Options(s) ==
  Offered(IF s = "source" /\ Own # None THEN items[s] \cap {Own} ELSE items[s],
          Key(s).owned, Key(s).exclude)

OrgAfter(s) ==
  IF busy[s] THEN org[s] ELSE Synchronized(org[s], Options(s), Suppressed(s))

(* Mutant: a selection that left the list is kept. *)
KeepsFiltered == assets

AssetsAfter == assets \cap items["assets"]

ShownAfter ==
  IF busy["forms"] \/ failed["forms"] THEN shown
  ELSE Synchronized(shown, items["forms"], Suppressed("forms"))

(* Mutant: a form once emitted is not replaced by the next one chosen. *)
EmitsOnce ==
  CASE shown = None -> None
    [] items["content"] = {shown} /\ template = None -> shown
    [] OTHER -> template

\* The form reaches the page only when the content of the one shown is there.
TemplateAfter ==
  CASE shown = None -> None
    [] items["content"] = {shown} -> shown
    [] OTHER -> template

(* Mutant: a new request leaves the previous error standing. *)
KeepsError(q) == failed[q]

ErrorAfter(q) == failed[q] /\ ~Changed(q)

\* Without a form chosen there is no content to ask for.
Idle(q) == q = "content" /\ shown = None

\* Nothing is left for an effect to do.
Quiet ==
  /\ \A q \in Query : ~Changed(q)
  /\ \A s \in OrgSelector : OrgAfter(s) = org[s]
  /\ AssetsAfter = assets
  /\ ShownAfter = shown
  /\ TemplateAfter = template

Settled == Quiet /\ \A q \in Query : ~busy[q]

-----------------------------------------------------------------------------
Init ==
  /\ org = [s \in OrgSelector |-> None]
  /\ assets = {}
  /\ shown = None
  /\ template = None
  /\ asked = [q \in Query |-> Key(q)]
  /\ busy = [q \in Query |-> q # "content"]
  /\ failed = [q \in Query |-> FALSE]
  /\ items = [q \in Query |-> {}]
  /\ cleared = [q \in OrgSelector \cup {"forms"} |-> FALSE]
  /\ picks = 0
  /\ failures = 0

Render ==
  /\ ~Quiet
  /\ org' = [s \in OrgSelector |-> OrgAfter(s)]
  /\ assets' = AssetsAfter
  /\ shown' = ShownAfter
  /\ template' = TemplateAfter
  /\ cleared' = [q \in DOMAIN cleared |-> Suppressed(q)]
  /\ asked' = [q \in Query |-> Key(q)]
  /\ busy' = [q \in Query |-> ~Idle(q) /\ (busy[q] \/ Changed(q))]
  /\ failed' = [q \in Query |-> ErrorAfter(q)]
  /\ items' = [q \in Query |-> IF Idle(q) THEN {} ELSE items[q]]
  /\ UNCHANGED <<picks, failures>>

Answer(q) ==
  /\ busy[q]
  /\ busy' = [busy EXCEPT ![q] = FALSE]
  /\ items' = [items EXCEPT ![q] = Result(q)]
  /\ UNCHANGED <<choice, asked, failed, cleared, picks, failures>>

Fail(q) ==
  /\ busy[q]
  /\ failures < MaxFailures
  /\ failures' = failures + 1
  /\ busy' = [busy EXCEPT ![q] = FALSE]
  /\ failed' = [failed EXCEPT ![q] = TRUE]
  /\ items' = [items EXCEPT ![q] = {}]
  /\ UNCHANGED <<choice, asked, cleared, picks>>

\* A control that loads or shows an error offers nothing to choose.
Usable(q) == ~busy[q] /\ ~failed[q]

PickOrg(s, o) ==
  /\ Usable(s)
  /\ o \in Options(s) \cup {None} /\ o # org[s]
  /\ org' = [org EXCEPT ![s] = o]
  /\ cleared' = [cleared EXCEPT ![s] = o = None]
  /\ picks' = picks + 1
  /\ UNCHANGED <<assets, shown, template, requests, failures>>

ToggleAsset(a) ==
  /\ Usable("assets")
  /\ a \in items["assets"]
  /\ assets' = IF a \in assets THEN assets \ {a} ELSE assets \cup {a}
  /\ picks' = picks + 1
  /\ UNCHANGED <<org, shown, template, requests, cleared, failures>>

PickForm(f) ==
  /\ Usable("forms")
  /\ f \in items["forms"] \cup {None} /\ f # shown
  /\ shown' = f
  /\ cleared' = [cleared EXCEPT !["forms"] = f = None]
  /\ picks' = picks + 1
  /\ UNCHANGED <<org, assets, template, requests, failures>>

\* A click is handled after the effects it may have to wait for.
User ==
  /\ picks < MaxPicks
  /\ Quiet
  /\ \/ \E s \in OrgSelector, o \in Organization \cup {None} : PickOrg(s, o)
     \/ \E a \in Asset : ToggleAsset(a)
     \/ \E f \in Form \cup {None} : PickForm(f)

\* Everything the page does without its user.
Page ==
  \/ Render
  \/ \E q \in Query : Answer(q) \/ Fail(q)

Next == Page \/ User

Spec == Init /\ [][Next]_vars /\ WF_vars(Page)

-----------------------------------------------------------------------------
(* isReadyForPdf of the workflow below the selectors. *)
Ready ==
  /\ template # None
  /\ assets # {}
  /\ \A s \in OrgSelector : org[s] # None

(* Type correctness: choices, lists and flags are of the kinds the widgets  *)
(* of the page keep, and a control never loads and shows an error at once   *)
(* (Select renders one of the two).                                        *)
PageTypeOK ==
  /\ org \in [OrgSelector -> Organization \cup {None}]
  /\ assets \in SUBSET Asset
  /\ {shown, template} \subseteq Form \cup {None}
  /\ busy \in [Query -> BOOLEAN] /\ failed \in [Query -> BOOLEAN]
  /\ \A q \in Query : busy[q] => ~failed[q]
  /\ \A s \in OrgSelector : items[s] \subseteq Organization
  /\ items["assets"] \subseteq Asset
  /\ items["forms"] \subseteq Form /\ items["content"] \subseteq Form
  /\ cleared \in [OrgSelector \cup {"forms"} -> BOOLEAN]

(* Whatever order the four lists were asked, answered and refused in, a    *)
(* page that has come to rest and enables the workflow (isReadyForPdf)     *)
(* proposes a transfer that can be: between two organizations, from the    *)
(* signed-in officer's, of assets the sender holds and nobody transports,  *)
(* under the form for the control type of every one of them.               *)
SettledFormIsSound ==
  Settled /\ Ready =>
    /\ org["source"] # org["target"]
    /\ Own # None => org["source"] = Own
    /\ \A a \in assets :
          /\ Inventory[a].holder = org["source"]
          /\ ~Inventory[a].inTransit
          /\ Inventory[a].controlType = ControlTypeOf(template)

(* The form the workflow is given is the one the selector shows, once the  *)
(* page has come to rest; the exception is a form whose content could not  *)
(* be fetched, where the page keeps the one before it.                     *)
PageHasTheFormShown ==
  Settled /\ template # shown => failed["content"]

(* The filters feed each other in a circle (the asset filters the senders, *)
(* the sender the assets, the asset the forms, the form the assets), and   *)
(* still the page comes to rest whenever the user lets it.                 *)
AlwaysSettles == []<>Settled
=============================================================================
