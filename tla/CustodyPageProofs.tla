--------------------------- MODULE CustodyPageProofs ---------------------------
(***************************************************************************)
(* Proofs about CustodyPage: for every inventory, set of organizations and *)
(* forms, any number of choices and failures, and answers in any order.    *)
(***************************************************************************)
EXTENDS CustodyPage, FiniteSetTheorems, TLAPS

(***************************************************************************)
(* A list that is not loading was answered for the filter asked last (or   *)
(* is empty, after an error or before anything was asked).                 *)
(***************************************************************************)
ListsOK ==
  \A q \in Query \ {"content"} : ~busy[q] => items[q] \subseteq Result(q)

(***************************************************************************)
(* Content is asked of a form only, and what was answered is what was      *)
(* asked last.                                                             *)
(***************************************************************************)
ContentOK ==
  /\ busy["content"] => asked["content"] \in Form
  /\ ~busy["content"] /\ ~failed["content"] /\ asked["content"] # None
       => items["content"] = {asked["content"]}

PageInv ==
  /\ PageTypeOK
  /\ items = [q \in Query |-> items[q]]
  /\ ListsOK
  /\ ContentOK

LEMMA Kinds ==
  /\ "source" \in OrgSelector /\ "target" \in OrgSelector
  /\ OrgSelector = {"source", "target"}
  /\ Query = {"source", "target", "assets", "forms", "content"}
  /\ None \notin Organization /\ None \notin Asset /\ None \notin Form
BY InventoryType DEF OrgSelector, Query

(***************************************************************************)
(* What a selector offers and keeps is on its list.                        *)
(***************************************************************************)
LEMMA SynchronizedIsOffered ==
  ASSUME NEW chosen, NEW offered, NEW suppressed
  PROVE  /\ Synchronized(chosen, offered, suppressed) \in offered \union {chosen, None}
         /\ (Synchronized(chosen, offered, suppressed) = chosen /\ chosen # None)
              => chosen \in offered
<1>1. Cardinality({}) = 0
  BY FS_EmptySet
<1>2. Cardinality(offered) = 1 => (CHOOSE o \in offered : TRUE) \in offered
  BY <1>1
<1>. QED BY <1>2 DEF Synchronized

LEMMA OptionsListed ==
  ASSUME NEW s \in OrgSelector
  PROVE  /\ Options(s) \subseteq items[s]
         /\ s = "source" /\ Own # None => Options(s) \subseteq {Own}
BY DEF Options, Offered

LEMMA ResultsListed ==
  /\ Result("source") \subseteq Organization
  /\ Result("target") \subseteq Organization
  /\ Result("assets") \subseteq Asset
  /\ Result("forms") \subseteq Form
  /\ Result("content") = {asked["content"]}
BY DEF Result, FindOrganizations, FindAssets, FindForms

-----------------------------------------------------------------------------
LEMMA PageInit ==
  ASSUME Init
  PROVE  PageInv
<1>1. PageTypeOK
  BY Kinds DEF Init, PageTypeOK
<1>2. items = [q \in Query |-> items[q]]
  BY DEF Init
<1>3. ListsOK
  BY Kinds DEF Init, ListsOK
<1>4. ContentOK
  BY Kinds DEF Init, ContentOK, Key
<1>. QED BY <1>1, <1>2, <1>3, <1>4 DEF PageInv

(***************************************************************************)
(* Result depends on what was asked alone.                                 *)
(***************************************************************************)
LEMMA SameQuestion ==
  ASSUME NEW q \in Query, asked'[q] = asked[q]
  PROVE  Result(q)' = Result(q)
BY DEF Result, FindOrganizations, FindAssets, FindForms

LEMMA RenderStep ==
  ASSUME PageInv, Render
  PROVE  PageInv'
<1>1. /\ org' = [s \in OrgSelector |-> OrgAfter(s)]
      /\ assets' = AssetsAfter
      /\ shown' = ShownAfter
      /\ template' = TemplateAfter
      /\ cleared' = [q \in DOMAIN cleared |-> Suppressed(q)]
      /\ asked' = [q \in Query |-> Key(q)]
      /\ busy' = [q \in Query |-> ~Idle(q) /\ (busy[q] \/ Changed(q))]
      /\ failed' = [q \in Query |-> ErrorAfter(q)]
      /\ items' = [q \in Query |-> IF Idle(q) THEN {} ELSE items[q]]
  BY DEF Render
<1>2. org' \in [OrgSelector -> Organization \union {None}]
  <2>1. ASSUME NEW s \in OrgSelector
        PROVE  OrgAfter(s) \in Organization \union {None}
    <3>1. org[s] \in Organization \union {None} /\ items[s] \subseteq Organization
      BY DEF PageInv, PageTypeOK
    <3>2. Options(s) \subseteq Organization
      BY <3>1, OptionsListed
    <3>3. Synchronized(org[s], Options(s), Suppressed(s)) \in Options(s) \union {org[s], None}
      BY SynchronizedIsOffered
    <3>. QED BY <3>1, <3>2, <3>3 DEF OrgAfter
  <2>. QED BY <1>1, <2>1
<1>3. {shown', template'} \subseteq Form \union {None}
  <2>1. {shown, template} \subseteq Form \union {None} /\ items["forms"] \subseteq Form
    BY DEF PageInv, PageTypeOK
  <2>2. Synchronized(shown, items["forms"], Suppressed("forms"))
          \in items["forms"] \union {shown, None}
    BY SynchronizedIsOffered
  <2>3. ShownAfter \in Form \union {None}
    BY <2>1, <2>2 DEF ShownAfter
  <2>4. TemplateAfter \in Form \union {None}
    BY <2>1 DEF TemplateAfter
  <2>. QED BY <1>1, <2>3, <2>4
<1>4. /\ busy' \in [Query -> BOOLEAN] /\ failed' \in [Query -> BOOLEAN]
      /\ \A q \in Query : busy'[q] => ~failed'[q]
  BY <1>1 DEF PageInv, PageTypeOK, Idle, Changed, ErrorAfter
<1>5. cleared' \in [OrgSelector \union {"forms"} -> BOOLEAN]
  <2>1. \A q \in OrgSelector \union {"forms"} : Suppressed(q) \in BOOLEAN
    BY DEF PageInv, PageTypeOK, Suppressed, Removed
  <2>. QED BY <1>1, <2>1 DEF PageInv, PageTypeOK
<1>6. \A q \in Query : items'[q] \subseteq items[q]
  BY <1>1
<1>7. PageTypeOK'
  <2>1. assets' \subseteq assets
    BY <1>1 DEF AssetsAfter
  <2>. QED BY <1>2, <1>3, <1>4, <1>5, <1>6, <2>1, Kinds DEF PageInv, PageTypeOK
<1>8. items' = [q \in Query |-> items'[q]]
  BY <1>1
<1>9. ListsOK'
  <2>1. ASSUME NEW q \in Query \ {"content"}, ~busy'[q]
        PROVE  items'[q] \subseteq Result(q)'
    <3>1. ~busy[q] /\ ~Changed(q) /\ items'[q] = items[q]
      BY <1>1, <2>1 DEF Idle
    <3>2. asked'[q] = asked[q]
      BY <1>1, <3>1 DEF Changed
    <3>3. items[q] \subseteq Result(q)
      BY <3>1 DEF PageInv, ListsOK
    <3>. QED BY <3>1, <3>2, <3>3, SameQuestion
  <2>. QED BY <2>1 DEF ListsOK
<1>10. ContentOK'
  <2>1. asked'["content"] = shown /\ shown \in Form \union {None}
    BY <1>1, Kinds DEF Key, PageInv, PageTypeOK
  <2>2. CASE shown = None
    BY <1>1, <2>1, <2>2, Kinds DEF ContentOK, Idle
  <2>3. CASE shown # None
    <3>1. shown \in Form
      BY <2>1, <2>3
    <3>2. ASSUME ~busy'["content"], ~failed'["content"]
          PROVE  items'["content"] = {asked'["content"]}
      <4>1. ~busy["content"] /\ ~Changed("content")
        BY <1>1, <2>3, <3>2, Kinds DEF Idle
      <4>2. ~failed["content"] /\ items'["content"] = items["content"]
        BY <1>1, <2>3, <3>2, <4>1, Kinds DEF ErrorAfter, Idle
      <4>3. asked["content"] = shown
        BY <4>1 DEF Changed, Key
      <4>. QED BY <2>1, <2>3, <4>1, <4>2, <4>3 DEF PageInv, ContentOK
    <3>. QED BY <2>1, <3>1, <3>2 DEF ContentOK
  <2>. QED BY <2>2, <2>3
<1>. QED BY <1>7, <1>8, <1>9, <1>10 DEF PageInv

(***************************************************************************)
(* The request of one list ends.                                           *)
(***************************************************************************)
LEMMA AnswerStep ==
  ASSUME PageInv, NEW q \in Query, Answer(q)
  PROVE  PageInv'
<1>1. /\ busy[q]
      /\ busy' = [busy EXCEPT ![q] = FALSE]
      /\ items' = [items EXCEPT ![q] = Result(q)]
      /\ UNCHANGED <<org, assets, shown, template, asked, failed, cleared>>
  BY DEF Answer, choice
<1>2. /\ busy' \in [Query -> BOOLEAN] /\ ~busy'[q]
      /\ \A p \in Query \ {q} : busy'[p] = busy[p]
  BY <1>1 DEF PageInv, PageTypeOK
<1>3. /\ items' = [p \in Query |-> items'[p]] /\ items'[q] = Result(q)
      /\ \A p \in Query \ {q} : items'[p] = items[p]
  <2>1. items' = [p \in Query |-> IF p = q THEN Result(q) ELSE items[p]]
    BY <1>1 DEF PageInv
  <2>. QED BY <2>1
<1>4. q = "content" => Result(q) = {asked["content"]} /\ asked["content"] \in Form
  BY <1>1, ResultsListed DEF PageInv, ContentOK
<1>5. PageTypeOK'
  <2>1. \A s \in OrgSelector : items'[s] \subseteq Organization
    BY <1>3, ResultsListed, Kinds DEF PageInv, PageTypeOK
  <2>2. /\ items'["assets"] \subseteq Asset
        /\ items'["forms"] \subseteq Form /\ items'["content"] \subseteq Form
    BY <1>3, <1>4, ResultsListed, Kinds DEF PageInv, PageTypeOK
  <2>. QED BY <1>1, <1>2, <2>1, <2>2 DEF PageInv, PageTypeOK
<1>6. ListsOK'
  <2>1. ASSUME NEW p \in Query \ {"content"}, ~busy'[p]
        PROVE  items'[p] \subseteq Result(p)'
    <3>1. Result(p)' = Result(p)
      BY <1>1, SameQuestion
    <3>2. CASE p = q
      BY <1>3, <3>1, <3>2
    <3>3. CASE p # q
      BY <1>2, <1>3, <2>1, <3>1, <3>3 DEF PageInv, ListsOK
    <3>. QED BY <3>2, <3>3
  <2>. QED BY <2>1 DEF ListsOK
<1>7. ContentOK'
  <2>1. CASE q = "content"
    BY <1>1, <1>2, <1>3, <1>4, <2>1 DEF ContentOK
  <2>2. CASE q # "content"
    BY <1>1, <1>2, <1>3, <2>2, Kinds DEF PageInv, ContentOK
  <2>. QED BY <2>1, <2>2
<1>. QED BY <1>3, <1>5, <1>6, <1>7 DEF PageInv

LEMMA FailStep ==
  ASSUME PageInv, NEW q \in Query, Fail(q)
  PROVE  PageInv'
<1>1. /\ busy[q]
      /\ busy' = [busy EXCEPT ![q] = FALSE]
      /\ failed' = [failed EXCEPT ![q] = TRUE]
      /\ items' = [items EXCEPT ![q] = {}]
      /\ UNCHANGED <<org, assets, shown, template, asked, cleared>>
  BY DEF Fail, choice
<1>2. /\ busy' \in [Query -> BOOLEAN] /\ ~busy'[q]
      /\ failed' \in [Query -> BOOLEAN] /\ failed'[q]
      /\ \A p \in Query \ {q} : busy'[p] = busy[p] /\ failed'[p] = failed[p]
  BY <1>1 DEF PageInv, PageTypeOK
<1>3. /\ items' = [p \in Query |-> items'[p]] /\ items'[q] = {}
      /\ \A p \in Query \ {q} : items'[p] = items[p]
  <2>1. items' = [p \in Query |-> IF p = q THEN {} ELSE items[p]]
    BY <1>1 DEF PageInv
  <2>. QED BY <2>1
<1>4. \A p \in Query : items'[p] \subseteq items[p]
  BY <1>3
<1>5. PageTypeOK'
  BY <1>1, <1>2, <1>4, Kinds DEF PageInv, PageTypeOK
<1>6. ListsOK'
  <2>1. ASSUME NEW p \in Query \ {"content"}, ~busy'[p]
        PROVE  items'[p] \subseteq Result(p)'
    <3>1. Result(p)' = Result(p)
      BY <1>1, SameQuestion
    <3>. QED BY <1>2, <1>3, <2>1, <3>1 DEF PageInv, ListsOK
  <2>. QED BY <2>1 DEF ListsOK
<1>7. ContentOK'
  <2>1. CASE q = "content"
    BY <1>2, <2>1 DEF ContentOK
  <2>2. CASE q # "content"
    BY <1>1, <1>2, <1>3, <2>2, Kinds DEF PageInv, ContentOK
  <2>. QED BY <2>1, <2>2
<1>. QED BY <1>3, <1>5, <1>6, <1>7 DEF PageInv

(***************************************************************************)
(* A choice changes no list.                                               *)
(***************************************************************************)
LEMMA UserStep ==
  ASSUME PageInv, User
  PROVE  PageInv'
<1>1. UNCHANGED <<asked, busy, failed, items>>
  BY DEF User, PickOrg, ToggleAsset, PickForm, requests
<1>2. ListsOK'
  <2>1. \A q \in Query : Result(q)' = Result(q)
    BY <1>1, SameQuestion
  <2>. QED BY <1>1, <2>1 DEF PageInv, ListsOK
<1>3. ContentOK'
  BY <1>1 DEF PageInv, ContentOK
<1>4. PageTypeOK'
  <2>1. ASSUME NEW s \in OrgSelector, NEW o \in Organization \union {None}, PickOrg(s, o)
        PROVE  PageTypeOK'
    BY <1>1, <2>1 DEF PageInv, PageTypeOK, PickOrg
  <2>2. ASSUME NEW a \in Asset, ToggleAsset(a)
        PROVE  PageTypeOK'
    BY <1>1, <2>2 DEF PageInv, PageTypeOK, ToggleAsset
  <2>3. ASSUME NEW f \in Form \union {None}, PickForm(f)
        PROVE  PageTypeOK'
    BY <1>1, <2>3 DEF PageInv, PageTypeOK, PickForm
  <2>. QED BY <2>1, <2>2, <2>3 DEF User
<1>. QED BY <1>1, <1>2, <1>3, <1>4 DEF PageInv

LEMMA PageStep ==
  ASSUME PageInv, [Next]_vars
  PROVE  PageInv'
<1>1. CASE Render
  BY <1>1, RenderStep
<1>2. ASSUME NEW q \in Query, Answer(q) \/ Fail(q)
      PROVE  PageInv'
  BY <1>2, AnswerStep, FailStep
<1>3. CASE User
  BY <1>3, UserStep
<1>4. CASE UNCHANGED vars
  <2>1. UNCHANGED <<org, assets, shown, template, asked, busy, failed, items, cleared>>
    BY <1>4 DEF vars, choice, requests
  <2>2. \A q \in Query : Result(q)' = Result(q)
    BY <2>1, SameQuestion
  <2>. QED BY <2>1, <2>2 DEF PageInv, PageTypeOK, ListsOK, ContentOK
<1>. QED BY <1>1, <1>2, <1>3, <1>4 DEF Next, Page

-----------------------------------------------------------------------------
(***************************************************************************)
(* What the effects of the page find in every commit: lists answered for   *)
(* the filter asked last, or still loading.                                *)
(***************************************************************************)
THEOREM PageInvariant == Spec => []PageInv
<1>1. Init => PageInv
  BY PageInit
<1>2. PageInv /\ [Next]_vars => PageInv'
  BY PageStep
<1>. QED BY <1>1, <1>2, PTL DEF Spec

(***************************************************************************)
(* The widgets of the authorization page keep their choices, lists and     *)
(* flags of their kind; none loads and shows an error at once.             *)
(***************************************************************************)
THEOREM PageTypeCorrect == Spec => []PageTypeOK
<1>1. PageInv => PageTypeOK
  BY DEF PageInv
<1>. QED BY <1>1, PageInvariant, PTL

(***************************************************************************)
(* An organization a selector at rest shows is one it offers.              *)
(***************************************************************************)
LEMMA ShownIsOffered ==
  ASSUME PageInv, Settled, NEW s \in OrgSelector, org[s] # None
  PROVE  org[s] \in Options(s)
<1>1. ~busy[s] /\ OrgAfter(s) = org[s]
  BY Kinds DEF Settled, Quiet
<1>2. Synchronized(org[s], Options(s), Suppressed(s)) = org[s]
  BY <1>1 DEF OrgAfter
<1>. QED BY <1>2, SynchronizedIsOffered

(***************************************************************************)
(* The authorization that UnifiedCustodyPage passes to the workflow once   *)
(* isReadyForPdf and at rest is one transfer between two organizations of  *)
(* assets the sender holds, under the form for their control type.         *)
(***************************************************************************)
THEOREM FormIsSound == Spec => []SettledFormIsSound
<1>1. ASSUME PageInv
      PROVE  SettledFormIsSound
  <2>. SUFFICES ASSUME Settled, Ready
                PROVE  /\ org["source"] # org["target"]
                       /\ Own # None => org["source"] = Own
                       /\ \A a \in assets :
                             /\ Inventory[a].holder = org["source"]
                             /\ ~Inventory[a].inTransit
                             /\ Inventory[a].controlType = ControlTypeOf(template)
    BY DEF SettledFormIsSound
  <2>1. /\ org["source"] # None /\ org["target"] # None
        /\ assets # {} /\ template # None
    BY Kinds DEF Ready
  <2>2. asked["assets"] = Key("assets") /\ ~busy["assets"] /\ assets \subseteq items["assets"]
    BY Kinds DEF Settled, Quiet, Changed, AssetsAfter
  <2>3. assets \subseteq FindAssets(Key("assets"))
    BY <1>1, <2>2, Kinds DEF PageInv, ListsOK, Result
  <2>4. Key("assets") = [owner |-> org["source"], notOwner |-> org["target"],
                         control |-> ControlTypeOf(template)]
    BY DEF Key
  <2>5. ControlTypeOf(template) # None
    BY <2>1 DEF ControlTypeOf, None
  <2>6. \A a \in assets :
          /\ Inventory[a].holder = org["source"]
          /\ Inventory[a].holder # org["target"]
          /\ ~Inventory[a].inTransit
          /\ Inventory[a].controlType = ControlTypeOf(template)
    BY <2>1, <2>3, <2>4, <2>5 DEF FindAssets
  <2>7. Own # None => org["source"] = Own
    BY <1>1, <2>1, ShownIsOffered, OptionsListed, Kinds
  <2>. QED BY <2>1, <2>6, <2>7
<1>. QED BY <1>1, PageInvariant, PTL

(***************************************************************************)
(* The template the page passes on is the one its selector shows, unless   *)
(* the content of that one could not be fetched.                           *)
(***************************************************************************)
THEOREM FormIsTheOneShown == Spec => []PageHasTheFormShown
<1>1. ASSUME PageInv, Settled, template # shown
      PROVE  failed["content"]
  <2>1. TemplateAfter = template /\ asked["content"] = shown /\ ~busy["content"]
    BY <1>1, Kinds DEF Settled, Quiet, Changed, Key
  <2>2. shown # None /\ items["content"] # {shown}
    BY <1>1, <2>1 DEF TemplateAfter
  <2>3. failed["content"] \in BOOLEAN
    BY <1>1, Kinds DEF PageInv, PageTypeOK
  <2>. QED BY <1>1, <2>1, <2>2, <2>3 DEF PageInv, ContentOK
<1>2. PageInv => PageHasTheFormShown
  BY <1>1 DEF PageHasTheFormShown
<1>. QED BY <1>2, PageInvariant, PTL
=============================================================================
