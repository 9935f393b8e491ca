------------------------------ MODULE Selectors ------------------------------
(***************************************************************************)
(* What the selectors of the pages have in common: OrganizationSelector,   *)
(* AssetSelector and TemplateSelector keep a choice among options that     *)
(* change under it.                                                        *)
(***************************************************************************)
EXTENDS FiniteSets

None == "none"

\* The counterpart is excluded, except where it is the asset's only holder.
Offered(candidates, owned, exclude) ==
  IF owned # None /\ Cardinality(candidates) = 1
  THEN candidates
  ELSE candidates \ {exclude}

\* Keep a choice that is still offered, drop one that is not, take the only one.
Synchronized(chosen, offered, suppressed) ==
  CASE chosen # None /\ chosen \notin offered -> None
    [] chosen = None /\ Cardinality(offered) = 1 /\ ~suppressed ->
         CHOOSE o \in offered : TRUE
    [] OTHER -> chosen

\* A filter that was removed (and not one that was added or changed).
Removed(before, after) == before # None /\ after = None
=============================================================================
