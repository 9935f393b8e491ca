---------------------------- MODULE MCCustodyPage ----------------------------
(***************************************************************************)
(* An instance of CustodyPage for TLC: the officer's organization holds an *)
(* asset of each control type, another one holds a third asset, and there  *)
(* is one form for each kind of transfer (registry/schemas).               *)
(***************************************************************************)
EXTENDS CustodyPage

Item(o, c, n) == [holder |-> o, controlType |-> c, inTransit |-> FALSE, place |-> n]
MCInventory == [a1 |-> Item("jeb", "LOCAL", 1), a2 |-> Item("jeb", "REMOTE", 2),
                a3 |-> Item("ksc", "LOCAL", 3)]
MCFormType == [asset |-> "PHYSICAL_TRANSFER", authority |-> "C2_TRANSFER"]
=============================================================================
