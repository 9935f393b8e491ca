---------------------------- MODULE MCReceiptPage ----------------------------
(***************************************************************************)
(* An instance of ReceiptPage for TLC: two transfers from one sender to    *)
(* the officer's organization and one from another sender.                 *)
(***************************************************************************)
EXTENDS ReceiptPage

Transfer(from, to) == [sender |-> from, receiver |-> to, open |-> TRUE]
MCShipment == [q1 |-> Transfer("jeb", "ksc"), q2 |-> Transfer("jeb", "ksc"),
               q3 |-> Transfer("rcs", "ksc")]
MCInventory == [a1 |-> [transfer |-> "q1", place |-> 1],
                a2 |-> [transfer |-> "q2", place |-> 2]]
=============================================================================
