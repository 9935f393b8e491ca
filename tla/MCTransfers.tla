----------------------------- MODULE MCTransfers -----------------------------
(***************************************************************************)
(* An instance of TransferPipeline for TLC: two assets are to go from one  *)
(* organization to a second under two receipts; one of them is promised to *)
(* a third as well, as a transfer of control (the same asset chosen for    *)
(* both authorizations before either is processed); and once received it   *)
(* may be handed on.  The other asset is one the seed creates.             *)
(***************************************************************************)
EXTENDS TransferInvariant

MCOrder ==
  [q1 |-> [type |-> "PHYSICAL_TRANSFER", sender |-> "jeb", receiver |-> "ksc",
           assets |-> {"a1", "a2"}],
   q2 |-> [type |-> "C2_TRANSFER", sender |-> "jeb", receiver |-> "rcs",
           assets |-> {"a1"}],
   q3 |-> [type |-> "C2_TRANSFER", sender |-> "ksc", receiver |-> "rcs",
           assets |-> {"a1"}]]

Paper(kind, q, assets) == [kind |-> kind, transfer |-> q, assets |-> assets]

MCContent ==
  [auth1 |-> Paper("AUTHORIZATION", "q1", {"a1", "a2"}),
   rcpt1 |-> Paper("RECEIPT", "q1", {"a1"}),
   rcpt2 |-> Paper("RECEIPT", "q1", {"a2"}),
   auth2 |-> Paper("AUTHORIZATION", "q2", {"a1"}),
   auth3 |-> Paper("AUTHORIZATION", "q3", {"a1"})]

MCDocument == DOMAIN MCContent
MCSeed == {<<"jeb", "a2">>}
=============================================================================
