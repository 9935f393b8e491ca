-------------------------- MODULE TransferLifecycle --------------------------
(***************************************************************************)
(* What topology-service promises about transfers, whatever is redelivered *)
(* or fails on the way: an asset changes hands only by the delivery of a   *)
(* transfer that was started and orders it, all assets of one receipt at   *)
(* once and to the ordered receiver; deliveries only accumulate; and a     *)
(* transfer is COMPLETED exactly when everything ordered was delivered.    *)
(*                                                                         *)
(* Holders are tracked for the assets of Tracked only.                     *)
(***************************************************************************)
CONSTANTS Organization, Transfer, Order, Tracked, NoOne

VARIABLES
  holder,     \* who holds each tracked asset
  delivered,  \* the assets of each transfer that were received
  progress    \* what each transfer reports

vars == <<holder, delivered, progress>>

Init ==
  /\ holder = [a \in Tracked |-> NoOne]
  /\ delivered = [q \in Transfer |-> {}]
  /\ progress = [q \in Transfer |-> "NONE"]

Register(a, o) ==
  /\ holder[a] = NoOne
  /\ holder' = [holder EXCEPT ![a] = o]
  /\ UNCHANGED <<delivered, progress>>

Start(q) ==
  /\ progress[q] = "NONE"
  /\ progress' = [progress EXCEPT ![q] = "IN_PROGRESS"]
  /\ UNCHANGED <<holder, delivered>>

Deliver(q, received) ==
  /\ progress[q] # "NONE"
  /\ received # {}
  /\ delivered' = [delivered EXCEPT ![q] = @ \union received]
  /\ progress' = [progress EXCEPT
       ![q] = IF delivered'[q] = Order[q].assets THEN "COMPLETED" ELSE "PARTIALLY_COMPLETED"]
  /\ holder' = [a \in Tracked |-> IF a \in received THEN Order[q].receiver ELSE holder[a]]

Next ==
  \/ \E a \in Tracked, o \in Organization : Register(a, o)
  \/ \E q \in Transfer : \/ Start(q)
                         \/ \E received \in SUBSET Order[q].assets : Deliver(q, received)

Spec == Init /\ [][Next]_vars
=============================================================================
