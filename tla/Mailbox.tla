------------------------------ MODULE Mailbox ------------------------------
(***************************************************************************)
(* What the stash promises its members: a store-and-forward mailbox.  Once *)
(* a delivery is recorded it stays in the mailbox until the receiver has   *)
(* acked it, refused it, or its retention is over; only then may it        *)
(* disappear, and it may still be handed out until it does.                *)
(***************************************************************************)
CONSTANT Delivery

VARIABLES
  pending, \* deliveries a receiver can fetch
  owed     \* recorded deliveries nobody has settled yet

vars == <<pending, owed>>

Init == pending = {} /\ owed = {}

\* A deposit is recorded.
Record(d) == pending' = pending \cup {d} /\ owed' = owed \cup {d}

\* The receiver acks or dismisses deliveries, or their retention is over.
Settle(D) == owed' = owed \ D /\ UNCHANGED pending

\* Settled deliveries leave the mailbox.
Forget(D) ==
  /\ D \cap owed = {}
  /\ pending' = pending \ D
  /\ UNCHANGED owed

Next ==
  \/ \E d \in Delivery : Record(d)
  \/ \E D \in SUBSET Delivery : Settle(D) \/ Forget(D)

Spec == Init /\ [][Next]_vars
=============================================================================
