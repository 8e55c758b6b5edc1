------------------------------ MODULE MCOutbox ------------------------------
(* Instances of Outbox for TLC. *)
EXTENDS Outbox, TLC

CONSTANTS m1, m2, m3

\* Three rows, the first two of which tie on occurred_at.
TiedTimes == m1 :> 1 @@ m2 :> 1 @@ m3 :> 2

\* Three rows in a strict order.
StrictTimes == m1 :> 1 @@ m2 :> 2 @@ m3 :> 3
=============================================================================
