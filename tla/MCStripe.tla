----------------------------- MODULE MCStripe -------------------------------
(* Stripe for TLC: the catalog alone; a payment; a subscription made here   *)
(* or at Stripe; two checkouts of one customer.                             *)
EXTENDS Stripe
CONSTANTS r1, r2, pay, sub

MCInstances ==
    {[customers |-> 0, edits |-> 4, mishaps |-> 1, copies |-> 2, sales |-> {}, stocked |-> FALSE],
     [customers |-> 1, edits |-> 0, mishaps |-> 2, copies |-> 1, sales |-> {pay}, stocked |-> TRUE],
     [customers |-> 1, edits |-> 1, mishaps |-> 1, copies |-> 1, sales |-> {sub}, stocked |-> TRUE],
     [customers |-> 2, edits |-> 0, mishaps |-> 0, copies |-> 1, sales |-> {pay, sub}, stocked |-> TRUE]}
=============================================================================
