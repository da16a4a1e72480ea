----------------------------- MODULE MCVelocity -----------------------------
(* Three references, a small transfer and a large card payment, a cap of   *)
(* two, windows of one and three ticks.                                    *)
EXTENDS Velocity, TLC

Small == [amount |-> 1, kind |-> "transfer"]
Large == [amount |-> 3, kind |-> "card"]
MCDetails == {Small, Large}

MCFilters == { [min |-> None, max |-> None, kind |-> None],
               [min |-> 2, max |-> None, kind |-> None],
               [min |-> None, max |-> 2, kind |-> None],
               [min |-> None, max |-> None, kind |-> "card"] }

Symmetry == Permutations(Deciders)
=============================================================================
