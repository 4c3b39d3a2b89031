-------------------------- MODULE MCCoalescedStore --------------------------
(* Instances of CoalescedStore for TLC; the constants are in the .cfg files.*)
EXTENDS CoalescedStore, TLC

CONSTANTS r1, r2, r3, a1, a2

(* One process, or r3 arriving at another one. *)
OneApp  == [r \in Requests |-> a1]
TwoApps == [r \in Requests |-> IF r = r3 THEN a2 ELSE a1]

(* Two requests of one process are interchangeable; not used with liveness.*)
Symmetry == Permutations({r1, r2})
============================================================================
