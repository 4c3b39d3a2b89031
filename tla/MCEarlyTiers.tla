---------------------------- MODULE MCEarlyTiers ----------------------------
(* Instances of EarlyTiers for TLC; the constants are in the .cfg files.   *)
EXTENDS EarlyTiers, TLC

(* Requests and URLs are interchangeable. *)
Symmetry == Permutations(Requests) \cup Permutations(Urls)

(* Every text of up to one symbol more than the longest code has. *)
AllTexts == BoundedSeq(Symbols, MaxLen + 1)
=============================================================================
