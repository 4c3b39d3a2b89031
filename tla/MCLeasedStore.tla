--------------------------- MODULE MCLeasedStore ---------------------------
(* Instances of LeasedStore for TLC; the constants are in the .cfg files.  *)
EXTENDS LeasedStore, TLC

(* Requests and URLs are interchangeable; not used with liveness.          *)
Symmetry == Permutations(Requests) \cup Permutations(Urls)
============================================================================
