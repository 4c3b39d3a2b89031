----------------------------- MODULE MCBloomJob -----------------------------
(* Instances of BloomJob for TLC; the constants are in the .cfg files.     *)
EXTENDS BloomJob, TLC

(* App instances are interchangeable; not used with liveness.              *)
Symmetry == Permutations(Apps)
============================================================================
