----------------------------- MODULE EarlyTiers -----------------------------
(***************************************************************************)
(* The codec and the stores of tiers 1 to 4.2 put together.  shorten has   *)
(* an id, encodes it, and only then touches the stores under the code; a   *)
(* redirect asks for the same code, which tier 4.2 first validates.        *)
(***************************************************************************)
EXTENDS CacheAside, Base62

earlyvars == <<asidevars, codecvars>>

(* decode is called by nobody but the tests of tier 1. *)
EarlyInit ==
  /\ AsideInit
  /\ CodecInit
  /\ codec = "decode" => tier = "1" /\ stage = "unminted"

EarlyNext ==
  \/ /\ codec = "encoded" => tier = "1" /\ stage = "unminted" /\ pc = [r \in Requests |-> "done"]
     /\ CodecNext
     /\ UNCHANGED asidevars
  \/ /\ codec = "encoded"
     /\ AsideNext(IsValid(text))
     /\ UNCHANGED codecvars

EarlySpec == EarlyInit /\ [][EarlyNext]_earlyvars
=============================================================================
