----------------------------- MODULE AtomicLink -----------------------------
(***************************************************************************)
(* What a client is promised of one short code, with no cache, lease or    *)
(* filter in sight: a link that every operation reads or changes in one    *)
(* step between its request and its reply.  Each tier's store is shown to  *)
(* implement this; `link' is then what a redirect would be given now.      *)
(*                                                                         *)
(* A link is created once; removed, it never comes back.  A failed request *)
(* is answered Err, or not at all, and may have taken effect.              *)
(***************************************************************************)
CONSTANTS
  Requests, Urls, NoUrl, Ok, Err,
  Anticipates  \* may a redirect show the value of a change that is under way?

VARIABLES
  link,   \* the destination, NoUrl if there is none
  born,   \* has the link been created?
  phase,  \* per request: read, create or change, effected, ended
  value   \* per request: argument of a create or change, then the reply

linkvars == <<link, born, phase, value>>

LinkInit ==
  /\ born \in BOOLEAN
  /\ link \in IF born THEN Urls ELSE {NoUrl}
  /\ phase = [r \in Requests |-> "ended"]
  /\ value = [r \in Requests |-> Ok]

Becomes(r, p, v) == /\ phase' = [phase EXCEPT ![r] = p]
                    /\ value' = [value EXCEPT ![r] = v]

Ask(r) ==
  /\ phase[r] = "ended"
  /\ \/ Becomes(r, "read", NoUrl)
     \/ \E url \in Urls : Becomes(r, "create", url)
     \/ \E url \in Urls \cup {NoUrl} : Becomes(r, "change", url)
  /\ UNCHANGED <<link, born>>

(* The values of changes under way; a removal of no link changes nothing. *)
UnderWay == {value[w] : w \in {w \in Requests : phase[w] = "change"}}

Read(r) ==
  /\ phase[r] = "read"
  /\ \E v \in {link} \cup IF Anticipates THEN UnderWay ELSE {} : Becomes(r, "ended", v)
  /\ UNCHANGED <<link, born>>

Create(r) ==
  /\ phase[r] = "create"
  /\ ~born
  /\ born' = TRUE
  /\ link' = value[r]
  /\ Becomes(r, "effected", Ok) \/ \E v \in {Ok, Err} : Becomes(r, "ended", v)

Change(r) ==
  /\ phase[r] = "change"
  /\ link # NoUrl
  /\ link' = value[r]
  /\ Becomes(r, "effected", Ok)
  /\ UNCHANGED born

Refuse(r) ==
  /\ phase[r] = "change"
  /\ link = NoUrl
  /\ Becomes(r, "ended", NoUrl)
  /\ UNCHANGED <<link, born>>

Confirm(r) ==
  /\ phase[r] = "effected"
  /\ Becomes(r, "ended", Ok)
  /\ UNCHANGED <<link, born>>

(* Also a reply that its client is no longer there to receive. *)
Fail(r) ==
  /\ Becomes(r, "ended", Err)
  /\ UNCHANGED <<link, born>>

LinkNext ==
  \E r \in Requests :
    Ask(r) \/ Read(r) \/ Create(r) \/ Change(r) \/ Refuse(r) \/ Confirm(r) \/ Fail(r)

LinkSpec == LinkInit /\ [][LinkNext]_linkvars
============================================================================
