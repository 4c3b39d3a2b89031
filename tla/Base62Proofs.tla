---------------------------- MODULE Base62Proofs ----------------------------
(***************************************************************************)
(* What the codec promises, for every base and word size.                  *)
(*                                                                         *)
(* The round trip needs no powers and no sums: decode passes, backwards,   *)
(* the very values n had in encode, which trail remembers.  The length of  *)
(* a code and the exactness of Overflow are about powers and sums, which   *)
(* are recursive functions: the provers see such a function as a CHOOSE,   *)
(* and that one exists is shown here by induction on sets of naturals.     *)
(***************************************************************************)
EXTENDS Base62, WellFoundedInduction, TLAPS

CodecTypes ==
  /\ codec \in Phases
  /\ word \in 0 .. MaxWord
  /\ text \in Seq(Symbols)
  /\ read \in 0 .. Len(text)
  /\ trail \in Seq(0 .. MaxWord)

(* From one value of n to the one before it, by the digit in between: while*)
(* encoding the digits lie in the order they were pushed, then reversed.   *)
Pushed ==
  \A k \in 1 .. Len(text) : text[k] < Base /\ trail[k] = Base * trail[k + 1] + text[k]

Turned ==
  \A k \in 1 .. Len(text) :
    LET digit == text[Len(text) - k + 1] IN
      digit < Base /\ trail[k] = Base * trail[k + 1] + digit

(* Decode is at the value it has climbed up to.                            *)
CodecInv ==
  /\ CodecTypes
  /\ trail # <<>> =>
       /\ Len(trail) = Len(text) + 1
       /\ codec \notin {"invalid", "overflow"}
       /\ codec = "encode" => word = trail[Len(trail)] /\ Pushed
       /\ codec # "encode" => trail[Len(trail)] = 0 /\ Turned
       /\ codec \in {"encode", "encoded"} => read = 0
       /\ codec \in {"decode", "decoded"} => word = trail[Len(text) - read + 1]
       /\ codec = "decoded" => read = Len(text)
  /\ trail = <<>> => codec \in {"decode", "decoded", "invalid", "overflow"}

(* Dividing a word by the base. *)
LEMMA Division ==
  ASSUME NEW n \in 0 .. MaxWord, n > 0
  PROVE  /\ n \div Base \in 0 .. MaxWord
         /\ n % Base \in 0 .. Base - 1
         /\ n = Base * (n \div Base) + (n % Base)
BY BaseOK, WordOK

LEMMA ElementOf == ASSUME NEW S, NEW s \in Seq(S), NEW i \in 1 .. Len(s) PROVE s[i] \in S
OBVIOUS

LEMMA InitTurns == CodecInit => CodecInv
<1> SUFFICES ASSUME CodecInit PROVE CodecInv
  OBVIOUS
<1>1. CASE codec = "encode" /\ word \in 0 .. MaxWord /\ text = <<>> /\ trail = <<word>>
  BY <1>1, WordOK DEF CodecInit, CodecInv, CodecTypes, Phases, Pushed, Symbols
<1>2. CASE codec = "decode" /\ word = 0 /\ text \in Texts /\ trail = <<>>
  BY <1>2, WordOK, TextsOK DEF CodecInit, CodecInv, CodecTypes, Phases
<1> QED
  BY <1>1, <1>2 DEF CodecInit

LEMMA ZeroTurns == ASSUME CodecInv, EncodeZero PROVE CodecInv'
<1>1. codec' = "encoded" /\ word' = 0 /\ read' = read /\ text' = <<0>>
  BY DEF EncodeZero
<1>2. trail = <<0>> /\ read = 0
  <2>1. trail # <<>> /\ Len(trail) = 1 /\ trail[1] = 0 /\ read = 0
    BY DEF EncodeZero, CodecInv, CodecTypes
  <2> QED
    BY <2>1 DEF CodecInv, CodecTypes
<1>3. /\ trail' \in Seq(0 .. MaxWord) /\ trail' # <<>> /\ Len(trail') = 2
      /\ trail'[1] = 0 /\ trail'[2] = 0
  <2>1. trail' = Append(trail, 0)
    BY DEF EncodeZero
  <2>2. trail \in Seq(0 .. MaxWord) /\ 0 \in 0 .. MaxWord
    BY WordOK DEF CodecInv, CodecTypes
  <2> QED
    BY <1>2, <2>1, <2>2
<1> QED
  BY <1>1, <1>2, <1>3, BaseOK, WordOK DEF CodecInv, CodecTypes, Phases, Symbols, Turned

LEMMA PushTurns == ASSUME CodecInv, PushDigit PROVE CodecInv'
<1>1. /\ word \in 0 .. MaxWord /\ word > 0
      /\ text \in Seq(Symbols) /\ trail \in Seq(0 .. MaxWord)
      /\ codec = "encode" /\ trail # <<>> /\ read = 0
      /\ Len(trail) = Len(text) + 1 /\ word = trail[Len(trail)] /\ Pushed
  BY DEF CodecInv, CodecTypes, PushDigit
<1>2. /\ word' = word \div Base /\ word' \in 0 .. MaxWord
      /\ word % Base \in 0 .. Base - 1
      /\ word = Base * word' + (word % Base)
  BY <1>1, Division DEF PushDigit
<1>3. /\ text' = Append(text, word % Base) /\ trail' = Append(trail, word')
      /\ codec' = "encode" /\ read' = 0
  BY <1>1 DEF PushDigit
<1>4. text' \in Seq(Symbols) /\ trail' \in Seq(0 .. MaxWord)
  BY <1>1, <1>2, <1>3, BaseOK DEF Symbols
<1>5. /\ Len(text') = Len(text) + 1 /\ Len(trail') = Len(trail) + 1
      /\ trail' # <<>> /\ word' = trail'[Len(trail')]
  BY <1>1, <1>2, <1>3
<1>6. Pushed'
  <2> SUFFICES ASSUME NEW k \in 1 .. Len(text')
               PROVE  text'[k] < Base /\ trail'[k] = Base * trail'[k + 1] + text'[k]
    BY DEF Pushed
  <2>1. CASE k \in 1 .. Len(text)
    <3>1. text'[k] = text[k] /\ trail'[k] = trail[k] /\ trail'[k + 1] = trail[k + 1]
      BY <1>1, <1>2, <1>3, <2>1
    <3> QED
      BY <1>1, <2>1, <3>1 DEF Pushed
  <2>2. CASE k = Len(text) + 1
    <3>1. text'[k] = word % Base /\ trail'[k] = word /\ trail'[k + 1] = word'
      BY <1>1, <1>2, <1>3, <2>2
    <3> QED
      BY <1>2, <3>1, BaseOK
  <2> QED
    BY <1>1, <1>5, <2>1, <2>2
<1> QED
  BY <1>1, <1>2, <1>3, <1>4, <1>5, <1>6 DEF CodecInv, CodecTypes, Phases

LEMMA ReverseTurns == ASSUME CodecInv, ReverseDigits PROVE CodecInv'
<1>1. /\ word = 0 /\ text \in Seq(Symbols) /\ trail \in Seq(0 .. MaxWord)
      /\ codec = "encode" /\ trail # <<>> /\ read = 0
      /\ Len(trail) = Len(text) + 1 /\ word = trail[Len(trail)] /\ Pushed
  BY DEF CodecInv, CodecTypes, ReverseDigits
<1>2. /\ text' = [i \in 1 .. Len(text) |-> text[(Len(text) - i) + 1]]
      /\ trail' = trail /\ word' = 0 /\ codec' = "encoded" /\ read' = 0
  BY <1>1 DEF ReverseDigits, Reverse
<1>3. text' \in Seq(Symbols) /\ Len(text') = Len(text)
  BY <1>1, <1>2
<1>4. Turned'
  <2> SUFFICES ASSUME NEW k \in 1 .. Len(text)
               PROVE  /\ text'[Len(text) - k + 1] < Base
                      /\ trail[k] = Base * trail[k + 1] + text'[Len(text) - k + 1]
    BY <1>2, <1>3 DEF Turned
  <2>1. text'[Len(text) - k + 1] = text[k]
    BY <1>1, <1>2
  <2> QED
    BY <1>1, <2>1 DEF Pushed
<1> QED
  BY <1>1, <1>2, <1>3, <1>4, WordOK DEF CodecInv, CodecTypes, Phases

LEMMA DecodeTurns == ASSUME CodecInv, DecodeStep PROVE CodecInv'
<1>1. CASE Decode
  <2>1. Turned => Turned'
    BY <1>1 DEF Decode, Turned
  <2> QED
    BY <1>1, <2>1, WordOK DEF Decode, CodecInv, CodecTypes, Phases
<1>2. CASE DecodeEnd
  <2>1. Turned => Turned'
    BY <1>2 DEF DecodeEnd, Turned
  <2> QED
    BY <1>2, <2>1 DEF DecodeEnd, CodecInv, CodecTypes, Phases
<1>3. CASE ReadByte
  <2>1. /\ codec = "decode" /\ read \in 0 .. Len(text) /\ read < Len(text)
        /\ read' = read + 1 /\ text' = text /\ trail' = trail
        /\ text \in Seq(Symbols) /\ trail \in Seq(0 .. MaxWord) /\ word \in 0 .. MaxWord
    BY <1>3 DEF ReadByte, CodecInv, CodecTypes
  <2>2. text[read + 1] \in 0 .. Base
    <3>1. read + 1 \in 1 .. Len(text)
      BY <2>1
    <3> QED
      BY <2>1, <3>1, ElementOf DEF Symbols
  <2>3. CodecTypes'
    BY <1>3, <2>1, <2>2, BaseOK, WordOK DEF ReadByte, Checked, CodecTypes, Phases
  <2>4. CASE trail = <<>>
    BY <1>3, <2>1, <2>3, <2>4 DEF ReadByte, CodecInv
  <2>5. CASE trail # <<>>
    <3>1. /\ Len(trail) = Len(text) + 1 /\ trail[Len(trail)] = 0 /\ Turned
          /\ word = trail[Len(text) - read + 1]
      BY <2>1, <2>5 DEF CodecInv
    <3>2. /\ text[read + 1] < Base
          /\ trail[Len(text) - read] = Base * word + text[read + 1]
      <4> DEFINE k == Len(text) - read
      <4>1. k \in 1 .. Len(text) /\ Len(text) - k + 1 = read + 1 /\ k + 1 = Len(text) - read + 1
        BY <2>1
      <4>2. /\ text[Len(text) - k + 1] < Base
            /\ trail[k] = Base * trail[k + 1] + text[Len(text) - k + 1]
        BY <3>1, <4>1 DEF Turned
      <4> QED
        BY <3>1, <4>1, <4>2
    <3>3. trail[Len(text) - read] \in 0 .. MaxWord
      <4>1. Len(text) - read \in 1 .. Len(trail)
        BY <2>1, <3>1
      <4> QED
        BY <2>1, <4>1, ElementOf
    <3>4. Checked(word, text[read + 1]) = trail[Len(text) - read]
      BY <2>1, <2>2, <3>2, BaseOK, WordOK DEF Checked
    <3>5. codec' = "decode" /\ word' = trail[Len(text) - read]
      BY <1>3, <2>1, <2>2, <3>2, <3>3, <3>4, BaseOK, WordOK DEF ReadByte
    <3>6. Turned'
      BY <2>1, <3>1 DEF Turned
    <3> QED
      BY <2>1, <2>3, <2>5, <3>1, <3>5, <3>6 DEF CodecInv
  <2> QED
    BY <2>4, <2>5
<1> QED
  BY <1>1, <1>2, <1>3 DEF DecodeStep

LEMMA CodecKeeps == ASSUME CodecInv, [CodecNext]_codecvars PROVE CodecInv'
<1>1. CASE UNCHANGED codecvars
  BY <1>1 DEF codecvars, CodecInv, CodecTypes, Pushed, Turned
<1> QED
  BY <1>1, ZeroTurns, PushTurns, ReverseTurns, DecodeTurns DEF CodecNext, EncodeStep

LEMMA InvRoundTrips == CodecInv => RoundTrip
BY DEF CodecInv, CodecTypes, RoundTrip

(* decode inverts encode for every word, whatever the base and the word    *)
(* size: no two ids share a code, and no code is rejected by decode.       *)
THEOREM DecodeInvertsEncode == CodecSpec => []RoundTrip
<1>1. CodecSpec => []CodecInv
  BY InitTurns, CodecKeeps, PTL DEF CodecSpec
<1> QED
  BY <1>1, InvRoundTrips, PTL

----------------------------------------------------------------------------
(* Recursion on the naturals. *)

(* A set of naturals with 0 and with the successor of each of its elements *)
(* is all of them: otherwise take the least that is missing.               *)
LEMMA SetInduction ==
  ASSUME NEW T \in SUBSET Nat, 0 \in T, \A n \in T : n + 1 \in T
  PROVE  T = Nat
<1> SUFFICES ASSUME Nat \ T # {} PROVE FALSE
  OBVIOUS
<1> DEFINE R == {ss \in Nat \X Nat : ss[1] < ss[2]}
<1>1. IsWellFoundedOn(R, Nat)
  BY NatLessThanWellFounded DEF OpToRel
<1>2. \A x, y \in Nat : y < x => <<y, x>> \in R
  OBVIOUS
<1> HIDE DEF R
<1>3. PICK n \in Nat \ T : \A m \in Nat \ T : ~ (<<m, n>> \in R)
  BY <1>1, WFMin
<1>4. n # 0 /\ n - 1 \in Nat /\ n - 1 < n /\ n - 1 + 1 = n
  BY <1>3
<1>5. n - 1 \in T
  BY <1>2, <1>3, <1>4
<1>6. (n - 1) + 1 \in T
  BY <1>5
<1> QED
  BY <1>3, <1>4, <1>6

(* h follows the recursion from c by F, up to n. *)
Follows(h, c, F, n) ==
  h \in [Nat -> Nat] /\ h[0] = c /\ \A k \in Nat : k < n => h[k + 1] = F[k][h[k]]

LEMMA OneResult ==
  ASSUME NEW c, NEW F, NEW n \in Nat, NEW g, NEW h, Follows(g, c, F, n), Follows(h, c, F, n + 1)
  PROVE  g[n] = h[n]
<1> DEFINE T == {k \in Nat : k <= n => g[k] = h[k]}
<1>1. 0 \in T
  BY DEF Follows
<1>2. ASSUME NEW k \in T PROVE k + 1 \in T
  <2>1. k \in Nat /\ (k <= n => g[k] = h[k])
    OBVIOUS
  <2>2. ASSUME k + 1 <= n PROVE g[k + 1] = h[k + 1]
    <3>1. k <= n /\ k < n /\ k < n + 1
      BY <2>1, <2>2
    <3>2. g[k] = h[k]
      BY <2>1, <3>1
    <3>3. g[k + 1] = F[k][g[k]] /\ h[k + 1] = F[k][h[k]]
      BY <2>1, <3>1 DEF Follows
    <3> QED
      BY <3>2, <3>3
  <2> QED
    BY <2>1, <2>2
<1>3. T = Nat
  <2> HIDE DEF T
  <2>1. T \in SUBSET Nat
    BY DEF T
  <2> QED
    BY <1>1, <1>2, <2>1, SetInduction
<1>4. \A k \in Nat : k \in T
  BY <1>3
<1> QED
  BY <1>4

LEMMA Computable ==
  ASSUME NEW c \in Nat, NEW F \in [Nat -> [Nat -> Nat]]
  PROVE  \A n \in Nat : \E h : Follows(h, c, F, n)
<1> DEFINE T == {n \in Nat : \E h : Follows(h, c, F, n)}
<1>1. 0 \in T
  <2>1. Follows([k \in Nat |-> c], c, F, 0)
    BY DEF Follows
  <2> QED
    BY <2>1
<1>2. ASSUME NEW n \in T PROVE n + 1 \in T
  <2>1. PICK h : Follows(h, c, F, n)
    OBVIOUS
  <2> DEFINE g == [k \in Nat |-> IF k = n + 1 THEN F[n][h[n]] ELSE h[k]]
  <2>2. /\ n \in Nat /\ h \in [Nat -> Nat] /\ h[0] = c
        /\ \A k \in Nat : k < n => h[k + 1] = F[k][h[k]]
    BY <2>1 DEF Follows
  <2>3. F[n][h[n]] \in Nat
    BY <2>2
  <2>4. g \in [Nat -> Nat] /\ g[0] = c /\ g[n + 1] = F[n][h[n]]
    <3>1. n + 1 \in Nat /\ n + 1 # 0
      BY <2>2
    <3>2. \A k \in Nat : (IF k = n + 1 THEN F[n][h[n]] ELSE h[k]) \in Nat
      BY <2>2, <2>3
    <3>3. g \in [Nat -> Nat]
      BY <3>2
    <3> QED
      BY <2>2, <3>1, <3>3
  <2>5. ASSUME NEW k \in Nat, k # n + 1 PROVE g[k] = h[k]
    BY <2>5
  <2> HIDE DEF g
  <2>6. ASSUME NEW k \in Nat, k < n + 1 PROVE g[k + 1] = F[k][g[k]]
    <3>1. g[k] = h[k]
      BY <2>2, <2>5, <2>6
    <3>2. CASE k = n
      BY <2>4, <3>1, <3>2
    <3>3. CASE k < n
      <4>1. k + 1 # n + 1 /\ k + 1 \in Nat
        BY <2>2, <3>3
      <4>2. g[k + 1] = h[k + 1] /\ h[k + 1] = F[k][h[k]]
        BY <2>2, <2>5, <3>3, <4>1
      <4> QED
        BY <3>1, <4>2
    <3> QED
      BY <2>2, <2>6, <3>2, <3>3
  <2>7. Follows(g, c, F, n + 1)
    BY <2>4, <2>6 DEF Follows
  <2> QED
    BY <2>2, <2>7
<1>3. T = Nat
  <2> HIDE DEF T
  <2>1. T \in SUBSET Nat
    BY DEF T
  <2> QED
    BY <1>1, <1>2, <2>1, SetInduction
<1>4. \A n \in Nat : n \in T
  BY <1>3
<1> QED
  BY <1>4

(* The recursion from c by F has a solution on all of Nat. *)
LEMMA Recursion ==
  ASSUME NEW c \in Nat, NEW F \in [Nat -> [Nat -> Nat]]
  PROVE  \E g \in [Nat -> Nat] : g[0] = c /\ \A n \in Nat : g[n + 1] = F[n][g[n]]
<1> DEFINE H(n) == CHOOSE h : Follows(h, c, F, n)
           G == [n \in Nat |-> H(n)[n]]
<1>1. ASSUME NEW n \in Nat PROVE Follows(H(n), c, F, n)
  BY Computable
<1> HIDE DEF H
<1>2. ASSUME NEW n \in Nat PROVE H(n) \in [Nat -> Nat] /\ H(n)[0] = c
  BY <1>1 DEF Follows
<1>3. ASSUME NEW n \in Nat PROVE H(n + 1)[n + 1] = F[n][H(n)[n]]
  <2>1. Follows(H(n), c, F, n) /\ Follows(H(n + 1), c, F, n + 1)
    BY <1>1
  <2>2. H(n)[n] = H(n + 1)[n]
    BY <2>1, OneResult
  <2>3. H(n + 1)[n + 1] = F[n][H(n + 1)[n]]
    BY <2>1 DEF Follows
  <2> QED
    BY <2>2, <2>3
<1>4. G \in [Nat -> Nat] /\ G[0] = c
  BY <1>2
<1>5. ASSUME NEW n \in Nat PROVE G[n + 1] = F[n][G[n]]
  <2>1. G[n + 1] = H(n + 1)[n + 1] /\ G[n] = H(n)[n]
    OBVIOUS
  <2> QED
    BY <1>3, <2>1
<1> HIDE DEF G
<1> QED
  BY <1>4, <1>5

----------------------------------------------------------------------------
(* Powers and place values. *)

LEMMA PowerIs ==
  Power \in [Nat -> Nat] /\ Power[0] = 1 /\ \A k \in Nat : Power[k + 1] = Base * Power[k]
<1> DEFINE F == [k \in Nat |-> [v \in Nat |-> Base * v]]
           Is(g) == g = [k \in Nat |-> IF k = 0 THEN 1 ELSE Base * g[k - 1]]
<1>1. F \in [Nat -> [Nat -> Nat]] /\ \A k, v \in Nat : F[k][v] = Base * v
  BY BaseOK
<1> HIDE DEF F
<1>2. PICK g \in [Nat -> Nat] : g[0] = 1 /\ \A n \in Nat : g[n + 1] = F[n][g[n]]
  <2>1. \A c \in Nat : \E g \in [Nat -> Nat] :
          g[0] = c /\ \A n \in Nat : g[n + 1] = F[n][g[n]]
    BY <1>1, Recursion
  <2> QED
    BY <2>1
<1>3. ASSUME NEW k \in Nat PROVE g[k] = IF k = 0 THEN 1 ELSE Base * g[k - 1]
  <2>1. CASE k = 0
    BY <1>2, <2>1
  <2>2. CASE k # 0
    <3>1. k - 1 \in Nat /\ (k - 1) + 1 = k
      BY <2>2
    <3>2. g[k] = F[k - 1][g[k - 1]]
      BY <1>2, <3>1
    <3> QED
      BY <1>1, <1>2, <2>2, <3>1, <3>2
  <2> QED
    BY <2>1, <2>2
<1>4. Is(g)
  BY <1>2, <1>3
<1>5. Is(Power)
  BY <1>4 DEF Power
<1>6. ASSUME NEW k \in Nat PROVE Power[k] = IF k = 0 THEN 1 ELSE Base * Power[k - 1]
  BY <1>5
<1>7. Power[0] = 1
  BY <1>6
<1>8. ASSUME NEW k \in Nat PROVE Power[k + 1] = Base * Power[k]
  <2>1. k + 1 \in Nat /\ k + 1 # 0 /\ (k + 1) - 1 = k
    OBVIOUS
  <2> QED
    BY <1>6, <2>1
<1>9. \A k \in Nat : Power[k] \in Nat
  <2> DEFINE T == {k \in Nat : Power[k] \in Nat}
  <2>1. 0 \in T /\ \A k \in T : k + 1 \in T
    BY <1>7, <1>8, BaseOK
  <2>2. T = Nat
    <3>1. T \in SUBSET Nat
      OBVIOUS
    <3> HIDE DEF T
    <3> QED
      BY <2>1, <3>1, SetInduction
  <2>3. \A k \in Nat : k \in T
    BY <2>2
  <2> QED
    BY <2>3
<1>10. Power \in [Nat -> Nat]
  BY <1>5, <1>9
<1> QED
  BY <1>7, <1>8, <1>10

LEMMA PlacesAre ==
  ASSUME NEW s \in Seq(Symbols)
  PROVE  /\ \A k \in 0 .. Len(s) : Places(s)[k] \in Nat
         /\ Places(s)[0] = 0
         /\ \A k \in Nat : k < Len(s) =>
              Places(s)[k + 1] = Places(s)[k] + s[k + 1] * Power[Len(s) - (k + 1)]
<1> DEFINE n == Len(s)
           Added(k) == s[k + 1] * Power[n - (k + 1)]
           F == [k \in Nat |-> [v \in Nat |-> IF k < n THEN v + Added(k) ELSE v]]
           Is(h) == h = [k \in 0 .. n |->
                           IF k = 0 THEN 0 ELSE h[k - 1] + s[k] * Power[n - k]]
<1>1. n \in Nat
  OBVIOUS
<1>2. ASSUME NEW k \in Nat, k < n PROVE Added(k) \in Nat
  <2>1. k + 1 \in 1 .. n /\ n - (k + 1) \in Nat
    BY <1>1, <1>2
  <2>2. s[k + 1] \in Nat
    BY <2>1, ElementOf, BaseOK DEF Symbols
  <2>3. Power[n - (k + 1)] \in Nat
    BY <2>1, PowerIs
  <2> HIDE DEF n
  <2> QED
    BY <2>2, <2>3
<1> HIDE DEF n, Added
<1>3. /\ F \in [Nat -> [Nat -> Nat]]
      /\ \A k, v \in Nat : F[k][v] = IF k < n THEN v + Added(k) ELSE v
  <2>1. \A k, v \in Nat : (IF k < n THEN v + Added(k) ELSE v) \in Nat
    BY <1>2
  <2> QED
    BY <2>1
<1> HIDE DEF F
<1>4. PICK g \in [Nat -> Nat] : g[0] = 0 /\ \A k \in Nat : g[k + 1] = F[k][g[k]]
  <2>1. \A c \in Nat : \E g \in [Nat -> Nat] :
          g[0] = c /\ \A k \in Nat : g[k + 1] = F[k][g[k]]
    BY <1>3, Recursion
  <2> QED
    BY <2>1
<1> DEFINE h == [k \in 0 .. n |-> g[k]]
<1>5. ASSUME NEW k \in 0 .. n, k # 0 PROVE h[k] = h[k - 1] + s[k] * Power[n - k]
  <2>1. k - 1 \in Nat /\ k - 1 < n /\ (k - 1) + 1 = k /\ k - 1 \in 0 .. n
    BY <1>1, <1>5
  <2>2. g[k] = F[k - 1][g[k - 1]]
    BY <1>4, <2>1
  <2>3. g[k] = g[k - 1] + Added(k - 1)
    BY <1>3, <1>4, <2>1, <2>2
  <2>4. Added(k - 1) = s[k] * Power[n - k]
    BY <2>1 DEF Added
  <2>5. h[k] = g[k] /\ h[k - 1] = g[k - 1]
    BY <2>1
  <2> HIDE DEF h
  <2> QED
    BY <2>3, <2>4, <2>5
<1>6. Is(h)
  <2>1. \A k \in 0 .. n : h[k] = IF k = 0 THEN 0 ELSE h[k - 1] + s[k] * Power[n - k]
    BY <1>1, <1>4, <1>5
  <2>2. h = [k \in 0 .. n |-> h[k]]
    OBVIOUS
  <2> HIDE DEF h
  <2> QED
    BY <2>1, <2>2
<1> HIDE DEF h
<1>7. Is(Places(s))
  BY <1>6 DEF Places, n
<1>8. \A k \in 0 .. n :
        Places(s)[k] = IF k = 0 THEN 0 ELSE Places(s)[k - 1] + s[k] * Power[n - k]
  BY <1>7
<1>9. ASSUME NEW k \in Nat, k < n PROVE Places(s)[k + 1] = Places(s)[k] + Added(k)
  <2>1. k + 1 \in 0 .. n /\ k + 1 # 0 /\ (k + 1) - 1 = k
    BY <1>1, <1>9
  <2> QED
    BY <1>8, <2>1 DEF Added
<1>10. Places(s)[0] = 0
  BY <1>1, <1>8
<1>11. \A k \in 0 .. n : Places(s)[k] \in Nat
  <2> DEFINE T == {k \in Nat : k <= n => Places(s)[k] \in Nat}
  <2>1. 0 \in T
    BY <1>10
  <2>2. ASSUME NEW k \in T PROVE k + 1 \in T
    <3>1. ASSUME k + 1 <= n PROVE Places(s)[k + 1] \in Nat
      <4>1. k \in Nat /\ k < n /\ k <= n
        BY <1>1, <3>1
      <4>2. Places(s)[k] \in Nat /\ Added(k) \in Nat
        BY <1>2, <4>1
      <4>3. Places(s)[k + 1] = Places(s)[k] + Added(k)
        BY <1>9, <4>1
      <4>4. \A a, b \in Nat : a + b \in Nat
        OBVIOUS
      <4> QED
        BY <4>2, <4>3, <4>4, Zenon
    <3> QED
      BY <3>1
  <2>3. T = Nat
    <3>1. T \in SUBSET Nat
      OBVIOUS
    <3> HIDE DEF T
    <3> QED
      BY <2>1, <2>2, <3>1, SetInduction
  <2>4. \A k \in Nat : k \in T
    BY <2>3
  <2> QED
    BY <1>1, <2>4
<1> QED
  BY <1>9, <1>10, <1>11 DEF n, Added

(* One more digit moves every other digit up one place. *)
LEMMA OneMoreDigit ==
  ASSUME NEW s \in Seq(Symbols), NEW d \in Symbols
  PROVE  Value(Append(s, d)) = Base * Value(s) + d
<1> DEFINE t == Append(s, d)
           n == Len(s)
<1>1. /\ n \in Nat /\ t \in Seq(Symbols) /\ Len(t) = n + 1 /\ t[n + 1] = d
      /\ \A k \in 1 .. n : t[k] = s[k]
  OBVIOUS
<1> HIDE DEF t, n
<1>2. /\ \A k \in 0 .. n : Places(s)[k] \in Nat
      /\ Places(s)[0] = 0
      /\ \A k \in Nat : k < n =>
           Places(s)[k + 1] = Places(s)[k] + s[k + 1] * Power[n - (k + 1)]
  BY PlacesAre DEF n
<1>3. /\ \A k \in 0 .. n + 1 : Places(t)[k] \in Nat
      /\ Places(t)[0] = 0
      /\ \A k \in Nat : k < n + 1 =>
           Places(t)[k + 1] = Places(t)[k] + t[k + 1] * Power[(n + 1) - (k + 1)]
  BY <1>1, PlacesAre
<1> DEFINE T == {k \in Nat : k <= n => Places(t)[k] = Base * Places(s)[k]}
<1>4. 0 \in T
  BY <1>2, <1>3, BaseOK
<1>5. ASSUME NEW k \in T PROVE k + 1 \in T
  <2>1. ASSUME k + 1 <= n PROVE Places(t)[k + 1] = Base * Places(s)[k + 1]
    <3> DEFINE m == n - (k + 1)
    <3>1. /\ k \in Nat /\ k < n /\ k < n + 1 /\ k \in 0 .. n /\ k + 1 \in 1 .. n
          /\ m \in Nat /\ (n + 1) - (k + 1) = m + 1
      BY <1>1, <2>1
    <3>2. Places(t)[k] = Base * Places(s)[k]
      BY <3>1
    <3>3. s[k + 1] \in Nat /\ t[k + 1] = s[k + 1]
      BY <1>1, <3>1, ElementOf, BaseOK DEF Symbols, n
    <3>4. Power[m] \in Nat /\ Power[m + 1] = Base * Power[m]
      BY <3>1, PowerIs
    <3>5. Places(t)[k + 1] = Places(t)[k] + s[k + 1] * Power[m + 1]
      BY <1>3, <3>1, <3>3
    <3>6. Places(s)[k] \in Nat /\ Places(s)[k + 1] = Places(s)[k] + s[k + 1] * Power[m]
      BY <1>2, <3>1
    <3>7. \A a, b, c \in Nat : Base * a + b * (Base * c) = Base * (a + b * c)
      BY BaseOK
    <3>8. Base * Places(s)[k] + s[k + 1] * (Base * Power[m])
            = Base * (Places(s)[k] + s[k + 1] * Power[m])
      BY <3>3, <3>4, <3>6, <3>7
    <3> HIDE DEF m
    <3> QED
      BY <3>2, <3>4, <3>5, <3>6, <3>8
  <2> QED
    BY <2>1
<1>6. T = Nat
  <2>1. T \in SUBSET Nat
    OBVIOUS
  <2> HIDE DEF T
  <2> QED
    BY <1>4, <1>5, <2>1, SetInduction
<1>7. Places(t)[n] = Base * Places(s)[n]
  <2>1. n \in T
    BY <1>1, <1>6
  <2> QED
    BY <1>1, <2>1
<1>8. Places(t)[n + 1] = Places(t)[n] + d
  <2>1. (n + 1) - (n + 1) = 0 /\ n < n + 1 /\ d \in Nat
    BY <1>1, BaseOK DEF Symbols
  <2>2. Places(t)[n + 1] = Places(t)[n] + d * Power[0]
    BY <1>1, <1>3, <2>1
  <2>3. d * Power[0] = d
    BY <2>1, PowerIs
  <2> QED
    BY <2>2, <2>3, Zenon
<1> QED
  BY <1>1, <1>7, <1>8 DEF Value, t, n

----------------------------------------------------------------------------
(* The length of a code. *)

(* What is left to encode fits into the places that are left.              *)
FitsSoFar ==
  codec = "encode" => Len(text) <= MaxLen /\ word < Power[MaxLen - Len(text)]

LEMMA InitFits == CodecInit => FitsSoFar /\ CodesAreValid
<1> SUFFICES ASSUME CodecInit PROVE FitsSoFar /\ CodesAreValid
  OBVIOUS
<1>1. CASE codec = "encode" /\ word \in 0 .. MaxWord /\ text = <<>>
  <2>1. Len(text) = 0 /\ MaxLen - 0 = MaxLen /\ 0 <= MaxLen /\ word \in Nat /\ word <= MaxWord
    BY <1>1, LenOK, WordOK
  <2>2. Power[MaxLen] \in Nat
    BY PowerIs, LenOK
  <2>3. word < Power[MaxLen]
    BY <2>1, <2>2, LenOK, WordOK
  <2> QED
    BY <1>1, <2>1, <2>3 DEF FitsSoFar, CodesAreValid
<1>2. CASE codec = "decode"
  BY <1>2 DEF FitsSoFar, CodesAreValid
<1> QED
  BY <1>1, <1>2 DEF CodecInit

(* There is room for one digit at least. *)
LEMMA RoomForZero == MaxLen >= 1
<1>1. MaxLen = 0 => FALSE
  BY LenOK, WordOK, BaseOK, PowerIs
<1> QED
  BY <1>1, LenOK

LEMMA PushFits == ASSUME CodecInv, FitsSoFar, PushDigit PROVE FitsSoFar'
<1>1. /\ word \in 0 .. MaxWord /\ word > 0 /\ codec = "encode" /\ text \in Seq(Symbols)
      /\ Len(text) <= MaxLen /\ word < Power[MaxLen - Len(text)]
      /\ text' = Append(text, word % Base) /\ word' = word \div Base /\ codec' = "encode"
  BY DEF CodecInv, CodecTypes, FitsSoFar, PushDigit
<1>2. Len(text) \in Nat /\ Len(text') = Len(text) + 1
  BY <1>1
<1>3. Len(text) # MaxLen
  <2>1. MaxLen - MaxLen = 0
    BY LenOK
  <2>2. word < 1 => FALSE
    BY <1>1
  <2> QED
    BY <1>1, <2>1, <2>2, PowerIs
<1> DEFINE left == MaxLen - Len(text')
<1>4. left \in Nat /\ MaxLen - Len(text) = left + 1 /\ Len(text') <= MaxLen
  BY <1>1, <1>2, <1>3, LenOK
<1> HIDE DEF left
<1>5. Power[left] \in Nat /\ Power[left + 1] = Base * Power[left]
  BY <1>4, PowerIs
<1>6. word \in Nat /\ word < Base * Power[left]
  BY <1>1, <1>4, <1>5, WordOK
<1>7. word \div Base \in Nat /\ word >= Base * (word \div Base)
  <2>1. /\ word \div Base \in Nat /\ word % Base \in Nat
        /\ word = Base * (word \div Base) + (word % Base)
    <3>1. /\ word \div Base \in 0 .. MaxWord /\ word % Base \in 0 .. Base - 1
          /\ word = Base * (word \div Base) + (word % Base)
      BY <1>1, Division
    <3>2. \A n \in Nat : \A x \in 0 .. n : x \in Nat
      OBVIOUS
    <3>3. Base - 1 \in Nat /\ MaxWord \in Nat
      BY BaseOK, WordOK
    <3> QED
      BY <3>1, <3>2, <3>3, Zenon
  <2>2. \A w, q, m \in Nat : w = Base * q + m => w >= Base * q
    BY BaseOK
  <2> QED
    BY <1>6, <2>1, <2>2
<1>8. \A a, b \in Nat : Base * a < Base * b => a < b
  BY BaseOK
<1>9. Base * (word \div Base) < Base * Power[left]
  <2>1. \A x, y, z \in Nat : x >= y /\ x < z => y < z
    OBVIOUS
  <2>2. Base * (word \div Base) \in Nat /\ Base * Power[left] \in Nat
    BY <1>5, <1>7, BaseOK
  <2> QED
    BY <1>6, <1>7, <2>1, <2>2
<1>10. word \div Base < Power[left]
  BY <1>5, <1>7, <1>8, <1>9
<1> QED
  BY <1>1, <1>4, <1>10 DEF FitsSoFar, left

LEMMA CodecKeepsFit ==
  ASSUME CodecInv, CodecInv', FitsSoFar, CodesAreValid, [CodecNext]_codecvars
  PROVE  FitsSoFar' /\ CodesAreValid'
<1>1. CASE UNCHANGED codecvars
  BY <1>1 DEF codecvars, FitsSoFar, CodesAreValid, IsValid
<1>2. CASE PushDigit
  BY <1>2, PushFits DEF PushDigit, CodesAreValid
<1>3. CASE EncodeZero
  <2>1. codec' = "encoded" /\ text' = <<0>>
    BY <1>3 DEF EncodeZero
  <2>2. IsValid(<<0>>)
    BY RoomForZero, LenOK, BaseOK DEF IsValid
  <2> QED
    BY <2>1, <2>2 DEF FitsSoFar, CodesAreValid, IsValid
<1>4. CASE ReverseDigits
  <2>1. /\ codec = "encode" /\ codec' = "encoded" /\ text # <<>> /\ text \in Seq(Symbols)
        /\ text' = [i \in 1 .. Len(text) |-> text[(Len(text) - i) + 1]]
        /\ Len(text) <= MaxLen /\ trail # <<>> /\ Pushed
    BY <1>4 DEF ReverseDigits, Reverse, FitsSoFar, CodecInv, CodecTypes
  <2>2. text' \in Seq(Symbols) /\ Len(text') = Len(text) /\ Len(text') \in 1 .. MaxLen
    BY <2>1, LenOK
  <2>3. ASSUME NEW k \in 1 .. Len(text') PROVE text'[k] < Base
    <3>1. Len(text) - k + 1 \in 1 .. Len(text)
      BY <2>1, <2>2
    <3>2. text'[k] = text[Len(text) - k + 1]
      BY <2>1, <2>2
    <3> QED
      BY <2>1, <3>1, <3>2 DEF Pushed
  <2>4. IsValid(text)'
    BY <2>2, <2>3 DEF IsValid
  <2> QED
    BY <2>1, <2>4 DEF FitsSoFar, CodesAreValid
<1>5. CASE DecodeStep
  BY <1>5 DEF DecodeStep, Decode, ReadByte, DecodeEnd, FitsSoFar, CodesAreValid
<1> QED
  BY <1>1, <1>2, <1>3, <1>4, <1>5 DEF CodecNext, EncodeStep

(* is_valid accepts every code that encode returns, for every base, word   *)
(* size and length that leave room for the largest word.                   *)
THEOREM CodesPassIsValid == CodecSpec => []CodesAreValid
<1>1. CodecInit => CodecInv /\ FitsSoFar /\ CodesAreValid
  BY InitTurns, InitFits
<1>2. CodecInv /\ FitsSoFar /\ CodesAreValid /\ [CodecNext]_codecvars
        => (CodecInv /\ FitsSoFar /\ CodesAreValid)'
  BY CodecKeeps, CodecKeepsFit
<1> QED
  BY <1>1, <1>2, PTL DEF CodecSpec

----------------------------------------------------------------------------
(* Overflow. *)

LEMMA EmptyValue == ASSUME NEW s \in Seq(Symbols) PROVE Value(SubSeq(s, 1, 0)) = 0
<1>1. SubSeq(s, 1, 0) = <<>>
  OBVIOUS
<1>2. <<>> \in Seq(Symbols) /\ Len(<<>>) = 0
  OBVIOUS
<1>3. Places(<<>>)[0] = 0
  BY <1>2, PlacesAre
<1> QED
  BY <1>1, <1>2, <1>3 DEF Value

(* What one more byte makes of the prefix that has been read. *)
LEMMA NextByte ==
  ASSUME NEW s \in Seq(Symbols), NEW n \in 0 .. Len(s), n < Len(s)
  PROVE  Value(SubSeq(s, 1, n + 1)) = Base * Value(SubSeq(s, 1, n)) + s[n + 1]
<1>1. n + 1 \in 1 .. Len(s)
  OBVIOUS
<1>2. SubSeq(s, 1, n) \in Seq(Symbols) /\ s[n + 1] \in Symbols
  BY <1>1, ElementOf
<1>3. SubSeq(s, 1, n + 1) = Append(SubSeq(s, 1, n), s[n + 1])
  BY <1>1, <1>2
<1> QED
  BY <1>2, <1>3, OneMoreDigit

LEMMA InitExact == CodecInit => OverflowIsExact
<1> SUFFICES ASSUME CodecInit PROVE OverflowIsExact
  OBVIOUS
<1>1. CASE codec = "encode"
  BY <1>1 DEF OverflowIsExact
<1>2. CASE codec = "decode" /\ word = 0 /\ text \in Texts /\ read = 0
  <2>1. text \in Seq(Symbols)
    BY <1>2, TextsOK
  <2>2. Value(SubSeq(text, 1, read)) = 0
    BY <1>2, <2>1, EmptyValue
  <2> QED
    BY <1>2, <2>2 DEF OverflowIsExact
<1> QED
  BY <1>1, <1>2 DEF CodecInit

LEMMA ReadExact == ASSUME CodecInv, OverflowIsExact, ReadByte PROVE OverflowIsExact'
<1> DEFINE value == text[read + 1]
<1>1. /\ codec = "decode" /\ read \in 0 .. Len(text) /\ read < Len(text)
      /\ text \in Seq(Symbols) /\ word \in Nat
      /\ read' = read + 1 /\ text' = text
      /\ word = Value(SubSeq(text, 1, read))
  BY WordOK DEF ReadByte, CodecInv, CodecTypes, OverflowIsExact
<1>2. value \in Nat
  <2>1. read + 1 \in 1 .. Len(text)
    BY <1>1
  <2> QED
    BY <1>1, <2>1, ElementOf, BaseOK DEF Symbols
<1>3. Value(SubSeq(text, 1, read + 1)) = Base * Value(SubSeq(text, 1, read)) + value
  BY <1>1, NextByte
<1>4. Value(SubSeq(text, 1, read))' = Checked(word, value)
  <2>1. Base * word = word * Base
    BY <1>1, BaseOK
  <2> QED
    BY <1>1, <1>3, <2>1, Zenon DEF Checked
<1>5. \/ codec' = "invalid"
      \/ codec' = "overflow" /\ Checked(word, value) > MaxWord
      \/ codec' = "decode" /\ word' = Checked(word, value)
  BY <1>1 DEF ReadByte
<1> QED
  BY <1>4, <1>5 DEF OverflowIsExact

LEMMA CodecKeepsExact ==
  ASSUME CodecInv, OverflowIsExact, [CodecNext]_codecvars PROVE OverflowIsExact'
<1>1. CASE UNCHANGED codecvars
  BY <1>1 DEF codecvars, OverflowIsExact
<1>2. CASE EncodeStep
  BY <1>2 DEF EncodeStep, EncodeZero, PushDigit, ReverseDigits, OverflowIsExact
<1>3. CASE Decode
  <2>1. text \in Seq(Symbols) /\ read = 0
    BY <1>3 DEF Decode, CodecInv, CodecTypes
  <2>2. Value(SubSeq(text, 1, read)) = 0
    BY <2>1, EmptyValue
  <2> QED
    BY <1>3, <2>2 DEF Decode, OverflowIsExact
<1>4. CASE DecodeEnd
  BY <1>4 DEF DecodeEnd, OverflowIsExact
<1> QED
  BY <1>1, <1>2, <1>3, <1>4, ReadExact DEF CodecNext, DecodeStep

(* decode says Overflow of a text exactly when the number the text stands  *)
(* for by place value exceeds the word, and otherwise returns that number: *)
(* of any text, whatever the base and the word size.                       *)
THEOREM OverflowMeansTooLarge == CodecSpec => []OverflowIsExact
<1>1. CodecInit => CodecInv /\ OverflowIsExact
  BY InitTurns, InitExact
<1>2. CodecInv /\ OverflowIsExact /\ [CodecNext]_codecvars => (CodecInv /\ OverflowIsExact)'
  BY CodecKeeps, CodecKeepsExact
<1> QED
  BY <1>1, <1>2, PTL DEF CodecSpec
=============================================================================
