------------------------------- MODULE Base62 -------------------------------
(***************************************************************************)
(* base62.rs: encode and decode, one loop iteration per step, for any base *)
(* and word size.  A text is a sequence of symbols; those below Base are   *)
(* the digits of ALPHABET, Base stands for every other character.          *)
(*                                                                         *)
(* The codec runs on a number, which is encoded and may be decoded again   *)
(* (as the round-trip test does), or on a text that somebody made up.      *)
(***************************************************************************)
EXTENDS Naturals, SequencesExt

CONSTANTS
  Base,     \* BASE
  MaxWord,  \* u64::MAX
  MaxLen,   \* the longest code is_valid accepts
  Texts     \* bound: the made-up texts

(* The weight of a place. *)
Power[k \in Nat] == IF k = 0 THEN 1 ELSE Base * Power[k - 1]

ASSUME BaseOK == Base \in Nat /\ Base > 1
ASSUME WordOK == MaxWord \in Nat /\ MaxWord >= Base
ASSUME LenOK == MaxLen \in Nat /\ MaxWord < Power[MaxLen]

Symbols == 0 .. Base

ASSUME TextsOK == Texts \subseteq Seq(Symbols)

VARIABLES
  codec,  \* what the codec is doing, or how it has ended
  word,   \* n
  text,   \* digits, then s
  read,   \* how many bytes of s have been read
  trail   \* history: for a number, the values n took in encode, first to last

codecvars == <<codec, word, text, read, trail>>

Phases == {"encode", "encoded", "decode", "decoded", "invalid", "overflow"}

CodecInit ==
  /\ read = 0
  /\ \/ codec = "encode" /\ word \in 0 .. MaxWord /\ text = <<>> /\ trail = <<word>>
     \/ codec = "decode" /\ word = 0 /\ text \in Texts /\ trail = <<>>

----------------------------------------------------------------------------
(* encode *)

(* Mutant: no special case, so that 0 becomes the empty string. *)
EncodeNothing ==
  /\ codec = "encode" /\ word = 0 /\ text = <<>>
  /\ codec' = "encoded"
  /\ UNCHANGED <<word, text, read, trail>>

EncodeZero ==
  /\ codec = "encode" /\ word = 0 /\ text = <<>>
  /\ codec' = "encoded"
  /\ text' = <<0>>
  /\ trail' = Append(trail, 0)
  /\ UNCHANGED <<word, read>>

PushDigit ==
  /\ codec = "encode" /\ word > 0
  /\ text' = Append(text, word % Base)
  /\ word' = word \div Base
  /\ trail' = Append(trail, word')
  /\ UNCHANGED <<codec, read>>

(* Mutant: the digits stay as they were pushed. *)
KeepOrder ==
  /\ codec = "encode" /\ word = 0 /\ text # <<>>
  /\ codec' = "encoded"
  /\ UNCHANGED <<word, text, read, trail>>

ReverseDigits ==
  /\ codec = "encode" /\ word = 0 /\ text # <<>>
  /\ codec' = "encoded"
  /\ text' = Reverse(text)
  /\ UNCHANGED <<word, read, trail>>

----------------------------------------------------------------------------
(* decode *)

Decode ==
  /\ codec = "encoded"
  /\ codec' = "decode"
  /\ word' = 0
  /\ UNCHANGED <<text, read, trail>>

(* Mutant: only the sum is checked; the product wraps. *)
UncheckedMul(n, value) == ((n * Base) % (MaxWord + 1)) + value

(* checked_mul, then checked_add: more than MaxWord is None. *)
Checked(n, value) == n * Base + value

ReadByte ==
  /\ codec = "decode" /\ read < Len(text)
  /\ read' = read + 1
  /\ LET value == text[read + 1] IN
       \/ value = Base /\ codec' = "invalid" /\ UNCHANGED word
       \/ /\ value < Base /\ Checked(word, value) > MaxWord
          /\ codec' = "overflow" /\ UNCHANGED word
       \/ /\ value < Base /\ Checked(word, value) <= MaxWord
          /\ word' = Checked(word, value) /\ UNCHANGED codec
  /\ UNCHANGED <<text, trail>>

DecodeEnd ==
  /\ codec = "decode" /\ read = Len(text)
  /\ codec' = "decoded"
  /\ UNCHANGED <<word, text, read, trail>>

EncodeStep == EncodeZero \/ PushDigit \/ ReverseDigits
DecodeStep == Decode \/ ReadByte \/ DecodeEnd

CodecNext == EncodeStep \/ DecodeStep

CodecSpec == CodecInit /\ [][CodecNext]_codecvars

----------------------------------------------------------------------------
(* is_valid: 1 to 11 ASCII letters and digits, which are the alphabet. *)
IsValid(s) == Len(s) \in 1 .. MaxLen /\ \A i \in DOMAIN s : s[i] < Base

(* decode(encode(n)) is n, for every word: no two numbers share a code,    *)
(* and decode never rejects what encode has returned.                      *)
RoundTrip ==
  trail # <<>> =>
    codec \notin {"invalid", "overflow"} /\ (codec = "decoded" => word = trail[1])

(* Every minted code passes the test resolve applies to what it is given.  *)
CodesAreValid == codec = "encoded" => IsValid(text)

(* The number a text stands for: the sum of its digits, each times the     *)
(* weight of its place.                                                    *)
Places(s) ==
  LET sum[k \in 0 .. Len(s)] ==
        IF k = 0 THEN 0 ELSE sum[k - 1] + s[k] * Power[Len(s) - k]
  IN  sum

Value(s) == Places(s)[Len(s)]

(* decode says Overflow exactly when the number does not fit into a word,  *)
(* of whatever text, and otherwise returns that number.                    *)
OverflowIsExact ==
  /\ codec = "overflow" => Value(SubSeq(text, 1, read)) > MaxWord
  /\ codec \in {"decode", "decoded"} => word = Value(SubSeq(text, 1, read))
=============================================================================
