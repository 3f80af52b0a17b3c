-------------------------------- MODULE Hex --------------------------------
(***************************************************************************)
(* Octets as hexadecimal text: digests, keys, signatures and tokens travel *)
(* that way.  The receipt crate has two decoders of its own, the verifiers *)
(* in Python and TypeScript one each.  A text is a sequence of characters. *)
(***************************************************************************)
EXTENDS Integers, Sequences, SequencesExt

CONSTANT Malformed   \* what does not decode

LowerDigits == <<"0", "1", "2", "3", "4", "5", "6", "7", "8", "9", "a", "b", "c", "d", "e", "f">>
UpperDigits == <<"0", "1", "2", "3", "4", "5", "6", "7", "8", "9", "A", "B", "C", "D", "E", "F">>

HexNib(n) == LowerDigits[n + 1]

\* Faulty Unnibs: capitals are not digits.
LowerUnnibs(c) == {n \in 0 .. 15 : c = LowerDigits[n + 1]}

\* hex_unnib: the value of a digit, or nothing.
Unnibs(c) == {n \in 0 .. 15 : c \in {LowerDigits[n + 1], UpperDigits[n + 1]}}

IsNib(c) == Unnibs(c) # {}
HexUnnib(c) == CHOOSE n \in Unnibs(c) : TRUE

ToHex(octets) ==
  [k \in 1 .. 2 * Len(octets) |->
     LET o == octets[(k + 1) \div 2] IN HexNib(IF k % 2 = 1 THEN o \div 16 ELSE o % 16)]

-----------------------------------------------------------------------------
(* In Rust.  n is the number of octets that the type asks for.             *)

HexDecodeError(s, n) ==
  IF Len(s) # 2 * n THEN "InvalidLength"
  ELSE IF \E i \in DOMAIN s : ~IsNib(s[i]) THEN "InvalidCharacter"
  ELSE "None"

\* Digest::from_hex
FromHex(s, n) ==
  IF HexDecodeError(s, n) # "None" THEN Malformed
  ELSE [i \in 1 .. n |-> 16 * HexUnnib(s[2 * i - 1]) + HexUnnib(s[2 * i])]

\* decode_hex of hex_array and decode of hex_array_64: what serde runs on the
\* digests, keys and signatures of a receipt.
DecodeHex(s, n) ==
  IF Len(s) # 2 * n THEN Malformed
  ELSE FoldLeft(LAMBDA out, i :
         IF out = Malformed \/ ~IsNib(s[2 * i - 1]) \/ ~IsNib(s[2 * i]) THEN Malformed
         ELSE Append(out, 16 * HexUnnib(s[2 * i - 1]) + HexUnnib(s[2 * i])),
       << >>, [i \in 1 .. n |-> i])

-----------------------------------------------------------------------------
(* In the verifiers, which look at the number of octets afterwards.        *)

\* bytes.fromhex skips white space before a pair.
PyHexToBytes(s) ==
  LET Scan(read, c) ==
        CASE read = Malformed -> Malformed
          [] read # Malformed /\ c = " " /\ read.high = << >> -> read
          [] read # Malformed /\ IsNib(c) /\ read.high = << >> -> [read EXCEPT !.high = <<c>>]
          [] read # Malformed /\ IsNib(c) /\ read.high # << >> ->
               [out |-> Append(read.out, 16 * HexUnnib(read.high[1]) + HexUnnib(c)), high |-> << >>]
          [] OTHER -> Malformed
      end == FoldLeft(Scan, [out |-> << >>, high |-> << >>], s)
  IN IF Len(s) % 2 # 0 \/ end = Malformed THEN Malformed
     ELSE IF end.high # << >> THEN Malformed
     ELSE end.out

\* parseInt(pair, 16), stored as an octet: white space and a sign may come first,
\* and what follows the last digit is ignored.
ParseInt(a, b) ==
  CASE IsNib(a) /\ IsNib(b) -> {16 * HexUnnib(a) + HexUnnib(b)}
    [] a = "0" /\ b = "x" -> {}
    [] IsNib(a) /\ ~IsNib(b) /\ ~(a = "0" /\ b = "x") -> {HexUnnib(a)}
    [] a \in {" ", "+"} /\ IsNib(b) -> {HexUnnib(b)}
    [] a = "-" /\ IsNib(b) -> {(256 - HexUnnib(b)) % 256}
    [] OTHER -> {}

TsHexToBytes(s) ==
  IF Len(s) % 2 # 0 \/ \E i \in 1 .. Len(s) \div 2 : ParseInt(s[2 * i - 1], s[2 * i]) = {}
  THEN Malformed
  ELSE [i \in 1 .. Len(s) \div 2 |-> CHOOSE o \in ParseInt(s[2 * i - 1], s[2 * i]) : TRUE]

-----------------------------------------------------------------------------

\* The character of one alphabet in the place of one of the other.
Transliterated(s, from, to) ==
  [i \in DOMAIN s |-> IF Contains(from, s[i])
                      THEN to[CHOOSE n \in 1 .. Len(from) : from[n] = s[i]] ELSE s[i]]

Lowered(s) == Transliterated(s, UpperDigits, LowerDigits)
Capital(s) == Transliterated(s, LowerDigits, UpperDigits)

\* For every text over these characters: the two decoders of the receipt crate
\* are one function; what they read, the verifiers read the same way, and it is
\* written again as the text was, in small letters, so that no two digests share a
\* text and no two texts but for capitals a digest; nothing but digits is read; and
\* what Python reads beyond them has white space in it.
HexAgrees(Octet, Char, max) ==
  /\ \A octets \in BoundedSeq(Octet, max) : FromHex(ToHex(octets), Len(octets)) = octets
  /\ \A s \in BoundedSeq(Char, 2 * max), n \in 0 .. max :
       LET octets == FromHex(s, n) IN
         /\ DecodeHex(s, n) = octets
         /\ octets # Malformed =>
              /\ PyHexToBytes(s) = octets
              /\ TsHexToBytes(s) = octets
              /\ ToHex(octets) = Lowered(s)
         /\ octets # Malformed <=>
              Len(s) = 2 * n /\ \A i \in DOMAIN s : Contains(LowerDigits, Lowered(s)[i])
         /\ octets = Malformed /\ Len(s) = 2 * n /\ PyHexToBytes(s) # Malformed =>
              \E i \in DOMAIN s : s[i] = " "
=============================================================================
