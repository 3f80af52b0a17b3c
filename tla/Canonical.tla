----------------------------- MODULE Canonical ------------------------------
(***************************************************************************)
(* The bytes that are hashed and signed: RFC 8785 as the Rust crate, the   *)
(* TypeScript verifier and the Python client each implement it.  Text is a *)
(* sequence of code points, an object the sequence of its members in the   *)
(* order in which they were parsed.  null, true and false are cut down to  *)
(* their initials.                                                         *)
(***************************************************************************)
EXTENDS Integers, Sequences, SequencesExt, FiniteSets

CONSTANTS
  MaxSafe,  \* a double holds every integer up to this bound; 2^53 in fact
  Inexact,  \* beyond it: integer |-> what JavaScript prints for the double it reads
  Depth     \* how deep arrays and objects nest

ASSUME CanonicalAssumption == Depth \in Nat /\ Depth >= 2 /\ MaxSafe \in Nat

Null      == [null |-> TRUE]
Bool(b)   == [bool |-> b]
Number(n) == [number |-> n]
Text(s)   == [text |-> s]
Array(vs) == [items |-> vs]
Object(ms) == [members |-> ms]

Is(kind, v) == kind \in DOMAIN v

\* What a text is made of: the surrogates are no characters.
Surrogate == {c \in Nat : 55296 <= c /\ c <= 57343}
Scalar == {c \in Nat : c <= 1114111 /\ c \notin Surrogate}
Bmp == {c \in Scalar : c < 65536}

\* The members of an object: a key occurs once.
Keyed(chars, inner) ==
  {ms \in Seq(Seq(chars) \X inner) :
     \A i, j \in DOMAIN ms : ms[i][1] = ms[j][1] => i = j}

\* The values that have these in them, by their numbers and the characters in
\* their keys.
Nested(numbers, chars, inner) ==
  {Null} \cup [bool : BOOLEAN] \cup [number : numbers] \cup [text : Seq(Scalar)]
    \cup [items : Seq(inner)] \cup [members : Keyed(chars, inner)]

\* The values that nest no deeper than n.
Values(numbers, chars) ==
  LET value[n \in Nat] == Nested(numbers, chars, IF n = 0 THEN {} ELSE value[n - 1])
  IN value

Value == Values(Int, Scalar)

-----------------------------------------------------------------------------
(* Text and numbers.                                                       *)

Quote == 34
Backslash == 92
Named == [ch \in {8, 9, 10, 12, 13, Quote, Backslash} |->
            CASE ch = 8 -> 98 [] ch = 9 -> 116 [] ch = 10 -> 110 [] ch = 12 -> 102
              [] ch = 13 -> 114 [] ch \in {Quote, Backslash} -> ch]

HexDigit(d) == IF d < 10 THEN 48 + d ELSE 87 + d

\* The digits of a number, to the base 10 or 16.
Digits(base) ==
  LET digits[n \in Nat] ==
        IF n < base THEN <<HexDigit(n)>> ELSE digits[n \div base] \o <<HexDigit(n % base)>>
  IN digits

Zeros(n) == [i \in 1 .. n |-> 48]

\* {:04x} in Rust and Python, toString(16).padStart(4, "0") in TypeScript.
Hex4(lang, n) ==
  IF lang = "ts"
  THEN Zeros(4 - Len(Digits(16)[n])) \o Digits(16)[n]
  ELSE [i \in 1 .. 4 |-> HexDigit((n \div 16 ^ (4 - i)) % 16)]

\* Faulty Escaped: the escape character itself is left alone.
EscapedButBackslash(lang, ch) ==
  IF ch \in DOMAIN Named \ {Backslash} THEN <<Backslash, Named[ch]>>
  ELSE IF ch < 32 THEN <<Backslash, 117>> \o Hex4(lang, ch)
  ELSE <<ch>>

\* One character.  The escapes with a name are the same seven everywhere.
Escaped(lang, ch) ==
  IF ch \in DOMAIN Named THEN <<Backslash, Named[ch]>>
  ELSE IF ch < 32 THEN <<Backslash, 117>> \o Hex4(lang, ch)
  ELSE <<ch>>

Quoted(lang, s) ==
  <<Quote>> \o FlattenSeq([i \in DOMAIN s |-> Escaped(lang, s[i])]) \o <<Quote>>

Decimal(n) == IF n < 0 THEN <<45>> \o Digits(10)[-n] ELSE Digits(10)[n]

\* The integers for which String(value) prints what JSON.parse has read.
Safe == -MaxSafe .. MaxSafe

NumberText(lang, n) == IF lang = "ts" /\ n \notin Safe THEN Inexact[n] ELSE Decimal(n)

-----------------------------------------------------------------------------
(* The order of keys.                                                      *)

Units(c) ==
  IF c < 65536 THEN <<c>>
  ELSE <<55296 + (c - 65536) \div 1024, 56320 + ((c - 65536) % 1024)>>

Utf16(s) == FlattenSeq([i \in DOMAIN s |-> Units(s[i])])

Before(s, t) ==
  \/ IsStrictPrefix(s, t)
  \/ \E i \in DOMAIN s \cap DOMAIN t :
       s[i] < t[i] /\ \A j \in 1 .. i - 1 : s[j] = t[j]

\* compare_utf16, and what sort() does in TypeScript; Python compares code points.
KeyBefore(lang, s, t) == IF lang = "py" THEN Before(s, t) ELSE Before(Utf16(s), Utf16(t))

\* The order in which the members are written.  The encoding before RFC 8785
\* keeps them as they come.
MembersInOrder(lang, members) ==
  IF lang = "legacy" THEN members
  ELSE CHOOSE ms \in [DOMAIN members -> Range(members)] :
         /\ Range(ms) = Range(members)
         /\ \A i, j \in DOMAIN ms : i < j => KeyBefore(lang, ms[i][1], ms[j][1])

-----------------------------------------------------------------------------
(* write_canonical, canonicalizeJcs, canonicalize_jcs.                     *)

Joined(parts) ==
  FlattenSeq([i \in DOMAIN parts |-> IF i = 1 THEN parts[i] ELSE <<44>> \o parts[i]])

\* One value, given the bytes of the values in it.
EncodeWith(lang, v, inner) ==
  CASE Is("null", v) -> <<110>>
    [] Is("bool", v) -> IF v.bool THEN <<116>> ELSE <<102>>
    [] Is("number", v) -> NumberText(lang, v.number)
    [] Is("text", v) -> Quoted(lang, v.text)
    [] Is("items", v) ->
         <<91>> \o Joined([i \in DOMAIN v.items |-> inner[v.items[i]]]) \o <<93>>
    [] Is("members", v) ->
         LET ms == MembersInOrder(lang, v.members) IN
           <<123>>
             \o Joined([i \in DOMAIN ms |-> Quoted(lang, ms[i][1]) \o <<58>> \o inner[ms[i][2]]])
             \o <<125>>

Encoding(lang) ==
  LET encoding[n \in Nat] ==
        [v \in Value[n] |-> EncodeWith(lang, v, IF n = 0 THEN << >> ELSE encoding[n - 1])]
  IN encoding

Encode(lang, v) == Encoding(lang)[Depth][v]

\* canonicalize_for_schema, canonicalizeBody, canonicalize_body.
RustBytes(schema, body) == Encode(IF schema <= 1 THEN "legacy" ELSE "rust", body)
TsBytes(schema, body) == Encode(IF schema <= 1 THEN "legacy" ELSE "ts", body)
PyBytes(schema, body) == Encode(IF schema <= 1 THEN "legacy" ELSE "py", body)

-----------------------------------------------------------------------------
(* Properties, over bounded values.                                        *)

\* The value itself, given what the values in it are: an object is the set of
\* its members.
MeaningWith(v, inner) ==
  CASE Is("items", v) -> [items |-> [i \in DOMAIN v.items |-> inner[v.items[i]]]]
    [] Is("members", v) ->
         [members |-> {<<v.members[i][1], inner[v.members[i][2]]>> : i \in DOMAIN v.members}]
    [] OTHER -> v

Meanings ==
  LET meaning[n \in Nat] ==
        [v \in Value[n] |-> MeaningWith(v, IF n = 0 THEN << >> ELSE meaning[n - 1])]
  IN meaning

Meaning(v) == Meanings[Depth][v]

Texts == BoundedSeq({1, 8, 31, Quote, 44, 58, Backslash, 98}, 2)
Keys == {<<97>>, <<97, 98>>, <<Quote>>, <<57344>>, <<65536>>}
Inner == {Null, Number(1), Text(<< >>), Text(<<Quote, 44, Quote>>)}
Entries == Keys \X Inner
Mixed(v, w) == Object(<< <<<<97>>, Array(<<v>>)>>, <<<<98>>, Object(<< <<<<97>>, w>> >>)>> >>)
Bodies ==
  {Null, Bool(TRUE), Bool(FALSE)} \cup {Text(s) : s \in Texts}
    \cup {Number(n) : n \in -10 .. MaxSafe + 1}
    \cup {Array(vs) : vs \in BoundedSeq(Inner \cup {Array(<< >>)}, 2)}
    \cup {Object(ms) : ms \in {<< >>} \cup {<<e>> : e \in Entries}}
    \cup {Object(ms) : ms \in {ms \in Entries \X Entries : ms[1][1] # ms[2][1]}}
    \cup {Mixed(v, w) : v, w \in Inner}

\* The three implementations yield the same bytes, in whatever order the members
\* of an object arrive, and two values have the same bytes only if they are the
\* same value: nothing that is shown as signed can stand for something else.
\* (Python sorts by code points, so for its part the keys are those of the BMP;
\* JavaScript reads numbers as doubles, so for its part they are the safe ones.)
BytesAgree(bodies) ==
  /\ \A v \in bodies :
       /\ v \in Values(Safe, Scalar)[Depth] => RustBytes(2, v) = TsBytes(2, v)
       /\ v \in Values(Int, Bmp)[Depth] => RustBytes(2, v) = PyBytes(2, v)
  /\ LET written == {<<RustBytes(2, v), Meaning(v)>> : v \in bodies} IN
       \A x, y \in written : x[1] = y[1] <=> x[2] = y[2]
=============================================================================
