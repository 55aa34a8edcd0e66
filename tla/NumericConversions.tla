------------------------- MODULE NumericConversions -------------------------
(***************************************************************************)
(* The numbers of a request: atoull and _16_to_10 of src/src/Common.cpp,   *)
(* read by parseBody and parseChunkedBody, and the escapes of decode.      *)
(* Every round of their loops is a step.  The widths are parameters, given *)
(* by the largest values: what matters is how many digits fit, and that    *)
(* the arithmetic wraps (the build's does).                                *)
(***************************************************************************)
EXTENDS Integers, Sequences, FiniteSetsExt

CONSTANTS
  Texts,      \* the texts of a header, of a chunk's size line and of an escape
  Value,      \* character |-> hexToValue, for the characters that occur
  Decimals,   \* characters isdigit accepts
  HexDigits,  \* characters isHexDigit accepts
  Blanks,     \* characters strTrim takes away
  LongMax,    \* largest unsigned long long, ULLONG_MAX (2^64 - 1)
  IntMax,     \* largest int, INT_MAX (2^31 - 1)
  MaxBodySize

ASSUME NumericAssumption ==
  /\ Value \in [DOMAIN Value -> Nat]
  /\ Decimals \subseteq HexDigits /\ HexDigits \subseteq DOMAIN Value /\ Blanks \subseteq DOMAIN Value
  /\ \A c \in Decimals : Value[c] < 10
  /\ \A c \in HexDigits : Value[c] < 16
  /\ Texts \subseteq Seq(DOMAIN Value)
  /\ LongMax \in Nat /\ IntMax \in Nat
  /\ MaxBodySize \in Nat /\ MaxBodySize < LongMax

VARIABLES
  fn,       \* the conversion
  given,    \* its argument
  trimmed,  \* what strTrim left of it
  i,        \* characters done
  result,   \* the machine's value
  pc,       \* "call", "loop", "returned", then the caller's verdict
  accepted  \* the length, size or character the caller goes on with

vars == <<fn, given, trimmed, i, result, pc, accepted>>

Conversions == {"atoull", "_16_to_10", "decode"}
Base == IF fn = "atoull" THEN 10 ELSE 16
Digits == IF fn = "atoull" THEN Decimals ELSE HexDigits

\* Values are taken modulo the width: from 0, or from the least int.
Least == IF fn = "atoull" THEN 0 ELSE -(IntMax + 1)
Largest == IF fn = "atoull" THEN LongMax ELSE IntMax
Modulus == Largest - Least + 1
Machine(n) == ((n - Least) % Modulus) + Least

Trim(s) ==
  LET ink == {k \in DOMAIN s : s[k] \notin Blanks}
  IN  IF ink = {} THEN <<>> ELSE SubSeq(s, Min(ink), Max(ink))

\* An empty argument returns -1 before it is trimmed: a blank one gives 0.
Call ==
  /\ pc = "call" /\ fn # "decode"
  /\ IF given = <<>> THEN result' = Machine(-1) /\ pc' = "returned" ELSE result' = 0 /\ pc' = "loop"
  /\ trimmed' = Trim(given)
  /\ UNCHANGED <<fn, given, i, accepted>>

\* Variant: a character that is no digit ends the number.
ConvertPrefix ==
  /\ pc = "loop" /\ i < Len(trimmed)
  /\ LET c == trimmed[i + 1] IN
       IF c \in Digits
       THEN /\ result' = Machine(result * Base + Value[c])
            /\ i' = i + 1 /\ UNCHANGED pc
       ELSE pc' = "returned" /\ UNCHANGED <<result, i>>
  /\ UNCHANGED <<fn, given, trimmed, accepted>>
Convert ==
  /\ pc = "loop" /\ i < Len(trimmed)
  /\ LET c == trimmed[i + 1] IN
       IF c \in Digits
       THEN /\ result' = Machine(result * Base + Value[c])
            /\ i' = i + 1 /\ UNCHANGED pc
       ELSE result' = Machine(-1) /\ pc' = "returned" /\ UNCHANGED i
  /\ UNCHANGED <<fn, given, trimmed, accepted>>

Return ==
  /\ pc = "loop" /\ i = Len(trimmed)
  /\ pc' = "returned"
  /\ UNCHANGED <<fn, given, trimmed, i, result, accepted>>

\* parseBody refuses a length above the limit, parseChunkedBody a negative size.
Use ==
  /\ pc = "returned"
  /\ LET refused == IF fn = "atoull" THEN result > MaxBodySize ELSE result < 0
     IN  IF refused THEN pc' = "refused" /\ UNCHANGED accepted ELSE pc' = "accepted" /\ accepted' = result
  /\ UNCHANGED <<fn, given, trimmed, i, result>>

\* decode: the first digit of an escape is checked twice, the second never; a char
\* has eight bits.
Char(n) == n % 256
CheckedDigits == {1}
Decode ==
  /\ pc = "call" /\ fn = "decode"
  /\ IF Len(given) < 2 \/ (\E k \in CheckedDigits : given[k] \notin HexDigits)
     THEN pc' = "refused" /\ UNCHANGED accepted
     ELSE /\ pc' = "accepted"
          /\ accepted' = Char(Value[given[1]] * 16 + Value[given[2]])
  /\ UNCHANGED <<fn, given, trimmed, i, result>>

Init ==
  /\ fn \in Conversions
  /\ given \in Texts
  /\ trimmed = <<>> /\ i = 0 /\ result = 0 /\ accepted = 0
  /\ pc = "call"

Next == Call \/ Convert \/ Return \/ Use \/ Decode
Spec == Init /\ [][Next]_vars

(***************************************************************************)
(* Properties                                                              *)
(***************************************************************************)
\* The machine's value has its width; every other variable has its type.
TypeOK ==
  /\ fn \in Conversions /\ given \in Texts /\ pc \in {"call", "loop", "returned", "accepted", "refused"}
  /\ i \in 0..Len(trimmed)
  /\ result \in Least..Largest
  /\ accepted \in Nat

\* The number that was meant, however wide.
Meant ==
  LET upTo[n \in 0..Len(trimmed)] == IF n = 0 THEN 0 ELSE upTo[n - 1] * Base + Value[trimmed[n]]
  IN  upTo[Len(trimmed)]
Representable == Meant <= Largest

\* What parseBody and parseChunkedBody go on with is the number that was sent, or one
\* that does not fit: such a number is not refused but taken modulo the width.  A text
\* with a character that is no digit is refused wherever the character stands, after
\* digits that overflow too, and so is an empty one (a blank one is 0).
AcceptedIsMeant ==
  /\ TypeOK
  /\ pc = "accepted" /\ fn # "decode" =>
       /\ given # <<>> /\ \A k \in DOMAIN trimmed : trimmed[k] \in Digits
       /\ Representable => accepted = Meant
       /\ (accepted - Meant) % Modulus = 0
=============================================================================
