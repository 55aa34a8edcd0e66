---------------------- MODULE NumericConversionsProofs ----------------------
(* Proofs about NumericConversions, for any texts, digits and widths.      *)
EXTENDS NumericConversions, SequenceTheorems, WellFoundedInduction, TLAPS

----------------------------------------------------------------------------
(* Arithmetic.                                                             *)

\* Induction over the naturals, for a set.
LEMMA EveryNat ==
  ASSUME NEW M, 0 \in M, \A n \in Nat : n \in M => n + 1 \in M
  PROVE  Nat \subseteq M
<1> DEFINE Rest == Nat \ M
<1>1. ASSUME Rest # {} PROVE FALSE
  <2>1. PICK x \in Rest : \A y \in Rest : ~(<<y, x>> \in OpToRel(<, Nat))
    BY <1>1, NatLessThanWellFounded, WFMin
  <2>2. x \in Nat /\ x # 0 /\ x \notin M
    OBVIOUS
  <2>3. x - 1 \in Nat /\ x - 1 < x /\ (x - 1) + 1 = x
    BY <2>2
  <2>4. <<x - 1, x>> \in OpToRel(<, Nat)
    BY <2>2, <2>3 DEF OpToRel
  <2>5. x - 1 \in M
    BY <2>1, <2>3, <2>4
  <2> QED
    BY <2>2, <2>3, <2>5
<1> QED
  BY <1>1

LEMMA Division ==
  ASSUME NEW n \in Int, NEW m \in Nat \ {0}
  PROVE  n \div m \in Int /\ n % m \in 0..(m - 1) /\ n = ((n \div m) * m) + (n % m)
OBVIOUS

LEMMA Multiple ==
  ASSUME NEW k \in Int, NEW m \in Nat \ {0}
  PROVE  (k * m) % m = 0
OBVIOUS

\* What a width does to a number: its remainder, counted from the least value.
LEMMA WidthTyped ==
  /\ Least \in Int /\ Largest \in Nat /\ Modulus \in Nat \ {0} /\ Least <= 0
  /\ Modulus = Largest - Least + 1
BY NumericAssumption DEF NumericAssumption, Least, Largest, Modulus

LEMMA MachineIs ==
  ASSUME NEW n \in Int
  PROVE  Machine(n) \in Least..Largest /\ \E k \in Int : n = Machine(n) + k * Modulus
<1> DEFINE m == Modulus
           a == n - Least
<1>1. Least \in Int /\ Largest \in Nat /\ m \in Nat \ {0} /\ m = Largest - Least + 1 /\ a \in Int
  BY WidthTyped
<1>2. Machine(n) = (a % m) + Least
  BY DEF Machine
<1> HIDE DEF m, a
<1>3. a \div m \in Int /\ a % m \in 0..(m - 1) /\ a = ((a \div m) * m) + (a % m)
  BY <1>1, Division
<1>4. Machine(n) \in Least..Largest
  BY <1>1, <1>2, <1>3
<1>5. a = n - Least
  BY DEF a
<1>6. n = Machine(n) + (a \div m) * m
  <2> DEFINE c == (a \div m) * m
             d == a % m
  <2>1. c \in Int /\ d \in Int /\ a = c + d /\ Machine(n) = d + Least
    BY <1>1, <1>2, <1>3
  <2> HIDE DEF c, d
  <2>2. n = Machine(n) + c
    BY <1>1, <1>5, <2>1
  <2> QED
    BY <2>2 DEF c
<1> QED
  BY <1>3, <1>4, <1>6 DEF m

\* Two values of the width that differ by a multiple of it are the same.
LEMMA SameValue ==
  ASSUME NEW a \in Least..Largest, NEW b \in Least..Largest, NEW k \in Int, a = b + k * Modulus
  PROVE  a = b
<1> DEFINE m == Modulus
<1>1. m \in Nat \ {0} /\ Least \in Int /\ Largest \in Nat /\ m = Largest - Least + 1 /\ a = b + k * m
  BY WidthTyped
<1> HIDE DEF m
<1>2. a - b \in (1 - m)..(m - 1) /\ a - b = k * m
  BY <1>1
<1>3. k = 0
  BY <1>1, <1>2
<1> QED
  BY <1>1, <1>3

----------------------------------------------------------------------------
(* The number that was meant.                                              *)

IsUpTo(f, b, t, n) ==
  f = [k \in 0..n |-> IF k = 0 THEN 0 ELSE f[k - 1] * b + Value[t[k]]]
UpTo(b, t) == CHOOSE f : IsUpTo(f, b, t, Len(t))
upTo == UpTo(Base, trimmed)

LEMMA UpToExists ==
  ASSUME NEW b, NEW t, NEW n \in Nat
  PROVE  \E f : IsUpTo(f, b, t, n)
<1> DEFINE M == {m \in Nat : \E f : IsUpTo(f, b, t, m)}
<1>1. 0 \in M
  <2> DEFINE g == [k \in 0..0 |-> 0]
  <2>1. g = [k \in 0..0 |-> IF k = 0 THEN 0 ELSE g[k - 1] * b + Value[t[k]]]
    OBVIOUS
  <2> HIDE DEF g
  <2>2. IsUpTo(g, b, t, 0)
    BY <2>1 DEF IsUpTo
  <2> QED
    BY <2>2
<1>2. ASSUME NEW m \in Nat, m \in M PROVE m + 1 \in M
  <2>1. PICK f : IsUpTo(f, b, t, m)
    BY <1>2
  <2> DEFINE g == [k \in 0..(m + 1) |-> IF k = 0 THEN 0 ELSE f[k - 1] * b + Value[t[k]]]
  <2>2. \A k \in 0..m : g[k] = f[k]
    <3>1. f = [k \in 0..m |-> IF k = 0 THEN 0 ELSE f[k - 1] * b + Value[t[k]]]
      BY <2>1 DEF IsUpTo
    <3> TAKE k \in 0..m
    <3>2. k \in 0..(m + 1)
      OBVIOUS
    <3>3. g[k] = IF k = 0 THEN 0 ELSE f[k - 1] * b + Value[t[k]]
      BY <3>2
    <3> HIDE DEF g
    <3> QED
      BY <3>1, <3>3
  <2>3. \A k \in 0..(m + 1) : g[k] = IF k = 0 THEN 0 ELSE g[k - 1] * b + Value[t[k]]
    <3> TAKE k \in 0..(m + 1)
    <3>1. g[k] = IF k = 0 THEN 0 ELSE f[k - 1] * b + Value[t[k]]
      OBVIOUS
    <3>2. k # 0 => k - 1 \in 0..m
      OBVIOUS
    <3> HIDE DEF g
    <3> QED
      BY <2>2, <3>1, <3>2
  <2>4. g = [k \in 0..(m + 1) |-> g[k]]
    OBVIOUS
  <2> HIDE DEF g
  <2>5. IsUpTo(g, b, t, m + 1)
    BY <2>3, <2>4 DEF IsUpTo
  <2> QED
    BY <2>5
<1> HIDE DEF M
<1>3. n \in M
  BY <1>1, <1>2, EveryNat
<1> QED
  BY <1>3 DEF M

\* The number the first k digits mean.
LEMMA UpToIs ==
  ASSUME NEW b \in Nat, NEW t \in Seq(DOMAIN Value)
  PROVE  /\ UpTo(b, t)[0] = 0
         /\ \A k \in 1..Len(t) : UpTo(b, t)[k] = UpTo(b, t)[k - 1] * b + Value[t[k]]
         /\ \A k \in 0..Len(t) : UpTo(b, t)[k] \in Nat
<1> DEFINE u == UpTo(b, t)
<1>1. Len(t) \in Nat /\ \A k \in 1..Len(t) : t[k] \in DOMAIN Value
  BY LenProperties, ElementOfSeq
<1>2. IsUpTo(u, b, t, Len(t))
  BY <1>1, UpToExists DEF UpTo
<1> HIDE DEF u
<1>3. \A k \in 0..Len(t) :
        u[k] = IF k = 0 THEN 0 ELSE u[k - 1] * b + Value[t[k]]
  BY <1>2 DEF IsUpTo
<1>4. u[0] = 0
  BY <1>1, <1>3
<1>5. \A k \in 1..Len(t) : u[k] = u[k - 1] * b + Value[t[k]]
  BY <1>1, <1>3
<1>6. \A k \in 0..Len(t) : u[k] \in Nat
  <2> DEFINE M == {n \in Nat : n \in 0..Len(t) => u[n] \in Nat}
  <2>1. 0 \in M
    BY <1>4
  <2>2. ASSUME NEW n \in Nat, n \in M, n + 1 \in 0..Len(t) PROVE u[n + 1] \in Nat
    <3>1. n \in 0..Len(t) /\ n + 1 \in 1..Len(t) /\ (n + 1) - 1 = n
      BY <1>1, <2>2
    <3>2. u[n] \in Nat
      BY <2>2, <3>1
    <3>3. Value[t[n + 1]] \in Nat
      BY <1>1, <3>1, NumericAssumption DEF NumericAssumption
    <3>4. u[n + 1] = u[n] * b + Value[t[n + 1]]
      BY <1>5, <3>1
    <3> QED
      BY <3>2, <3>3, <3>4
  <2>3. \A n \in Nat : n \in M => n + 1 \in M
    BY <2>2
  <2> HIDE DEF M
  <2>4. Nat \subseteq M
    BY <2>1, <2>3, EveryNat
  <2> QED
    BY <1>1, <2>4 DEF M
<1> QED
  BY <1>4, <1>5, <1>6 DEF u

\* The same of the text in hand, whose number is the last.
LEMMA UpToHere ==
  ASSUME trimmed \in Seq(DOMAIN Value)
  PROVE  /\ \A k \in 1..Len(trimmed) : upTo[k] = upTo[k - 1] * Base + Value[trimmed[k]]
         /\ \A k \in 0..Len(trimmed) : upTo[k] \in Nat
         /\ Meant = upTo[Len(trimmed)]
<1>1. Base \in Nat
  BY DEF Base
<1>2. Meant = upTo[Len(trimmed)]
  BY DEF Meant, upTo, UpTo, IsUpTo
<1> QED
  BY <1>1, <1>2, UpToIs DEF upTo

----------------------------------------------------------------------------
(* The invariant.                                                          *)

\* The digits so far mean the machine's value, but for a multiple of the modulus.
SoFar ==
  /\ \A k \in 1..i : trimmed[k] \in Digits
  /\ \E j \in Int : upTo[i] = result + j * Modulus

\* What both conversions return for "no number": the caller refuses it.
IsMinusOne == result = IF fn = "atoull" THEN LongMax ELSE -1

Conversion ==
  /\ pc = "call" => trimmed = <<>> /\ i = 0 /\ result = 0
  /\ pc = "loop" => given # <<>> /\ SoFar
  /\ pc = "returned" => IsMinusOne \/ (given # <<>> /\ i = Len(trimmed) /\ SoFar)
  /\ pc \in {"loop", "returned"} => fn # "decode"

NumericInv == TypeOK /\ trimmed \in Seq(DOMAIN Value) /\ Conversion /\ AcceptedIsMeant

LEMMA TextTyped ==
  ASSUME given \in Texts
  PROVE  given \in Seq(DOMAIN Value)
BY NumericAssumption DEF NumericAssumption

\* strTrim leaves a piece of the text.
LEMMA TrimTyped ==
  ASSUME NEW s \in Seq(DOMAIN Value)
  PROVE  Trim(s) \in Seq(DOMAIN Value)
<1> DEFINE ink == {k \in DOMAIN s : s[k] \notin Blanks}
<1>1. Len(s) \in Nat /\ DOMAIN s = 1..Len(s) /\ \A k \in 1..Len(s) : s[k] \in DOMAIN Value
  BY LenProperties, ElementOfSeq
<1>2. CASE ink = {}
  <2>1. Trim(s) = <<>>
    BY <1>2 DEF Trim
  <2> QED
    BY <2>1, EmptySeq
<1>3. CASE ink # {}
  <2>1. Min(ink) \in ink
    <3>1. PICK x \in ink : \A y \in ink : ~(<<y, x>> \in OpToRel(<, Nat))
      <4>1. ink \in SUBSET Nat
        BY <1>1
      <4> QED
        BY <1>3, <4>1, NatLessThanWellFounded, WFMin
    <3>2. \A y \in ink : x <= y
      <4> TAKE y \in ink
      <4>1. x \in Nat /\ y \in Nat
        BY <1>1
      <4>2. y < x => <<y, x>> \in OpToRel(<, Nat)
        BY <4>1 DEF OpToRel
      <4>3. ~(y < x)
        BY <3>1, <4>2
      <4> QED
        BY <4>1, <4>3
    <3> HIDE DEF ink
    <3> QED
      BY <3>2 DEF Min
  <2>2. Max(ink) \in ink
    <3> DEFINE tail == {Len(s) - k : k \in ink}
    <3>1. tail \in SUBSET Nat /\ tail # {}
      BY <1>1, <1>3
    <3>2. PICK x \in tail : \A y \in tail : ~(<<y, x>> \in OpToRel(<, Nat))
      <4> HIDE DEF tail
      <4> QED
        BY <3>1, NatLessThanWellFounded, WFMin
    <3>3. PICK m \in ink : x = Len(s) - m
      BY <3>2
    <3>4. \A k \in ink : m >= k
      <4> TAKE k \in ink
      <4>1. k \in Nat /\ m \in Nat /\ Len(s) - k \in Nat /\ x \in Nat /\ Len(s) - k \in tail
        BY <1>1, <3>3
      <4>2. Len(s) - k < x => <<Len(s) - k, x>> \in OpToRel(<, Nat)
        BY <4>1 DEF OpToRel
      <4>3. ~(Len(s) - k < x)
        BY <3>2, <4>1, <4>2
      <4> QED
        BY <1>1, <3>3, <4>1, <4>3
    <3> HIDE DEF ink
    <3> QED
      BY <3>4 DEF Max
  <2>3. /\ Min(ink) \in 1..Len(s) /\ Max(ink) \in 1..Len(s)
        /\ Trim(s) = SubSeq(s, Min(ink), Max(ink))
    BY <1>1, <1>3, <2>1, <2>2 DEF Trim
  <2> HIDE DEF ink
  <2>4. \A k \in Min(ink)..Max(ink) : s[k] \in DOMAIN Value
    BY <1>1, <2>3
  <2> QED
    BY <1>1, <2>3, <2>4, SubSeqProperties
<1> QED
  BY <1>2, <1>3

LEMMA MachineMinusOne ==
  ASSUME fn # "decode"
  PROVE  Machine(-1) = IF fn = "atoull" THEN LongMax ELSE -1
<1> DEFINE v == IF fn = "atoull" THEN LongMax ELSE -1
           w == IF fn = "atoull" THEN -1 ELSE 0
<1>1. v \in Least..Largest /\ w \in Int /\ -1 = v + w * Modulus
  BY NumericAssumption DEF NumericAssumption, Least, Largest, Modulus
<1> HIDE DEF v, w
<1>2. PICK k \in Int : -1 = Machine(-1) + k * Modulus
  BY MachineIs
<1>3. Machine(-1) \in Least..Largest
  BY MachineIs
<1>4. v = Machine(-1) + (k - w) * Modulus /\ k - w \in Int
  BY <1>1, <1>2, <1>3, WidthTyped
<1>5. v = Machine(-1)
  BY <1>1, <1>3, <1>4, SameValue
<1> QED
  BY <1>5 DEF v

LEMMA InitNumericInv == Init => NumericInv
<1> SUFFICES ASSUME Init PROVE NumericInv
  OBVIOUS
<1>1. trimmed \in Seq(DOMAIN Value) /\ Len(trimmed) = 0
  BY EmptySeq DEF Init
<1>2. 0 \in Least..Largest
  BY WidthTyped
<1>3. TypeOK
  BY <1>1, <1>2 DEF Init, TypeOK
<1>4. Conversion
  BY DEF Init, Conversion
<1>5. AcceptedIsMeant
  BY <1>3 DEF Init, AcceptedIsMeant
<1> QED
  BY <1>1, <1>3, <1>4, <1>5 DEF NumericInv

----------------------------------------------------------------------------
(* The steps.                                                              *)

LEMMA CallStep ==
  ASSUME NumericInv, Call
  PROVE  NumericInv'
<1>1. /\ pc = "call" /\ fn # "decode" /\ UNCHANGED <<fn, given, i, accepted>>
      /\ trimmed = <<>> /\ i = 0 /\ trimmed' = Trim(given)
      /\ fn \in Conversions /\ given \in Texts /\ accepted \in Nat
  BY DEF Call, NumericInv, TypeOK, Conversion
<1>2. trimmed' \in Seq(DOMAIN Value) /\ Len(trimmed') \in Nat
  BY <1>1, TextTyped, TrimTyped, LenProperties
<1>3. Least' = Least /\ Largest' = Largest /\ Modulus' = Modulus /\ Digits' = Digits
  BY <1>1 DEF Least, Largest, Modulus, Digits
<1>4. \/ given = <<>> /\ result' = Machine(-1) /\ pc' = "returned"
      \/ given # <<>> /\ result' = 0 /\ pc' = "loop"
  BY DEF Call
<1>5. result' \in Least'..Largest'
  <2>1. Machine(-1) \in Least..Largest
    BY MachineIs
  <2>2. 0 \in Least..Largest
    BY WidthTyped
  <2>3. result' \in Least..Largest
    BY <1>4, <2>1, <2>2
  <2> QED
    BY <1>3, <2>3
<1>6. TypeOK'
  BY <1>1, <1>2, <1>4, <1>5 DEF TypeOK
<1>7. Conversion'
  <2>1. CASE given = <<>>
    <3>1. IsMinusOne'
      BY <1>1, <1>4, <2>1, MachineMinusOne DEF IsMinusOne
    <3> QED
      BY <1>1, <1>4, <2>1, <3>1 DEF Conversion
  <2>2. CASE given # <<>>
    <3>1. upTo'[0] = 0
      <4>1. upTo' = UpTo(Base', trimmed') /\ Base' \in Nat
        BY DEF upTo, Base
      <4> QED
        BY <1>2, <4>1, UpToIs
    <3>2. SoFar'
      <4>1. i' = 0 /\ result' = 0
        BY <1>1, <1>4, <2>2
      <4>2. upTo'[i'] = result' + 0 * Modulus'
        BY <1>3, <3>1, <4>1, WidthTyped
      <4> QED
        BY <4>1, <4>2 DEF SoFar
    <3> QED
      BY <1>1, <1>4, <2>2, <3>2 DEF Conversion
  <2> QED
    BY <2>1, <2>2
<1> QED
  BY <1>2, <1>4, <1>6, <1>7 DEF NumericInv, AcceptedIsMeant

\* One more digit, by the machine and as it is meant.
LEMMA OneMoreDigit ==
  ASSUME NEW r \in Int, NEW j \in Int, NEW m \in Int, NEW b \in Int, NEW v \in Int,
         NEW s \in Int, NEW k \in Int, r * b + v = s + k * m
  PROVE  (r + j * m) * b + v = s + (k + j * b) * m
<1>1. (r + j * m) * b = r * b + (j * m) * b
  OBVIOUS
<1>2. (k + j * b) * m = k * m + (j * b) * m
  OBVIOUS
<1>3. (j * m) * b = (j * b) * m
  OBVIOUS
<1> DEFINE x == r * b
           y == (j * m) * b
           z == k * m
<1>4. x \in Int /\ y \in Int /\ z \in Int
  OBVIOUS
<1>5. (r + j * m) * b = x + y /\ (k + j * b) * m = z + y /\ x + v = s + z
  BY <1>1, <1>2, <1>3
<1> HIDE DEF x, y, z
<1>6. x + y + v = s + (z + y)
  BY <1>4, <1>5
<1> QED
  BY <1>5, <1>6

LEMMA ConvertStep ==
  ASSUME NumericInv, Convert
  PROVE  NumericInv'
<1> DEFINE c == trimmed[i + 1]
<1>1. /\ pc = "loop" /\ i < Len(trimmed) /\ UNCHANGED <<fn, given, trimmed, accepted>>
      /\ fn # "decode" /\ given # <<>> /\ SoFar
      /\ trimmed \in Seq(DOMAIN Value) /\ i \in 0..Len(trimmed) /\ Len(trimmed) \in Nat
      /\ result \in Int
  <2>1. result \in Least..Largest /\ Least \in Int /\ Largest \in Int
    BY WidthTyped DEF NumericInv, TypeOK
  <2>2. result \in Int
    BY <2>1
  <2> QED
    BY <2>2, LenProperties DEF Convert, NumericInv, TypeOK, Conversion
<1>2. /\ Least' = Least /\ Largest' = Largest /\ Modulus' = Modulus
      /\ Digits' = Digits /\ upTo' = upTo
  BY <1>1 DEF Least, Largest, Modulus, Digits, upTo, Base
<1>3. \/ /\ c \in Digits /\ result' = Machine(result * Base + Value[c])
         /\ i' = i + 1 /\ pc' = "loop"
      \/ c \notin Digits /\ result' = Machine(-1) /\ pc' = "returned" /\ i' = i
  BY <1>1 DEF Convert
<1>4. i + 1 \in 1..Len(trimmed) /\ (i + 1) - 1 = i
  BY <1>1
<1>5. c \in DOMAIN Value /\ Value[c] \in Nat /\ Base \in Nat
  BY <1>1, <1>4, ElementOfSeq, NumericAssumption DEF NumericAssumption, Base
<1>6. result * Base + Value[c] \in Int
  BY <1>1, <1>5
<1>7. result' \in Least..Largest
  BY <1>3, <1>6, MachineIs
<1>8. TypeOK'
  <2>1. i' \in 0..Len(trimmed)
    BY <1>1, <1>3, <1>4
  <2>2. fn \in Conversions /\ given \in Texts /\ accepted \in Nat
    BY DEF NumericInv, TypeOK
  <2> QED
    BY <1>1, <1>2, <1>3, <1>7, <2>1, <2>2 DEF TypeOK
<1>9. Conversion'
  <2>1. CASE c \in Digits
    <3>1. pc' = "loop" /\ i' = i + 1 /\ result' = Machine(result * Base + Value[c])
      BY <1>3, <2>1
    <3>2. \A k \in 1..i' : trimmed[k] \in Digits
      <4> TAKE k \in 1..i'
      <4>1. k \in 1..i \/ k = i + 1
        BY <1>1, <3>1
      <4> QED
        BY <1>1, <2>1, <4>1 DEF SoFar
    <3>3. \E j \in Int : upTo[i'] = result' + j * Modulus
      <4>1. PICK j \in Int : upTo[i] = result + j * Modulus
        BY <1>1 DEF SoFar
      <4>2. PICK k \in Int : result * Base + Value[c] = result' + k * Modulus
        BY <1>6, <3>1, MachineIs
      <4>3. upTo[i + 1] = upTo[i] * Base + Value[c]
        BY <1>1, <1>4, UpToHere
      <4>4. Modulus \in Int /\ result' \in Int
        <5>1. Least \in Int /\ Largest \in Int /\ Modulus \in Int
          BY WidthTyped
        <5> QED
          BY <1>7, <5>1
      <4>5. upTo[i + 1] = result' + (k + j * Base) * Modulus
        <5>1. (result + j * Modulus) * Base + Value[c] = result' + (k + j * Base) * Modulus
          <6>1. Base \in Int /\ Value[c] \in Int
            BY <1>5
          <6> QED
            BY <1>1, <4>2, <4>4, <6>1, OneMoreDigit, SMTT(60)
        <5> QED
          BY <4>1, <4>3, <5>1
      <4>6. k + j * Base \in Int
        BY <1>5
      <4> QED
        BY <3>1, <4>5, <4>6
    <3>4. SoFar'
      BY <1>1, <1>2, <3>2, <3>3 DEF SoFar
    <3> QED
      BY <1>1, <3>1, <3>4 DEF Conversion
  <2>2. CASE c \notin Digits
    <3>1. pc' = "returned" /\ result' = Machine(-1)
      BY <1>3, <2>2
    <3>2. IsMinusOne'
      BY <1>1, <3>1, MachineMinusOne DEF IsMinusOne
    <3> QED
      BY <1>1, <3>1, <3>2 DEF Conversion
  <2> QED
    BY <2>1, <2>2
<1> QED
  BY <1>1, <1>3, <1>8, <1>9 DEF NumericInv, AcceptedIsMeant

LEMMA ReturnStep ==
  ASSUME NumericInv, Return
  PROVE  NumericInv'
<1>1. /\ pc = "loop" /\ pc' = "returned" /\ i = Len(trimmed)
      /\ UNCHANGED <<fn, given, trimmed, i, result, accepted>>
      /\ fn # "decode" /\ given # <<>> /\ SoFar
  BY DEF Return, NumericInv, Conversion
<1>2. /\ Least' = Least /\ Largest' = Largest /\ Modulus' = Modulus
      /\ Digits' = Digits /\ upTo' = upTo
  BY <1>1 DEF Least, Largest, Modulus, Digits, upTo, Base
<1>3. TypeOK'
  BY <1>1, <1>2 DEF NumericInv, TypeOK
<1>4. SoFar'
  BY <1>1, <1>2 DEF SoFar
<1>5. Conversion'
  BY <1>1, <1>4 DEF Conversion
<1> QED
  BY <1>1, <1>3, <1>5 DEF NumericInv, AcceptedIsMeant

\* A caller never takes -1 for a number.
LEMMA MinusOneIsRefused ==
  ASSUME IsMinusOne
  PROVE  IF fn = "atoull" THEN result > MaxBodySize ELSE result < 0
BY NumericAssumption DEF NumericAssumption, IsMinusOne

LEMMA UseStep ==
  ASSUME NumericInv, Use
  PROVE  NumericInv'
<1>1. /\ pc = "returned" /\ UNCHANGED <<fn, given, trimmed, i, result>>
      /\ fn # "decode" /\ trimmed \in Seq(DOMAIN Value)
      /\ IsMinusOne \/ (given # <<>> /\ i = Len(trimmed) /\ SoFar)
      /\ accepted \in Nat /\ result \in Least..Largest
  BY DEF Use, NumericInv, Conversion, TypeOK
<1>2. /\ Least' = Least /\ Largest' = Largest /\ Modulus' = Modulus
      /\ Digits' = Digits /\ Meant' = Meant
  BY <1>1 DEF Least, Largest, Modulus, Digits, Meant, Base
<1> DEFINE refused == IF fn = "atoull" THEN result > MaxBodySize ELSE result < 0
<1>3. \/ refused /\ pc' = "refused" /\ accepted' = accepted
      \/ ~refused /\ pc' = "accepted" /\ accepted' = result
  BY DEF Use
<1>4. Least \in Int /\ Largest \in Nat /\ Modulus \in Nat \ {0} /\ result \in Int
  BY <1>1, WidthTyped
<1>5. ~refused => result \in 0..Largest
  <2>1. fn = "atoull" => Least = 0
    BY DEF Least
  <2> QED
    BY <1>1, <1>4, <2>1
<1>6. accepted' \in Nat
  BY <1>1, <1>3, <1>4, <1>5
<1>7. TypeOK'
  BY <1>1, <1>2, <1>3, <1>6 DEF NumericInv, TypeOK
<1>8. Conversion'
  BY <1>1, <1>3 DEF Conversion
<1>9. AcceptedIsMeant'
  <2>1. CASE refused
    BY <1>3, <1>7, <2>1 DEF AcceptedIsMeant
  <2>2. CASE ~refused
    <3>1. given # <<>> /\ i = Len(trimmed) /\ SoFar /\ accepted' = result
      BY <1>1, <1>3, <2>2, MinusOneIsRefused
    <3>2. \A k \in DOMAIN trimmed : trimmed[k] \in Digits
      BY <1>1, <3>1, LenProperties DEF SoFar
    <3>3. PICK j \in Int : Meant = result + j * Modulus
      BY <1>1, <3>1, UpToHere DEF SoFar
    <3>4. Meant \in Nat
      <4>1. Len(trimmed) \in 0..Len(trimmed)
        BY <1>1, LenProperties
      <4> QED
        BY <1>1, <4>1, UpToHere
    <3>5. Representable => accepted' = Meant
      <4> SUFFICES ASSUME Representable PROVE result = Meant
        BY <3>1
      <4>1. Meant \in Least..Largest
        BY <1>4, <3>4, WidthTyped DEF Representable
      <4> QED
        BY <1>1, <3>3, <4>1, SameValue
    <3>6. (accepted' - Meant) % Modulus = 0
      <4>1. accepted' - Meant = (-j) * Modulus /\ -j \in Int
        BY <1>4, <3>1, <3>3, <3>4
      <4> QED
        BY <1>4, <4>1, Multiple
    <3>7. Representable' = Representable
      BY <1>2 DEF Representable
    <3> QED
      BY <1>1, <1>2, <1>7, <3>1, <3>2, <3>5, <3>6, <3>7 DEF AcceptedIsMeant
  <2> QED
    BY <2>1, <2>2
<1> QED
  BY <1>1, <1>7, <1>8, <1>9 DEF NumericInv

LEMMA DecodeStep ==
  ASSUME NumericInv, Decode
  PROVE  NumericInv'
<1>1. /\ pc = "call" /\ fn = "decode" /\ UNCHANGED <<fn, given, trimmed, i, result>>
      /\ pc' \in {"refused", "accepted"} /\ given \in Seq(DOMAIN Value) /\ accepted \in Nat
  BY TextTyped DEF Decode, NumericInv, TypeOK
<1>2. accepted' \in Nat
  <2>1. CASE accepted' = accepted
    BY <1>1, <2>1
  <2>2. CASE accepted' # accepted
    <3>1. ~(Len(given) < 2) /\ accepted' = Char(Value[given[1]] * 16 + Value[given[2]])
      BY <2>2 DEF Decode
    <3>2. given[1] \in DOMAIN Value /\ given[2] \in DOMAIN Value
      <4>1. Len(given) \in Nat /\ 1 \in 1..Len(given) /\ 2 \in 1..Len(given)
        BY <1>1, <3>1, LenProperties
      <4> QED
        BY <1>1, <4>1, ElementOfSeq
    <3>3. Value[given[1]] * 16 + Value[given[2]] \in Int
      BY <3>2, NumericAssumption DEF NumericAssumption
    <3> QED
      BY <3>1, <3>3 DEF Char
  <2> QED
    BY <2>1, <2>2
<1>3. TypeOK'
  <2>1. Least' = Least /\ Largest' = Largest
    BY <1>1 DEF Least, Largest
  <2> QED
    BY <1>1, <1>2, <2>1 DEF NumericInv, TypeOK
<1>4. Conversion'
  BY <1>1 DEF Conversion
<1>5. AcceptedIsMeant'
  BY <1>1, <1>3 DEF AcceptedIsMeant
<1> QED
  BY <1>1, <1>3, <1>4, <1>5 DEF NumericInv

LEMMA NextNumericInv == NumericInv /\ [Next]_vars => NumericInv'
<1> SUFFICES ASSUME NumericInv, [Next]_vars PROVE NumericInv'
  OBVIOUS
<1>1. CASE Next
  BY <1>1, CallStep, ConvertStep, ReturnStep, UseStep, DecodeStep DEF Next
<1>2. CASE UNCHANGED vars
  <2>1. UNCHANGED <<fn, given, trimmed, i, result, pc, accepted>>
    BY <1>2 DEF vars
  <2>2. /\ Least' = Least /\ Largest' = Largest /\ Modulus' = Modulus
        /\ Digits' = Digits /\ upTo' = upTo /\ Meant' = Meant
    BY <2>1 DEF Least, Largest, Modulus, Digits, upTo, Base, Meant
  <2>3. TypeOK'
    BY <2>1, <2>2 DEF NumericInv, TypeOK
  <2>4. Conversion'
    BY <2>1, <2>2 DEF NumericInv, Conversion, IsMinusOne, SoFar
  <2>5. AcceptedIsMeant'
    BY <2>1, <2>2, <2>3 DEF NumericInv, AcceptedIsMeant, Representable
  <2> QED
    BY <2>1, <2>3, <2>4, <2>5 DEF NumericInv
<1> QED
  BY <1>1, <1>2

----------------------------------------------------------------------------
(* The theorem.                                                            *)

\* What atoull and _16_to_10 give and the parser goes on with is the number that was
\* written whenever the width holds it, and the number modulo the width otherwise; a
\* text that is no number is never taken for one.
THEOREM ConversionsAreExact == Spec => []AcceptedIsMeant
<1>1. NumericInv => AcceptedIsMeant
  BY DEF NumericInv
<1> QED
  BY InitNumericInv, NextNumericInv, <1>1, PTL DEF Spec
=============================================================================
