--------------------------- MODULE RoutingProofs ---------------------------
(***************************************************************************)
(* Proofs about Routing, for any URIs, escapes and maps of routes: first   *)
(* what the loops read and leave (RoutingInv), then that what they leave   *)
(* is the normal form of the URI (NormalInv).                              *)
(***************************************************************************)
EXTENDS NormalForm, SequenceTheorems, FiniteSetTheorems, WellFoundedInduction, TLAPS

----------------------------------------------------------------------------
(* Texts.                                                                  *)

\* What precedes and what follows a cut, in any kind of text.
LEMMA Cut ==
  ASSUME NEW S, NEW s \in Seq(S), NEW n \in Cuts(s)
  PROVE  /\ n \in 1..(Len(s) + 1)
         /\ Before(s, n) \in Seq(S) /\ Len(Before(s, n)) = n - 1
         /\ \A i \in 1..(n - 1) : Before(s, n)[i] = s[i] /\ s[i] # "/"
         /\ After(s, n) \in Seq(S)
<1>1. /\ n \in 1..(Len(s) + 1) /\ \A i \in 1..(n - 1) : s[i] # "/"
      /\ Len(s) \in Nat /\ \A i \in 1..Len(s) : s[i] \in S
  BY LenProperties, ElementOfSeq DEF Cuts
<1>2. n - 1 \in Int /\ \A i \in 1..(n - 1) : s[i] \in S
  BY <1>1
<1>3. /\ Before(s, n) \in Seq(S) /\ Len(Before(s, n)) = n - 1
      /\ \A i \in 1..(n - 1) : Before(s, n)[i] = s[i]
  <2>1. /\ SubSeq(s, 1, n - 1) \in Seq(S)
        /\ Len(SubSeq(s, 1, n - 1)) = IF 1 <= n - 1 THEN (n - 1) - 1 + 1 ELSE 0
        /\ \A i \in 1..((n - 1) - 1 + 1) : SubSeq(s, 1, n - 1)[i] = s[1 + i - 1]
    BY <1>2, SubSeqProperties
  <2>2. \A i \in 1..(n - 1) : SubSeq(s, 1, n - 1)[i] = s[i]
    <3> TAKE i \in 1..(n - 1)
    <3>1. i \in 1..((n - 1) - 1 + 1) /\ 1 + i - 1 = i
      BY <1>2
    <3> QED
      BY <2>1, <3>1
  <2>3. Len(SubSeq(s, 1, n - 1)) = n - 1
    BY <1>1, <2>1
  <2> QED
    BY <2>1, <2>2, <2>3 DEF Before
<1>4. After(s, n) \in Seq(S)
  <2>1. n + 1 \in Int /\ Len(s) \in Int /\ \A i \in (n + 1)..Len(s) : s[i] \in S
    BY <1>1
  <2> QED
    BY <2>1, SubSeqProperties DEF After
<1> QED
  BY <1>1, <1>3, <1>4

\* A text is what it begins with and the rest.
LEMMA PrefixAndRest ==
  ASSUME NEW S, NEW a \in Seq(S), NEW t \in Seq(S), IsPrefix(a, t)
  PROVE  /\ AfterKey(a, t) \in Seq(S)
         /\ a \o AfterKey(a, t) = t
<1>1. Len(a) <= Len(t) /\ SubSeq(a, 1, Len(a)) = SubSeq(t, 1, Len(a))
  BY DEF IsPrefix
<1>2. /\ Len(a) \in Nat /\ Len(t) \in Nat
      /\ \A i \in 1..Len(a) : a[i] \in S
      /\ \A i \in 1..Len(t) : t[i] \in S
  BY LenProperties, ElementOfSeq
<1>3. \A i \in 1..Len(a) : a[i] = t[i]
  <2> TAKE i \in 1..Len(a)
  <2>1. \A j \in 1..Len(a) : t[j] \in S
    BY <1>1, <1>2
  <2>2. 1 + i - 1 = i /\ i \in 1..(Len(a) - 1 + 1)
    BY <1>2
  <2>3. SubSeq(a, 1, Len(a))[i] = a[i]
    BY <1>2, <2>2, SubSeqProperties
  <2>4. SubSeq(t, 1, Len(a))[i] = t[i]
    BY <1>2, <2>1, <2>2, SubSeqProperties
  <2> QED
    BY <1>1, <2>3, <2>4
<1> DEFINE r == AfterKey(a, t)
<1>4. /\ r \in Seq(S) /\ Len(r) = Len(t) - Len(a)
      /\ \A i \in 1..(Len(t) - Len(a)) : r[i] = t[Len(a) + i]
  <2>1. Len(a) + 1 \in Int /\ Len(t) \in Int /\ \A i \in (Len(a) + 1)..Len(t) : t[i] \in S
    BY <1>2
  <2>2. /\ r \in Seq(S)
        /\ Len(r) = IF Len(a) + 1 <= Len(t) THEN Len(t) - (Len(a) + 1) + 1 ELSE 0
        /\ \A i \in 1..(Len(t) - (Len(a) + 1) + 1) : r[i] = t[Len(a) + 1 + i - 1]
    BY <2>1, SubSeqProperties DEF AfterKey
  <2>3. Len(r) = Len(t) - Len(a)
    BY <1>1, <1>2, <2>2
  <2>4. \A i \in 1..(Len(t) - Len(a)) : r[i] = t[Len(a) + i]
    <3> TAKE i \in 1..(Len(t) - Len(a))
    <3>1. i \in 1..(Len(t) - (Len(a) + 1) + 1) /\ Len(a) + 1 + i - 1 = Len(a) + i
      BY <1>2
    <3> QED
      BY <2>2, <3>1
  <2> QED
    BY <2>2, <2>3, <2>4
<1> HIDE DEF r
<1>5. /\ a \o r \in Seq(S) /\ Len(a \o r) = Len(t)
      /\ \A i \in 1..Len(t) : (a \o r)[i] = IF i <= Len(a) THEN a[i] ELSE r[i - Len(a)]
  <2>1. Len(a) + Len(r) = Len(t)
    BY <1>2, <1>4
  <2> QED
    BY <1>4, <2>1, ConcatProperties
<1>6. \A i \in 1..Len(t) : (a \o r)[i] = t[i]
  <2> TAKE i \in 1..Len(t)
  <2>1. CASE i <= Len(a)
    BY <1>2, <1>3, <1>5, <2>1
  <2>2. CASE ~(i <= Len(a))
    <3>1. i - Len(a) \in 1..(Len(t) - Len(a)) /\ Len(a) + (i - Len(a)) = i
      BY <1>2, <2>2
    <3> QED
      BY <1>4, <1>5, <2>2, <3>1
  <2> QED
    BY <2>1, <2>2
<1> QED
  BY <1>4, <1>5, <1>6, SeqEqual DEF r

\* The rest after what was put in front.
LEMMA RestOfConcat ==
  ASSUME NEW S, NEW a \in Seq(S), NEW t \in Seq(S)
  PROVE  IsPrefix(a, a \o t) /\ AfterKey(a, a \o t) = t
<1> DEFINE u == a \o t
<1>1. /\ u \in Seq(S) /\ Len(u) = Len(a) + Len(t) /\ Len(a) \in Nat /\ Len(t) \in Nat
      /\ \A i \in 1..(Len(a) + Len(t)) : u[i] = IF i <= Len(a) THEN a[i] ELSE t[i - Len(a)]
      /\ \A i \in 1..Len(a) : a[i] \in S
      /\ \A i \in 1..Len(u) : u[i] \in S
  BY ConcatProperties, LenProperties, ElementOfSeq
<1> HIDE DEF u
<1>2. Len(a) <= Len(u)
  BY <1>1
<1>3. SubSeq(a, 1, Len(a)) = SubSeq(u, 1, Len(a))
  <2>1. \A i \in 1..Len(a) : u[i] \in S /\ u[i] = a[i]
    BY <1>1
  <2>2. Len(a) - 1 + 1 = Len(a) /\ Len(a) \in Int /\ 1 \in Int
    BY <1>1
  <2>3. /\ SubSeq(a, 1, Len(a)) \in Seq(S)
        /\ Len(SubSeq(a, 1, Len(a))) = IF 1 <= Len(a) THEN Len(a) - 1 + 1 ELSE 0
        /\ \A i \in 1..(Len(a) - 1 + 1) : SubSeq(a, 1, Len(a))[i] = a[1 + i - 1]
    BY <1>1, <2>2, SubSeqProperties
  <2>4. /\ SubSeq(u, 1, Len(a)) \in Seq(S)
        /\ Len(SubSeq(u, 1, Len(a))) = IF 1 <= Len(a) THEN Len(a) - 1 + 1 ELSE 0
        /\ \A i \in 1..(Len(a) - 1 + 1) : SubSeq(u, 1, Len(a))[i] = u[1 + i - 1]
    BY <2>1, <2>2, SubSeqProperties
  <2>5. Len(SubSeq(a, 1, Len(a))) = Len(a) /\ Len(SubSeq(u, 1, Len(a))) = Len(a)
    BY <1>1, <2>3, <2>4
  <2>6. \A i \in 1..Len(a) : SubSeq(a, 1, Len(a))[i] = SubSeq(u, 1, Len(a))[i]
    <3> TAKE i \in 1..Len(a)
    <3>1. 1 + i - 1 = i
      OBVIOUS
    <3> QED
      BY <2>1, <2>2, <2>3, <2>4, <3>1
  <2> QED
    BY <2>3, <2>4, <2>5, <2>6, SeqEqual
<1>4. IsPrefix(a, u)
  BY <1>2, <1>3 DEF IsPrefix
<1>5. AfterKey(a, u) \in Seq(S) /\ a \o AfterKey(a, u) = a \o t
  BY <1>1, <1>4, PrefixAndRest DEF u
<1>6. AfterKey(a, u) = t
  BY <1>5, ConcatSimplifications
<1> QED
  BY <1>4, <1>6 DEF u

\* Texts put together are a text: the function FlattenSeq folds with exists for every
\* number of them, and ends in a text.
LEMMA LeastNat ==
  ASSUME NEW M \in SUBSET Nat, M # {}
  PROVE  \E x \in M : \A y \in M : x <= y
<1>1. PICK x \in M : \A y \in M : ~(<<y, x>> \in OpToRel(<, Nat))
  BY NatLessThanWellFounded, WFMin
<1>2. ASSUME NEW y \in M PROVE x <= y
  <2>1. x \in Nat /\ y \in Nat
    OBVIOUS
  <2>2. y < x => <<y, x>> \in OpToRel(<, Nat)
    BY <2>1 DEF OpToRel
  <2>3. ~(y < x)
    BY <1>1, <2>2
  <2> QED
    BY <2>1, <2>3
<1> QED
  BY <1>2

IsFlatten(f, s, n) ==
  f = [i \in 1..n |-> IF i = 1 THEN s[i] ELSE f[i - 1] \o s[i]]

LEMMA FlattenExists ==
  ASSUME NEW s, NEW n \in Nat
  PROVE  \E f : IsFlatten(f, s, n)
<1> DEFINE M == {m \in Nat : ~\E f : IsFlatten(f, s, m)}
<1>1. ASSUME M # {} PROVE FALSE
  <2>1. PICK m \in M : \A k \in M : m <= k
    BY <1>1, LeastNat
  <2>2. m \in Nat /\ ~\E f : IsFlatten(f, s, m)
    OBVIOUS
  <2>3. CASE m = 0
    <3> DEFINE g == [i \in 1..0 |-> <<>>]
    <3>1. g = [i \in 1..0 |-> IF i = 1 THEN s[i] ELSE g[i - 1] \o s[i]]
      OBVIOUS
    <3> HIDE DEF g
    <3>2. IsFlatten(g, s, 0)
      BY <3>1 DEF IsFlatten
    <3> QED
      BY <2>2, <2>3, <3>2
  <2>4. CASE m # 0
    <3>1. m - 1 \in Nat /\ ~(m <= m - 1)
      BY <2>2, <2>4
    <3>2. m - 1 \notin M
      BY <2>1, <3>1
    <3>3. PICK f : IsFlatten(f, s, m - 1)
      BY <3>1, <3>2
    <3> DEFINE g == [i \in 1..m |-> IF i = 1 THEN s[i] ELSE f[i - 1] \o s[i]]
    <3>4. \A i \in 1..(m - 1) : g[i] = f[i]
      <4>1. f = [i \in 1..(m - 1) |-> IF i = 1 THEN s[i] ELSE f[i - 1] \o s[i]]
        BY <3>3 DEF IsFlatten
      <4> TAKE i \in 1..(m - 1)
      <4>2. i \in 1..m
        BY <3>1
      <4>3. g[i] = IF i = 1 THEN s[i] ELSE f[i - 1] \o s[i]
        BY <4>2
      <4> QED
        BY <4>1, <4>3
    <3>5. \A i \in 1..m : g[i] = IF i = 1 THEN s[i] ELSE g[i - 1] \o s[i]
      <4> TAKE i \in 1..m
      <4>1. g[i] = IF i = 1 THEN s[i] ELSE f[i - 1] \o s[i]
        OBVIOUS
      <4>2. i # 1 => i - 1 \in 1..(m - 1)
        BY <3>1
      <4> HIDE DEF g
      <4> QED
        BY <3>4, <4>1, <4>2
    <3>6. g = [i \in 1..m |-> g[i]]
      OBVIOUS
    <3> HIDE DEF g
    <3>7. IsFlatten(g, s, m)
      BY <3>5, <3>6 DEF IsFlatten
    <3> QED
      BY <2>2, <3>7
  <2> QED
    BY <2>3, <2>4
<1>2. n \notin M
  BY <1>1
<1> QED
  BY <1>2

LEMMA FlattenTyped ==
  ASSUME NEW S, NEW s \in Seq(Seq(S))
  PROVE  FlattenSeq(s) \in Seq(S)
<1> DEFINE n == Len(s)
           flatten == CHOOSE f : IsFlatten(f, s, n)
<1>1. n \in Nat /\ \A i \in 1..n : s[i] \in Seq(S)
  BY LenProperties, ElementOfSeq
<1>2. CASE n = 0
  <2>1. s = <<>>
    BY <1>2, EmptySeq
  <2>2. FlattenSeq(s) = s
    BY <1>2 DEF FlattenSeq
  <2> QED
    BY <2>1, <2>2, EmptySeq
<1>3. CASE n # 0
  <2>1. FlattenSeq(s) = flatten[n]
    BY <1>3 DEF FlattenSeq, IsFlatten
  <2>2. IsFlatten(flatten, s, n)
    BY <1>1, FlattenExists
  <2> HIDE DEF flatten
  <2>3. \A i \in 1..n : flatten[i] = IF i = 1 THEN s[i] ELSE flatten[i - 1] \o s[i]
    BY <2>2 DEF IsFlatten
  <2> DEFINE M == {m \in Nat : m \in 1..n /\ flatten[m] \notin Seq(S)}
  <2>4. ASSUME M # {} PROVE FALSE
    <3>1. PICK m \in M : \A k \in M : m <= k
      BY <2>4, LeastNat
    <3>2. m \in 1..n /\ flatten[m] \notin Seq(S)
      OBVIOUS
    <3>3. m # 1
      BY <1>1, <2>3, <3>2
    <3>4. m - 1 \in 1..n /\ m - 1 \in Nat /\ ~(m <= m - 1)
      BY <1>1, <3>2, <3>3
    <3>5. flatten[m - 1] \in Seq(S)
      BY <3>1, <3>4
    <3>6. s[m] \in Seq(S) /\ flatten[m] = flatten[m - 1] \o s[m]
      BY <1>1, <2>3, <3>2, <3>3
    <3> QED
      BY <3>2, <3>5, <3>6, ConcatProperties
  <2>5. n \in 1..n
    BY <1>1, <1>3
  <2> QED
    BY <1>1, <2>1, <2>4, <2>5
<1> QED
  BY <1>2, <1>3

----------------------------------------------------------------------------
(* The invariant.                                                          *)

Symbols == DOMAIN Meaning \cup Bad

\* What each loop reads and what it has made so far.
Texts ==
  /\ pc = "decode" => rest \in Seq(Symbols)
  /\ pc = "normalize" => rest \in Text
  /\ segments \in Seq(Text) /\ uriPath \in Text
  /\ pc # "done" => status = 0
  /\ pc \notin {"RouteURI", "done"} => routeKey = <<>>

\* A segment is the text between two slashes.
NoSlashInside ==
  \A i \in DOMAIN segments : \A j \in DOMAIN segments[i] : segments[i][j] # "/"

\* The loop over the routes has kept the longest match among the keys it has seen.
LongestSoFar ==
  pc = "RouteURI" =>
    /\ routeKey # <<>> => IsPrefix(routeKey, uriPath)
    /\ \A key \in DOMAIN routes \ toCompare :
         IsPrefix(key, uriPath) => Len(key) <= Len(routeKey)

RoutingInv ==
  /\ TypeOK /\ uri \in URIs /\ Texts
  /\ NoDotSegments /\ NoSlashInside /\ LongestSoFar /\ ServedByLongestRoute

LEMMA RoutesTyped ==
  ASSUME TypeOK
  PROVE  /\ \A k \in DOMAIN routes : /\ Len(k) > 0 /\ k \in Text /\ routes[k] \in Text
                                    /\ k # <<>>
         /\ routeKey \in Text
<1>1. \A k \in DOMAIN routes : Len(k) > 0 /\ k \in Text /\ routes[k] \in Text
  BY RoutingAssumption DEF RoutingAssumption, TypeOK, Text
<1>2. \A k \in DOMAIN routes : k # <<>>
  BY <1>1, EmptySeq
<1>3. <<>> \in Text
  BY EmptySeq DEF Text
<1> QED
  BY <1>1, <1>2, <1>3 DEF TypeOK

LEMMA URITyped ==
  ASSUME uri \in URIs
  PROVE  uri.absolute \in BOOLEAN /\ uri.text \in Seq(Symbols)
BY RoutingAssumption DEF RoutingAssumption, Symbols

\* Before RouteURI the properties of the routes are not touched.
LEMMA BeforeRoutes ==
  ASSUME RoutingInv, pc \notin {"RouteURI", "done"}, UNCHANGED <<uri, routes, toCompare, routeKey>>,
         pc' # "RouteURI", pc' \in {"validateURI", "decode", "normalize", "done"},
         segments' \in Seq(Text), uriPath' \in Text, decoded' \in Text, slash' \in BOOLEAN,
         status' \in {0, 400, 403, 414}, pc' # "done" => status' = 0,
         pc' = "decode" => rest' \in Seq(Symbols), pc' = "normalize" => rest' \in Text,
         NoDotSegments', NoSlashInside'
  PROVE  RoutingInv'
<1>1. routeKey = <<>> /\ routeKey' = <<>>
  BY DEF RoutingInv, Texts
<1>2. TypeOK'
  <2>1. /\ routes' \in RouteMaps /\ toCompare' \subseteq DOMAIN routes'
        /\ routeKey' \in DOMAIN routes' \cup {<<>>}
    BY DEF RoutingInv, TypeOK
  <2>2. \A i \in DOMAIN segments' : segments'[i] \in Text
    <3>1. DOMAIN segments' = 1..Len(segments')
      BY LenProperties
    <3> QED
      BY <3>1, ElementOfSeq
  <2>3. Text' = Text
    BY DEF Text
  <2> QED
    BY <2>1, <2>2, <2>3 DEF TypeOK
<1>3. uri' \in URIs /\ Texts'
  <2>1. Text' = Text /\ Symbols' = Symbols
    BY DEF Text, Symbols
  <2> QED
    BY <1>1, <2>1 DEF RoutingInv, Texts
<1>4. LongestSoFar' /\ ServedByLongestRoute'
  BY <1>1 DEF LongestSoFar, ServedByLongestRoute, Served
<1> QED
  BY <1>2, <1>3, <1>4 DEF RoutingInv

LEMMA ValidateURIStep ==
  ASSUME RoutingInv, ValidateURI
  PROVE  RoutingInv'
<1>1. /\ pc = "validateURI" /\ UNCHANGED <<uri, decoded, segments, uriPath, routes, toCompare, routeKey>>
      /\ segments \in Seq(Text) /\ uriPath \in Text /\ decoded \in Text /\ slash \in BOOLEAN
      /\ status = 0 /\ uri.text \in Seq(Symbols) /\ NoDotSegments /\ NoSlashInside
  BY URITyped DEF ValidateURI, RoutingInv, TypeOK, Texts
<1>2. NoDotSegments' /\ NoSlashInside'
  BY <1>1 DEF NoDotSegments, NoSlashInside
<1>3. \/ Throw(400) /\ UNCHANGED <<rest, slash>>
      \/ Throw(414) /\ UNCHANGED <<rest, slash>>
      \/ /\ rest' = uri.text /\ slash' \in BOOLEAN
         /\ pc' = "decode" /\ UNCHANGED status
  BY DEF ValidateURI
<1>4. CASE (Throw(400) \/ Throw(414)) /\ UNCHANGED <<rest, slash>>
  <2>1. pc' = "done" /\ status' \in {400, 414} /\ slash' \in BOOLEAN
    BY <1>1, <1>4 DEF Throw
  <2> QED
    BY <1>1, <1>2, <2>1, BeforeRoutes
<1>5. CASE rest' = uri.text /\ slash' \in BOOLEAN /\ pc' = "decode" /\ UNCHANGED status
  BY <1>1, <1>2, <1>5, BeforeRoutes
<1> QED
  BY <1>3, <1>4, <1>5

\* decode makes a text of a segment without a bad symbol.
LEMMA DecodeTyped ==
  ASSUME NEW s \in Seq(Symbols), \A i \in 1..Len(s) : s[i] \notin Bad
  PROVE  decode(s) \in Text
<1>1. Len(s) \in Nat /\ DOMAIN s = 1..Len(s) /\ \A i \in 1..Len(s) : s[i] \in DOMAIN Meaning
  BY LenProperties, ElementOfSeq DEF Symbols
<1>2. \A i \in 1..Len(s) : Meaning[s[i]] \in Character
  BY <1>1, RoutingAssumption DEF RoutingAssumption
<1> DEFINE d == [i \in 1..Len(s) |-> Meaning[s[i]]]
<1>3. d \in Seq(Character)
  BY <1>1, <1>2
<1>4. decode(s) = d
  BY <1>1 DEF decode
<1> QED
  BY <1>3, <1>4 DEF Text

LEMMA DecodeSegmentStep ==
  ASSUME RoutingInv, DecodeSegment
  PROVE  RoutingInv'
<1>1. /\ pc = "decode" /\ UNCHANGED <<uri, segments, slash, uriPath, routes, toCompare, routeKey>>
      /\ segments \in Seq(Text) /\ uriPath \in Text /\ decoded \in Text /\ slash \in BOOLEAN
      /\ status = 0 /\ rest \in Seq(Symbols) /\ NoDotSegments /\ NoSlashInside
  BY DEF DecodeSegment, RoutingInv, TypeOK, Texts
<1>2. NoDotSegments' /\ NoSlashInside'
  BY <1>1 DEF NoDotSegments, NoSlashInside
<1>3. PICK n \in Cuts(rest) :
        /\ IF \E i \in 1..(n - 1) : rest[i] \in Bad
           THEN Throw(400) /\ UNCHANGED decoded
           ELSE decoded' = decoded \o <<"/">> \o decode(Before(rest, n)) /\ UNCHANGED <<pc, status>>
        /\ rest' = After(rest, n)
  BY DEF DecodeSegment
<1>4. /\ Before(rest, n) \in Seq(Symbols) /\ Len(Before(rest, n)) = n - 1
      /\ \A i \in 1..(n - 1) : Before(rest, n)[i] = rest[i]
      /\ rest' \in Seq(Symbols)
  BY <1>1, <1>3, Cut
<1>5. CASE \E i \in 1..(n - 1) : rest[i] \in Bad
  <2>1. pc' = "done" /\ status' = 400 /\ decoded' = decoded
    BY <1>3, <1>5 DEF Throw
  <2> QED
    BY <1>1, <1>2, <2>1, BeforeRoutes
<1>6. CASE ~\E i \in 1..(n - 1) : rest[i] \in Bad
  <2>1. decoded' = decoded \o <<"/">> \o decode(Before(rest, n)) /\ UNCHANGED <<pc, status>>
    BY <1>3, <1>6
  <2>2. decode(Before(rest, n)) \in Text
    BY <1>4, <1>6, DecodeTyped
  <2>3. <<"/">> \in Seq(Character)
    BY RoutingAssumption DEF RoutingAssumption
  <2>4. decoded' \in Text
    BY <1>1, <2>1, <2>2, <2>3, ConcatProperties DEF Text
  <2> QED
    BY <1>1, <1>2, <1>4, <2>1, <2>4, BeforeRoutes
<1> QED
  BY <1>5, <1>6

LEMMA StartNormalizeStep ==
  ASSUME RoutingInv, StartNormalize
  PROVE  RoutingInv'
<1>1. /\ pc = "decode" /\ pc' = "normalize" /\ rest' = decoded
      /\ UNCHANGED <<uri, decoded, segments, slash, uriPath, routes, toCompare, routeKey, status>>
      /\ segments \in Seq(Text) /\ uriPath \in Text /\ decoded \in Text /\ slash \in BOOLEAN
      /\ status = 0 /\ NoDotSegments /\ NoSlashInside
  BY DEF StartNormalize, RoutingInv, TypeOK, Texts
<1>2. NoDotSegments' /\ NoSlashInside'
  BY <1>1 DEF NoDotSegments, NoSlashInside
<1> QED
  BY <1>1, <1>2, BeforeRoutes

\* What normalize keeps of a segment: the stack, the stack without its last, or the
\* stack and a name.
LEMMA Pushed ==
  ASSUME NEW stack \in Seq(Text), NEW segment \in Text
  PROVE  /\ Normalized(stack, segment) \in Seq(Text)
         /\ \A i \in DOMAIN Normalized(stack, segment) :
              \/ i \in DOMAIN stack /\ Normalized(stack, segment)[i] = stack[i]
              \/ Normalized(stack, segment)[i] = segment /\ segment \notin {Dot, DotDot}
<1>1. /\ Len(stack) \in Nat /\ DOMAIN stack = 1..Len(stack)
      /\ \A i \in 1..Len(stack) : stack[i] \in Text
  BY LenProperties, ElementOfSeq
<1>2. Dot # DotDot
  BY DEF Dot, DotDot
<1>3. CASE segment = Dot \/ (segment = DotDot /\ stack = <<>>)
  <2>1. Normalized(stack, segment) = stack
    BY <1>2, <1>3 DEF Normalized
  <2> QED
    BY <2>1
<1>4. CASE segment = DotDot /\ stack # <<>>
  <2>1. Normalized(stack, segment) = SubSeq(stack, 1, Len(stack) - 1)
    BY <1>2, <1>4 DEF Normalized, Front
  <2> DEFINE f == SubSeq(stack, 1, Len(stack) - 1)
  <2>2. Len(stack) - 1 \in Int /\ \A i \in 1..(Len(stack) - 1) : stack[i] \in Text
    BY <1>1
  <2>3. /\ f \in Seq(Text)
        /\ Len(f) = IF 1 <= Len(stack) - 1 THEN Len(stack) - 1 - 1 + 1 ELSE 0
        /\ \A i \in 1..(Len(stack) - 1 - 1 + 1) : f[i] = stack[1 + i - 1]
    BY <2>2, SubSeqProperties
  <2> HIDE DEF f
  <2>4. DOMAIN f = 1..Len(f) /\ Len(f) \in Nat
    BY <2>3, LenProperties
  <2>5. ASSUME NEW i \in DOMAIN f PROVE i \in DOMAIN stack /\ f[i] = stack[i]
    <3>a. i \in 1..Len(f) /\ Len(f) # 0
      BY <2>4
    <3>b. 1 <= Len(stack) - 1
      BY <2>3, <3>a
    <3>0. i \in 1..Len(f) /\ Len(f) = Len(stack) - 1
      BY <1>1, <2>3, <3>a, <3>b
    <3>1. i \in 1..(Len(stack) - 1 - 1 + 1) /\ i \in 1..Len(stack) /\ 1 + i - 1 = i
      BY <1>1, <3>0
    <3> QED
      BY <1>1, <2>3, <3>1
  <2> QED
    BY <2>1, <2>3, <2>5 DEF f
<1>5. CASE segment \notin {Dot, DotDot}
  <2>1. Normalized(stack, segment) = Append(stack, segment)
    BY <1>5 DEF Normalized
  <2> DEFINE a == Append(stack, segment)
  <2>2. /\ a \in Seq(Text) /\ Len(a) = Len(stack) + 1
        /\ \A i \in 1..Len(stack) : a[i] = stack[i]
        /\ a[Len(stack) + 1] = segment
    BY AppendProperties
  <2> HIDE DEF a
  <2>3. DOMAIN a = 1..(Len(stack) + 1)
    BY <2>2, LenProperties
  <2>4. ASSUME NEW i \in DOMAIN a PROVE (i \in DOMAIN stack /\ a[i] = stack[i]) \/ a[i] = segment
    <3>1. i \in 1..Len(stack) \/ i = Len(stack) + 1
      BY <1>1, <2>3
    <3> QED
      BY <1>1, <2>2, <3>1
  <2> QED
    BY <1>5, <2>1, <2>2, <2>4 DEF a
<1> QED
  BY <1>3, <1>4, <1>5

LEMMA NormalizeSegmentStep ==
  ASSUME RoutingInv, NormalizeSegment
  PROVE  RoutingInv'
<1>1. /\ pc = "normalize" /\ pc' = pc
      /\ UNCHANGED <<uri, decoded, slash, uriPath, routes, toCompare, routeKey, status>>
      /\ segments \in Seq(Text) /\ uriPath \in Text /\ decoded \in Text /\ slash \in BOOLEAN
      /\ status = 0 /\ rest \in Seq(Character) /\ NoDotSegments /\ NoSlashInside
  BY DEF NormalizeSegment, RoutingInv, TypeOK, Texts, Text
<1>2. PICK n \in Cuts(rest) :
        segments' = Normalized(segments, Before(rest, n)) /\ rest' = After(rest, n)
  BY DEF NormalizeSegment
<1> DEFINE b == Before(rest, n)
<1>3. b \in Text /\ rest' \in Text /\ DOMAIN b = 1..Len(b) /\ \A j \in DOMAIN b : b[j] # "/"
  <2>1. /\ b \in Seq(Character) /\ Len(b) = n - 1 /\ rest' \in Seq(Character)
        /\ \A i \in 1..(n - 1) : b[i] = rest[i] /\ rest[i] # "/"
    BY <1>1, <1>2, Cut
  <2>2. DOMAIN b = 1..Len(b)
    BY <2>1, LenProperties
  <2> QED
    BY <2>1, <2>2 DEF Text
<1>4. /\ segments' \in Seq(Text)
      /\ \A i \in DOMAIN segments' :
           \/ i \in DOMAIN segments /\ segments'[i] = segments[i]
           \/ segments'[i] = b /\ b \notin {Dot, DotDot}
  <2> HIDE DEF b
  <2>1. segments' = Normalized(segments, b)
    BY <1>2 DEF b
  <2>2. segments \in Seq(Text) /\ b \in Text
    BY <1>1, <1>3
  <2>3. /\ Normalized(segments, b) \in Seq(Text)
        /\ \A i \in DOMAIN Normalized(segments, b) :
             \/ i \in DOMAIN segments /\ Normalized(segments, b)[i] = segments[i]
             \/ Normalized(segments, b)[i] = b /\ b \notin {Dot, DotDot}
    BY <2>2, Pushed
  <2> QED
    BY <2>1, <2>3
<1> HIDE DEF b
<1>5. NoDotSegments' /\ NoSlashInside'
  BY <1>1, <1>3, <1>4 DEF NoDotSegments, NoSlashInside
<1> QED
  BY <1>1, <1>3, <1>4, <1>5, BeforeRoutes

\* The normal form and its trailing slash are a text.
LEMMA NormalTyped ==
  ASSUME NEW stack \in Seq(Text)
  PROVE  Normal(stack) \in Text
<1>1. /\ Len(stack) \in Nat /\ DOMAIN stack = 1..Len(stack)
      /\ \A i \in 1..Len(stack) : stack[i] \in Text
  BY LenProperties, ElementOfSeq
<1>2. <<"/">> \in Text /\ <<>> \in Text
  BY RoutingAssumption, EmptySeq DEF RoutingAssumption, Text
<1> DEFINE e(i) == IF stack[i] = <<>> THEN <<>> ELSE <<"/">> \o stack[i]
           p == [i \in 1..Len(stack) |-> e(i)]
<1>3. \A i \in 1..Len(stack) : e(i) \in Text
  BY <1>1, <1>2, ConcatProperties DEF Text
<1> HIDE DEF e
<1>4. p \in Seq(Text)
  BY <1>1, <1>3
<1>5. Joined(stack) = FlattenSeq(p)
  BY <1>1 DEF Joined, e
<1>6. Joined(stack) \in Text
  BY <1>4, <1>5, FlattenTyped DEF Text
<1> QED
  BY <1>2, <1>6 DEF Normal

LEMMA JoinSegmentsStep ==
  ASSUME RoutingInv, JoinSegments
  PROVE  RoutingInv'
<1>1. /\ pc = "normalize" /\ pc' = "RouteURI" /\ toCompare' = DOMAIN routes
      /\ UNCHANGED <<uri, rest, decoded, segments, slash, routes, routeKey, status>>
      /\ segments \in Seq(Text) /\ status = 0 /\ routeKey = <<>>
  BY DEF JoinSegments, RoutingInv, Texts
<1>2. uriPath' \in Text
  <2>1. <<"/">> \in Text /\ <<>> \in Text
    BY RoutingAssumption, EmptySeq DEF RoutingAssumption, Text
  <2>2. uriPath' = Normal(segments) \o (IF slash THEN <<"/">> ELSE <<>>)
    BY DEF JoinSegments
  <2>3. Normal(segments) \in Text
    BY <1>1, NormalTyped
  <2> QED
    BY <2>1, <2>2, <2>3, ConcatProperties DEF Text
<1>3. TypeOK' /\ uri' \in URIs
  BY <1>1 DEF RoutingInv, TypeOK, Text
<1>4. Texts'
  BY <1>1, <1>2 DEF Texts, Text
<1>5. NoDotSegments' /\ NoSlashInside'
  BY <1>1 DEF RoutingInv, NoDotSegments, NoSlashInside
<1>6. LongestSoFar' /\ ServedByLongestRoute'
  BY <1>1 DEF LongestSoFar, ServedByLongestRoute, Served
<1> QED
  BY <1>3, <1>4, <1>5, <1>6 DEF RoutingInv

LEMMA CompareRouteStep ==
  ASSUME RoutingInv, CompareRoute
  PROVE  RoutingInv'
<1>1. /\ pc = "RouteURI"
      /\ UNCHANGED <<pc, uri, rest, decoded, segments, slash, uriPath, routes, status>>
      /\ TypeOK /\ LongestSoFar /\ toCompare \subseteq DOMAIN routes
      /\ routeKey \in DOMAIN routes \cup {<<>>}
  BY DEF CompareRoute, RoutingInv, TypeOK
<1>2. PICK key \in toCompare :
        /\ routeKey' = IF IsPrefix(key, uriPath) /\ Longer(key, routeKey) THEN key ELSE routeKey
        /\ toCompare' = toCompare \ {key}
  BY DEF CompareRoute
<1>3. key \in DOMAIN routes
  BY <1>1, <1>2
<1>4. /\ \A k \in DOMAIN routes : Len(k) \in Nat
      /\ Len(routeKey) \in Nat
  BY <1>1, RoutesTyped, LenProperties DEF Text
<1>5. TypeOK' /\ uri' \in URIs
  BY <1>1, <1>2, <1>3 DEF RoutingInv, TypeOK, Text
<1>6. Texts'
  BY <1>1 DEF RoutingInv, Texts, Text
<1>7. NoDotSegments' /\ NoSlashInside'
  BY <1>1 DEF RoutingInv, NoDotSegments, NoSlashInside
<1>8. LongestSoFar'
  <2>1. routeKey # <<>> => IsPrefix(routeKey, uriPath)
    BY <1>1 DEF LongestSoFar
  <2>2. \A k \in DOMAIN routes \ toCompare : IsPrefix(k, uriPath) => Len(k) <= Len(routeKey)
    BY <1>1 DEF LongestSoFar
  <2>3. Len(routeKey) <= Len(routeKey') /\ (IsPrefix(key, uriPath) => Len(key) <= Len(routeKey'))
    BY <1>2, <1>3, <1>4 DEF Longer
  <2>4. routeKey' # <<>> => IsPrefix(routeKey', uriPath)
    BY <1>2, <2>1
  <2>5. Len(routeKey') \in Nat
    BY <1>2, <1>3, <1>4
  <2>6. \A k \in DOMAIN routes \ toCompare' : IsPrefix(k, uriPath) => Len(k) <= Len(routeKey')
    <3> SUFFICES ASSUME NEW k \in DOMAIN routes, k \notin toCompare', IsPrefix(k, uriPath)
                 PROVE  Len(k) <= Len(routeKey')
      OBVIOUS
    <3>1. CASE k = key
      BY <2>3, <3>1
    <3>2. CASE k \notin toCompare
      BY <1>4, <2>2, <2>3, <2>5, <3>2
    <3> QED
      BY <1>2, <3>1, <3>2
  <2> QED
    BY <1>1, <2>4, <2>6 DEF LongestSoFar
<1>9. ServedByLongestRoute'
  BY <1>1 DEF ServedByLongestRoute, Served
<1> QED
  BY <1>5, <1>6, <1>7, <1>8, <1>9 DEF RoutingInv

\* The rewritten path begins with the root, and what follows it gives back the path
\* the routes were compared with.
LEMMA RewritePathStep ==
  ASSUME RoutingInv, RewritePath
  PROVE  RoutingInv'
<1>1. /\ pc = "RouteURI" /\ toCompare = {} /\ pc' = "done"
      /\ UNCHANGED <<uri, rest, decoded, segments, slash, routes, toCompare, routeKey>>
      /\ TypeOK /\ LongestSoFar /\ uriPath \in Text /\ status = 0
      /\ routeKey \in DOMAIN routes \cup {<<>>}
  BY DEF RewritePath, RoutingInv, TypeOK, Texts
<1>2. /\ routeKey # <<>> => IsPrefix(routeKey, uriPath)
      /\ \A key \in DOMAIN routes : IsPrefix(key, uriPath) => Len(key) <= Len(routeKey)
  BY <1>1 DEF LongestSoFar
<1>3. NoDotSegments' /\ NoSlashInside' /\ LongestSoFar'
  BY <1>1 DEF RoutingInv, NoDotSegments, NoSlashInside, LongestSoFar
<1>4. ASSUME uriPath' \in Text, status' \in {0, 403}
      PROVE  TypeOK' /\ uri' \in URIs /\ Texts'
  <2>1. TypeOK' /\ uri' \in URIs
    BY <1>1, <1>4 DEF RoutingInv, TypeOK, Text
  <2>2. Texts'
    BY <1>1, <1>4 DEF RoutingInv, Texts, Text
  <2> QED
    BY <2>1, <2>2
<1>5. CASE routeKey = <<>> \/ (routeKey # <<>> /\ HasDotDot(routes[routeKey]))
  <2>1. \/ routeKey = <<>> /\ UNCHANGED <<uriPath, status>>
        \/ status' = 403 /\ UNCHANGED uriPath
    BY <1>5 DEF RewritePath
  <2>2. ServedByLongestRoute'
    BY <1>1, <2>1 DEF ServedByLongestRoute, Served
  <2>3. uriPath' \in Text /\ status' \in {0, 403}
    BY <1>1, <2>1
  <2> QED
    BY <1>3, <1>4, <2>2, <2>3 DEF RoutingInv
<1>6. CASE routeKey # <<>> /\ ~HasDotDot(routes[routeKey])
  <2>1. uriPath' = Rewritten(routeKey, uriPath) /\ UNCHANGED status
    BY <1>6 DEF RewritePath
  <2>2. routeKey \in DOMAIN routes /\ routeKey \in Text /\ routes[routeKey] \in Text
    BY <1>1, <1>6, RoutesTyped
  <2> DEFINE root == routes[routeKey]
             after == AfterKey(routeKey, uriPath)
             front == IF routeKey = <<"/">> THEN <<"/">> ELSE <<>>
             tail == front \o after
  <2>3. after \in Text /\ routeKey \o after = uriPath
    BY <1>1, <1>2, <1>6, <2>2, PrefixAndRest DEF Text
  <2>4. <<"/">> \in Text /\ <<>> \in Text
    BY RoutingAssumption, EmptySeq DEF RoutingAssumption, Text
  <2>5. front \in Text /\ (routeKey = <<"/">> => front = routeKey)
        /\ (routeKey # <<"/">> => front = <<>>)
    BY <2>4
  <2>6. uriPath' = root \o front \o after
    BY <2>1 DEF Rewritten
  <2>a. root \in Text
    BY <2>2
  <2> HIDE DEF root, after, front
  <2>7. tail \in Text
    BY <2>3, <2>5, ConcatProperties DEF Text
  <2>8. uriPath' = root \o tail
    <3>1. root \in Seq(Character) /\ front \in Seq(Character) /\ after \in Seq(Character)
      BY <2>a, <2>3, <2>5 DEF Text
    <3> QED
      BY <2>6, <3>1, ConcatAssociative
  <2>9. IF routeKey = <<"/">> THEN tail = uriPath ELSE tail = after
    BY <2>3, <2>5, ConcatEmptySeq DEF Text
  <2> HIDE DEF tail
  <2>10. IsPrefix(root, uriPath') /\ AfterKey(root, uriPath') = tail /\ uriPath' \in Text
    BY <2>2, <2>7, <2>8, RestOfConcat, ConcatProperties DEF Text, root
  <2>11. AfterRoot' = tail
    BY <1>1, <2>10 DEF AfterRoot, AfterKey, root
  <2>12. BeforeRewriting' = uriPath
    BY <1>1, <2>3, <2>9, <2>11 DEF BeforeRewriting
  <2>13. ServedByLongestRoute'
    BY <1>1, <1>2, <2>10, <2>12 DEF ServedByLongestRoute, root
  <2>14. status' \in {0, 403}
    BY <1>1, <2>1
  <2> QED
    BY <1>3, <1>4, <2>10, <2>13, <2>14 DEF RoutingInv
<1> QED
  BY <1>5, <1>6

LEMMA InitRoutingInv == Init => RoutingInv
<1> SUFFICES ASSUME Init PROVE RoutingInv
  OBVIOUS
<1>1. /\ pc = "validateURI" /\ uri \in URIs /\ decoded = <<>> /\ segments = <<>>
      /\ uriPath = <<>> /\ slash = FALSE /\ routes \in RouteMaps /\ toCompare = {}
      /\ routeKey = <<>> /\ status = 0
  BY DEF Init
<1>2. <<>> \in Text /\ <<>> \in Seq(Text) /\ DOMAIN segments = {}
  BY <1>1, EmptySeq DEF Text
<1>3. TypeOK
  BY <1>1, <1>2 DEF TypeOK
<1>4. Texts
  BY <1>1, <1>2 DEF Texts
<1>5. NoDotSegments /\ NoSlashInside
  BY <1>2 DEF NoDotSegments, NoSlashInside
<1>6. LongestSoFar /\ ServedByLongestRoute
  BY <1>1 DEF LongestSoFar, ServedByLongestRoute, Served
<1> QED
  BY <1>1, <1>3, <1>4, <1>5, <1>6 DEF RoutingInv

LEMMA NextRoutingInv == RoutingInv /\ [Next]_vars => RoutingInv'
<1> SUFFICES ASSUME RoutingInv, [Next]_vars PROVE RoutingInv'
  OBVIOUS
<1>1. CASE UNCHANGED vars
  <2>1. UNCHANGED <<pc, uri, rest, decoded, segments, slash, uriPath, routes, toCompare, routeKey,
                    status>>
    BY <1>1 DEF vars
  <2>2. TypeOK' /\ uri' \in URIs
    BY <2>1 DEF RoutingInv, TypeOK, Text
  <2>3. Texts'
    BY <2>1 DEF RoutingInv, Texts, Text, Symbols
  <2>4. NoDotSegments' /\ NoSlashInside' /\ LongestSoFar'
    BY <2>1 DEF RoutingInv, NoDotSegments, NoSlashInside, LongestSoFar
  <2>5. ServedByLongestRoute'
    BY <2>1 DEF RoutingInv, ServedByLongestRoute, Served, BeforeRewriting, AfterRoot
  <2> QED
    BY <2>2, <2>3, <2>4, <2>5 DEF RoutingInv
<1> QED
  BY <1>1, ValidateURIStep, DecodeSegmentStep, StartNormalizeStep, NormalizeSegmentStep,
     JoinSegmentsStep, CompareRouteStep, RewritePathStep DEF Next

----------------------------------------------------------------------------
(* The stack of normalize and the names that survive: places in the text.  *)

Count(S, i, n) == Cardinality(Between(S, i, n))

\* The names that survive what there is before place n.
Kept(names, ups, n) == {i \in names : i < n /\ Covered(names, ups, i, n)}

\* The places of these, in order; above each there are as many as the names since then
\* are more than the "..".
IsStack(places, names, ups, n) ==
  /\ places \in Seq(Nat)
  /\ \A j, k \in 1..Len(places) : j < k => places[j] < places[k]
  /\ \A i \in Nat : i \in Kept(names, ups, n) <=> \E j \in 1..Len(places) : places[j] = i
  /\ \A j \in 1..Len(places) :
       Count(names, places[j], n) = Count(ups, places[j], n) + (Len(places) - j)

\* From a place to the next one that matters the count changes by that place.
LEMMA CountTyped ==
  ASSUME NEW S \in SUBSET Nat, NEW i \in Nat, NEW n \in Nat
  PROVE  IsFiniteSet(Between(S, i, n)) /\ Count(S, i, n) \in Nat
<1>1. IsFiniteSet(0..n)
  BY FS_Interval
<1>2. Between(S, i, n) \subseteq 0..n
  <2> SUFFICES ASSUME NEW k \in Between(S, i, n) PROVE k \in 0..n
    OBVIOUS
  <2>1. k \in Nat /\ k < n
    BY DEF Between
  <2> QED
    BY <2>1
<1>3. IsFiniteSet(Between(S, i, n))
  BY <1>1, <1>2, FS_Subset
<1> QED
  BY <1>3, FS_CardinalityType DEF Count

LEMMA CountNext ==
  ASSUME NEW S \in SUBSET Nat, NEW i \in Nat, NEW n \in Nat, NEW m \in Nat,
         i < n, n < m, \A k \in S : ~(n < k /\ k < m)
  PROVE  /\ n \in S => Count(S, i, m) = Count(S, i, n) + 1
         /\ n \notin S => Count(S, i, m) = Count(S, i, n)
         /\ \A j \in (n + 1)..m : Count(S, i, j) = Count(S, i, m)
<1>0. ASSUME NEW k \in S PROVE (i < k /\ k < m) <=> (i < k /\ k < n) \/ k = n
  <2>1. k \in Nat /\ ~(n < k /\ k < m)
    OBVIOUS
  <2> QED
    BY <2>1
<1>1. ASSUME n \in S PROVE Count(S, i, m) = Count(S, i, n) + 1
  <2>1. Between(S, i, m) = Between(S, i, n) \cup {n}
    BY <1>0, <1>1 DEF Between
  <2>4. n \notin Between(S, i, n)
    BY DEF Between
  <2>2. IsFiniteSet(Between(S, i, n))
    BY CountTyped
  <2>3. Cardinality(Between(S, i, n) \cup {n}) = Cardinality(Between(S, i, n)) + 1
    BY <2>2, <2>4, FS_AddElement
  <2> QED
    BY <1>1, <2>1, <2>3 DEF Count
<1>2. ASSUME n \notin S PROVE Count(S, i, m) = Count(S, i, n)
  <2>1. Between(S, i, m) = Between(S, i, n)
    BY <1>0, <1>2, Zenon DEF Between
  <2> QED
    BY <1>2, <2>1 DEF Count
<1>3. ASSUME NEW j \in (n + 1)..m PROVE Count(S, i, j) = Count(S, i, m)
  <2>1. Between(S, i, j) = Between(S, i, m)
    <3>1. ASSUME NEW k \in S PROVE (i < k /\ k < j) <=> (i < k /\ k < m)
      <4>1. k \in Nat /\ ~(n < k /\ k < m) /\ j \in Nat /\ n < j /\ j <= m
        BY <1>3
      <4> QED
        BY <4>1
    <3> QED
      BY <3>1 DEF Between
  <2> QED
    BY <2>1 DEF Count
<1> QED
  BY <1>1, <1>2, <1>3

LEMMA CountNone ==
  ASSUME NEW S \in SUBSET Nat, NEW n \in Nat, NEW m \in Nat, \A k \in S : ~(n < k /\ k < m)
  PROVE  \A j \in n..m : Count(S, n, j) = 0
<1> TAKE j \in n..m
<1>1. Between(S, n, j) = {}
  <2>1. ASSUME NEW k \in S PROVE ~(n < k /\ k < j)
    <3>1. k \in Nat /\ ~(n < k /\ k < m) /\ j <= m
      OBVIOUS
    <3> QED
      BY <3>1
  <2> QED
    BY <2>1 DEF Between
<1> QED
  BY <1>1, FS_EmptySet DEF Count

\* What survives a piece: what still has more names than ".." above, and the piece
\* itself if it is a name.
LEMMA KeptNext ==
  ASSUME NEW names \in SUBSET Nat, NEW ups \in SUBSET Nat, NEW n \in Nat, NEW m \in Nat, n < m,
         \A k \in names \cup ups : ~(n < k /\ k < m), NEW i \in Nat
  PROVE  i \in Kept(names, ups, m) <=>
           \/ i \in Kept(names, ups, n) /\ Count(ups, i, m) <= Count(names, i, m)
           \/ i = n /\ n \in names
<1>1. CASE i < n
  <2>1. Covered(names, ups, i, m) <=>
          Covered(names, ups, i, n) /\ Count(ups, i, m) <= Count(names, i, m)
    <3>1. ASSUME Covered(names, ups, i, m)
          PROVE  Covered(names, ups, i, n) /\ Count(ups, i, m) <= Count(names, i, m)
      <4>1. m \in i..m /\ \A j \in i..n : j \in i..m
        BY <1>1
      <4> QED
        BY <3>1, <4>1 DEF Covered, Count
    <3>2. ASSUME Covered(names, ups, i, n), Count(ups, i, m) <= Count(names, i, m)
          PROVE  Covered(names, ups, i, m)
      <4>1. ASSUME NEW j \in i..m PROVE Count(ups, i, j) <= Count(names, i, j)
        <5>1. CASE j \in i..n
          BY <3>2, <5>1 DEF Covered, Count
        <5>2. CASE j \in (n + 1)..m
          BY <1>1, <3>2, <5>2, CountNext
        <5> QED
          BY <5>1, <5>2
      <4> QED
        BY <4>1 DEF Covered, Count
    <3> QED
      BY <3>1, <3>2
  <2> QED
    BY <1>1, <2>1 DEF Kept
<1>2. CASE i = n
  <2>1. \A j \in n..m : Count(ups, n, j) = 0 /\ Count(names, n, j) = 0
    BY CountNone
  <2>2. Covered(names, ups, n, m)
    BY <2>1 DEF Covered, Count
  <2> QED
    BY <1>2, <2>2 DEF Kept
<1>3. CASE n < i
  BY <1>3 DEF Kept
<1> QED
  BY <1>1, <1>2, <1>3

LEMMA OnStack ==
  ASSUME NEW names \in SUBSET Nat, NEW ups \in SUBSET Nat, NEW n \in Nat, NEW places,
         IsStack(places, names, ups, n), NEW j \in 1..Len(places)
  PROVE  /\ places[j] \in Nat /\ places[j] < n
         /\ places[j] \in names /\ places[j] \in Kept(names, ups, n)
         /\ Count(ups, places[j], n) \in Nat
<1>1. places \in Seq(Nat)
  BY DEF IsStack
<1>2. Len(places) \in Nat /\ j \in Nat /\ places[j] \in Nat
  BY <1>1, LenProperties, ElementOfSeq
<1>3. places[j] \in Kept(names, ups, n)
  BY <1>2 DEF IsStack
<1>4. Count(ups, places[j], n) \in Nat
  BY <1>2, CountTyped
<1> QED
  BY <1>2, <1>3, <1>4 DEF IsStack, Kept

LEMMA StackStays ==
  ASSUME NEW names \in SUBSET Nat, NEW ups \in SUBSET Nat, NEW n \in Nat, NEW m \in Nat, n < m,
         \A k \in names \cup ups : ~(n < k /\ k < m), NEW places,
         IsStack(places, names, ups, n), n \notin names, n \notin ups
  PROVE  IsStack(places, names, ups, m)
<1>1. ASSUME NEW j \in 1..Len(places)
      PROVE  Count(names, places[j], m) = Count(ups, places[j], m) + (Len(places) - j)
  <2>1. Count(names, places[j], n) = Count(ups, places[j], n) + (Len(places) - j)
    BY DEF IsStack
  <2>2. /\ Count(names, places[j], m) = Count(names, places[j], n)
        /\ Count(ups, places[j], m) = Count(ups, places[j], n)
    <3>1. places[j] \in Nat /\ places[j] < n
      BY OnStack
    <3> QED
      BY <3>1, CountNext
  <2> QED
    BY <2>1, <2>2
<1>2. ASSUME NEW i \in Nat
      PROVE  i \in Kept(names, ups, m) <=> \E j \in 1..Len(places) : places[j] = i
  <2>1. i \in Kept(names, ups, n) <=> \E j \in 1..Len(places) : places[j] = i
    BY DEF IsStack
  <2>2. i \in Kept(names, ups, m) <=>
          i \in Kept(names, ups, n) /\ Count(ups, i, m) <= Count(names, i, m)
    BY KeptNext
  <2>3. ASSUME NEW j \in 1..Len(places), places[j] = i PROVE Count(ups, i, m) <= Count(names, i, m)
    <3>1. Count(names, i, m) = Count(ups, i, m) + (Len(places) - j)
      BY <1>1, <2>3
    <3>2. Count(ups, i, m) \in Nat /\ Len(places) - j \in Nat
      BY OnStack, CountTyped
    <3> QED
      BY <3>1, <3>2
  <2> QED
    BY <2>1, <2>2, <2>3
<1> QED
  BY <1>1, <1>2 DEF IsStack

LEMMA StackPush ==
  ASSUME NEW names \in SUBSET Nat, NEW ups \in SUBSET Nat, NEW n \in Nat, NEW m \in Nat, n < m,
         \A k \in names \cup ups : ~(n < k /\ k < m), NEW places,
         IsStack(places, names, ups, n), n \in names, n \notin ups
  PROVE  IsStack(Append(places, n), names, ups, m)
<1> DEFINE d == Len(places)
<1>p. PICK more : more = Append(places, n)
  OBVIOUS
<1>1. places \in Seq(Nat) /\ d \in Nat
  BY LenProperties DEF IsStack
<1>2. /\ more \in Seq(Nat) /\ Len(more) = d + 1 /\ \A j \in 1..d : more[j] = places[j]
      /\ more[d + 1] = n
  BY <1>1, <1>p, AppendProperties
<1>3. \A j \in 1..Len(more) : j \in 1..d \/ j = d + 1
  BY <1>1, <1>2
<1>4. ASSUME NEW j \in 1..Len(more)
      PROVE  /\ Count(names, more[j], m) = Count(ups, more[j], m) + (Len(more) - j)
             /\ Count(ups, more[j], m) \in Nat /\ Len(more) - j \in Nat
  <2>1. CASE j \in 1..d
    <3>0. places[j] \in Nat /\ places[j] < n /\ Count(ups, places[j], n) \in Nat
      BY <2>1, OnStack
    <3>3. Count(names, places[j], n) = Count(ups, places[j], n) + (d - j)
      BY <2>1 DEF IsStack
    <3>1. /\ places[j] \in Nat /\ places[j] < n /\ more[j] = places[j] /\ j <= d
          /\ Count(names, places[j], n) = Count(ups, places[j], n) + (d - j)
          /\ Count(ups, places[j], n) \in Nat
      BY <1>1, <1>2, <2>1, <3>0, <3>3
    <3>2. /\ Count(names, places[j], m) = Count(names, places[j], n) + 1
          /\ Count(ups, places[j], m) = Count(ups, places[j], n)
      BY <3>1, CountNext
    <3> QED
      BY <1>1, <1>2, <2>1, <3>1, <3>2
  <2>2. CASE j = d + 1
    <3>1. Count(names, n, m) = 0 /\ Count(ups, n, m) = 0
      <4>1. m \in n..m /\ (\A k \in names : ~(n < k /\ k < m)) /\ \A k \in ups : ~(n < k /\ k < m)
        OBVIOUS
      <4> QED
        BY <4>1, CountNone
    <3> QED
      BY <1>1, <1>2, <2>2, <3>1
  <2> QED
    BY <1>3, <2>1, <2>2
<1>5. ASSUME NEW i \in Nat
      PROVE  i \in Kept(names, ups, m) <=> \E j \in 1..Len(more) : more[j] = i
  <2>1. i \in Kept(names, ups, n) <=> \E j \in 1..d : places[j] = i
    BY DEF IsStack
  <2>2. i \in Kept(names, ups, m) <=>
          (i \in Kept(names, ups, n) /\ Count(ups, i, m) <= Count(names, i, m)) \/ i = n
    BY KeptNext
  <2>3. ASSUME NEW j \in 1..Len(more), more[j] = i PROVE Count(ups, i, m) <= Count(names, i, m)
    BY <1>4, <2>3
  <2>4. (\E j \in 1..Len(more) : more[j] = i) <=> (\E j \in 1..d : places[j] = i) \/ i = n
    <3>1. d + 1 \in 1..Len(more) /\ \A j \in 1..d : j \in 1..Len(more)
      BY <1>1, <1>2
    <3> QED
      BY <1>2, <1>3, <3>1
  <2> QED
    BY <2>1, <2>2, <2>3, <2>4
<1>6. ASSUME NEW j \in 1..Len(more), NEW k \in 1..Len(more), j < k PROVE more[j] < more[k]
  <2>1. j \in 1..d
    BY <1>1, <1>2, <1>6
  <2>2. CASE k \in 1..d
    BY <1>2, <1>6, <2>1, <2>2 DEF IsStack
  <2>3. CASE k = d + 1
    <3>1. places[j] < n
      BY <2>1, OnStack
    <3> QED
      BY <1>2, <2>1, <2>3, <3>1
  <2> QED
    BY <1>3, <2>2, <2>3
<1>7. IsStack(more, names, ups, m)
  BY <1>2, <1>4, <1>5, <1>6 DEF IsStack
<1> QED
  BY <1>p, <1>7

LEMMA StackPop ==
  ASSUME NEW names \in SUBSET Nat, NEW ups \in SUBSET Nat, NEW n \in Nat, NEW m \in Nat, n < m,
         \A k \in names \cup ups : ~(n < k /\ k < m), NEW places,
         IsStack(places, names, ups, n), n \notin names, n \in ups
  PROVE  IsStack(IF places = <<>> THEN <<>> ELSE Front(places), names, ups, m)
<1> DEFINE d == Len(places)
<1>p. PICK fewer : fewer = IF places = <<>> THEN <<>> ELSE Front(places)
  OBVIOUS
<1>1. places \in Seq(Nat) /\ d \in Nat
  BY LenProperties DEF IsStack
<1>2. /\ fewer \in Seq(Nat) /\ Len(fewer) \in Nat /\ (d > 0 => Len(fewer) = d - 1)
      /\ (d = 0 => Len(fewer) = 0) /\ \A j \in 1..Len(fewer) : fewer[j] = places[j]
  <2>1. CASE places = <<>>
    BY <1>1, <1>p, <2>1, EmptySeq
  <2>2. CASE places # <<>>
    <3>1. d > 0 /\ fewer = SubSeq(places, 1, d - 1)
      BY <1>1, <1>p, <2>2, EmptySeq DEF Front
    <3>2. \A i \in 1..(d - 1) : places[i] \in Nat
      BY <1>1, ElementOfSeq
    <3>3. /\ fewer \in Seq(Nat) /\ Len(fewer) = IF 1 <= d - 1 THEN (d - 1) - 1 + 1 ELSE 0
          /\ \A i \in 1..((d - 1) - 1 + 1) : fewer[i] = places[1 + i - 1]
      BY <1>1, <3>1, <3>2, SubSeqProperties
    <3>4. Len(fewer) = d - 1
      <4>1. d \in Nat /\ d > 0
        BY <1>1, <3>1
      <4> HIDE DEF d
      <4> QED
        BY <3>3, <4>1
    <3>5. ASSUME NEW j \in 1..Len(fewer) PROVE fewer[j] = places[j]
      <4>1. j \in 1..((d - 1) - 1 + 1) /\ 1 + j - 1 = j
        BY <1>1, <3>4
      <4> QED
        BY <3>3, <4>1
    <3> QED
      BY <1>1, <3>1, <3>3, <3>4, <3>5
  <2> QED
    BY <2>1, <2>2
<1>3. \A j \in 1..Len(fewer) : j \in 1..d /\ j < d
  BY <1>1, <1>2
<1>4. ASSUME NEW j \in 1..d
      PROVE  /\ Count(names, places[j], m) = Count(ups, places[j], m) - 1 + (d - j)
             /\ Count(ups, places[j], m) \in Nat
  <2>1. places[j] \in Nat /\ places[j] < n /\ Count(ups, places[j], n) \in Nat
    BY OnStack
  <2>3. Count(names, places[j], n) = Count(ups, places[j], n) + (d - j)
    BY DEF IsStack
  <2>4. (\A k \in names : ~(n < k /\ k < m)) /\ \A k \in ups : ~(n < k /\ k < m)
    OBVIOUS
  <2>2. Count(names, places[j], m) = Count(names, places[j], n)
    BY <2>1, <2>4, CountNext
  <2>5. Count(ups, places[j], m) = Count(ups, places[j], n) + 1
    BY <2>1, <2>4, CountNext
  <2>6. PICK a : a = Count(ups, places[j], n)
    OBVIOUS
  <2>7. PICK b : b = d - j
    OBVIOUS
  <2>8. b \in Int /\ a \in Nat
    BY <1>1, <2>1, <2>6, <2>7
  <2>9. Count(ups, places[j], m) = a + 1 /\ Count(names, places[j], m) = a + b
    BY <2>2, <2>3, <2>5, <2>6, <2>7
  <2>10. a + b = (a + 1) - 1 + b
    BY <2>8
  <2> QED
    BY <2>7, <2>8, <2>9, <2>10
<1>5. ASSUME NEW j \in 1..Len(fewer)
      PROVE  Count(names, fewer[j], m) = Count(ups, fewer[j], m) + (Len(fewer) - j)
  <2>1. j \in 1..d /\ fewer[j] = places[j] /\ Len(fewer) = d - 1
    BY <1>1, <1>2, <1>3
  <2>2. Count(names, places[j], m) = Count(ups, places[j], m) - 1 + (d - j)
        /\ Count(ups, places[j], m) \in Nat
    BY <1>4, <2>1
  <2> QED
    BY <1>1, <2>1, <2>2
<1>6. ASSUME NEW i \in Nat
      PROVE  i \in Kept(names, ups, m) <=> \E j \in 1..Len(fewer) : fewer[j] = i
  <2>1. i \in Kept(names, ups, n) <=> \E j \in 1..d : places[j] = i
    BY DEF IsStack
  <2>2. i \in Kept(names, ups, m) <=>
          i \in Kept(names, ups, n) /\ Count(ups, i, m) <= Count(names, i, m)
    BY KeptNext
  <2>3. ASSUME NEW j \in 1..d, places[j] = i
        PROVE  Count(ups, i, m) <= Count(names, i, m) <=> j < d
    BY <1>1, <1>4, <2>3
  <2>4. (\E j \in 1..Len(fewer) : fewer[j] = i) <=> \E j \in 1..d : places[j] = i /\ j < d
    <3>1. \A j \in 1..d : j < d => j \in 1..Len(fewer)
      BY <1>1, <1>2
    <3> QED
      BY <1>2, <1>3, <3>1
  <2> QED
    BY <2>1, <2>2, <2>3, <2>4
<1>7. ASSUME NEW j \in 1..Len(fewer), NEW k \in 1..Len(fewer), j < k PROVE fewer[j] < fewer[k]
  BY <1>2, <1>3, <1>7 DEF IsStack
<1>8. IsStack(fewer, names, ups, m)
  BY <1>2, <1>5, <1>6, <1>7 DEF IsStack
<1> QED
  BY <1>p, <1>8

----------------------------------------------------------------------------
(* Pieces, and texts put together.                                         *)

\* Induction over the naturals, for a set.
LEMMA EveryNat ==
  ASSUME NEW M, 0 \in M, \A n \in Nat : n \in M => n + 1 \in M
  PROVE  Nat \subseteq M
<1> DEFINE Others == Nat \ M
<1>1. ASSUME Others # {} PROVE FALSE
  <2>1. PICK x \in Others : \A y \in Others : x <= y
    BY <1>1, LeastNat
  <2>2. x \in Nat /\ x # 0 /\ x \notin M
    OBVIOUS
  <2>3. x - 1 \in Nat /\ ~(x <= x - 1) /\ (x - 1) + 1 = x
    BY <2>2
  <2>4. x - 1 \in M
    BY <2>1, <2>3
  <2> QED
    BY <2>2, <2>3, <2>4
<1> QED
  BY <1>1

LEMMA MinIs ==
  ASSUME NEW M \in SUBSET Nat, NEW e \in M, \A y \in M : e <= y
  PROVE  Min(M) = e
<1>1. \A x \in M : (\A y \in M : x =< y) => x = e
  <2> SUFFICES ASSUME NEW x \in M, \A y \in M : x =< y PROVE x = e
    OBVIOUS
  <2>1. x \in Nat /\ e \in Nat /\ x <= e /\ e <= x
    OBVIOUS
  <2> QED
    BY <2>1
<1> QED
  BY <1>1 DEF Min

\* The end of a text, and a part of it.
LEMMA EndOf ==
  ASSUME NEW S, NEW t \in Seq(S), NEW p \in 1..(Len(t) + 1)
  PROVE  /\ SubSeq(t, p, Len(t)) \in Seq(S) /\ Len(SubSeq(t, p, Len(t))) = Len(t) + 1 - p
         /\ \A i \in 1..(Len(t) + 1 - p) : SubSeq(t, p, Len(t))[i] = t[p + i - 1]
<1>1. Len(t) \in Nat /\ p \in Int /\ \A i \in p..Len(t) : t[i] \in S
  BY LenProperties, ElementOfSeq
<1>2. /\ SubSeq(t, p, Len(t)) \in Seq(S)
      /\ Len(SubSeq(t, p, Len(t))) = IF p <= Len(t) THEN Len(t) - p + 1 ELSE 0
      /\ \A i \in 1..(Len(t) - p + 1) : SubSeq(t, p, Len(t))[i] = t[p + i - 1]
  BY <1>1, SubSeqProperties
<1>3. Len(t) - p + 1 = Len(t) + 1 - p /\ (~(p <= Len(t)) => Len(t) + 1 - p = 0)
  BY <1>1
<1> QED
  BY <1>2, <1>3

LEMMA PartOfEnd ==
  ASSUME NEW S, NEW t \in Seq(S), NEW p \in 1..Len(t),
         NEW a \in 1..(Len(t) + 2 - p), NEW b \in 0..(Len(t) + 1 - p)
  PROVE  SubSeq(SubSeq(t, p, Len(t)), a, b) = SubSeq(t, p + a - 1, p + b - 1)
<1>1. Len(t) \in Nat /\ p \in Nat /\ a \in Nat /\ b \in Nat
  BY LenProperties
<1>2. CASE b < a
  <2>1. /\ p + a - 1 \in Int /\ p + b - 1 \in Int /\ p + b - 1 < p + a - 1
        /\ a \in Int /\ b \in Int
    BY <1>1, <1>2
  <2>2. SubSeq(SubSeq(t, p, Len(t)), a, b) = <<>>
    BY <1>2, <2>1, SubSeqEmpty
  <2>3. SubSeq(t, p + a - 1, p + b - 1) = <<>>
    BY <2>1, SubSeqEmpty
  <2> QED
    BY <2>2, <2>3
<1>3. CASE a <= b
  <2>1. /\ a \in 1..(Len(t) - p + 1) /\ b \in 1..(Len(t) - p + 1)
        /\ p \in 1..Len(t) /\ Len(t) \in 1..Len(t)
    BY <1>1, <1>3
  <2> QED
    BY <2>1, SubSeqOfSubSeq
<1> QED
  BY <1>1, <1>2, <1>3

\* What getline takes of the end of a text is the piece that begins there, and leaves
\* the end where the next piece begins.
LEMMA CutIsPiece ==
  ASSUME NEW S, NEW t \in Seq(S), NEW p \in 1..Len(t), NEW c \in Cuts(SubSeq(t, p, Len(t)))
  PROVE  /\ Before(SubSeq(t, p, Len(t)), c) = Piece(t, p)
         /\ Before(SubSeq(t, p, Len(t)), c) = SubSeq(t, p, p + c - 2)
         /\ \E q \in 1..(Len(t) + 1) :
              /\ p < q /\ After(SubSeq(t, p, Len(t)), c) = SubSeq(t, q, Len(t))
              /\ \/ q = p + c /\ t[q - 1] = "/"
                 \/ q = p + c - 1 /\ q = Len(t) + 1 /\ t[Len(t)] # "/"
              /\ q <= Len(t) => q \in Starts(t)
              /\ \A k \in Starts(t) : ~(p < k /\ k < q)
<1> DEFINE size == Len(t) + 1 - p
<1>r. PICK r : r = SubSeq(t, p, Len(t))
  OBVIOUS
<1>1. Len(t) \in Nat /\ p \in Nat /\ p \in 1..(Len(t) + 1) /\ size \in Nat
  BY LenProperties
<1>2. r \in Seq(S) /\ Len(r) = size /\ \A i \in 1..size : r[i] = t[p + i - 1]
  BY <1>1, <1>r, EndOf
<1>3. /\ c \in 1..(size + 1) /\ (\A i \in 1..(c - 1) : r[i] # "/") /\ (c <= size => r[c] = "/")
  BY <1>2, <1>r DEF Cuts
<1>4. c \in Nat /\ c >= 1 /\ c <= size + 1
  BY <1>1, <1>3
<1>5. \A j \in p..Len(t) : j < p + c - 1 => t[j] # "/"
  <2> SUFFICES ASSUME NEW j \in p..Len(t), j < p + c - 1 PROVE t[j] # "/"
    OBVIOUS
  <2>1. j - p + 1 \in 1..(c - 1) /\ j - p + 1 \in 1..size /\ p + (j - p + 1) - 1 = j
    BY <1>1, <1>4
  <2> QED
    BY <1>2, <1>3, <2>1
<1>6. c <= size => t[p + c - 1] = "/" /\ p + c - 1 \in p..Len(t)
  BY <1>1, <1>2, <1>3, <1>4
<1>7. Before(r, c) = Piece(t, p) /\ Before(r, c) = SubSeq(t, p, p + c - 2)
  <2>1. PICK M : M = {j \in p..Len(t) : t[j] = "/"} \cup {Len(t) + 1}
    OBVIOUS
  <2>e. PICK e : e = p + c - 1
    OBVIOUS
  <2>2. M \in SUBSET Nat
    <3>1. \A j \in p..Len(t) : j \in Nat
      BY <1>1
    <3> QED
      BY <1>1, <2>1, <3>1
  <2>3. e \in M
    <3>1. CASE c <= size
      BY <1>6, <2>1, <2>e, <3>1
    <3>2. CASE c = size + 1
      <4>1. e = Len(t) + 1
        BY <1>1, <2>e, <3>2
      <4> QED
        BY <2>1, <4>1
    <3> QED
      BY <1>1, <1>4, <3>1, <3>2
  <2>4. \A y \in M : e <= y
    <3> SUFFICES ASSUME NEW y \in M PROVE e <= y
      OBVIOUS
    <3>1. CASE y \in p..Len(t) /\ t[y] = "/"
      BY <1>1, <1>4, <1>5, <2>e, <3>1
    <3>2. CASE y = Len(t) + 1
      BY <1>1, <1>4, <2>e, <3>2
    <3> QED
      BY <2>1, <3>1, <3>2
  <2>5. Min(M) = e
    BY <2>2, <2>3, <2>4, MinIs
  <2>6. Piece(t, p) = SubSeq(t, p, e - 1)
    BY <2>1, <2>5 DEF Piece
  <2>7. SubSeq(r, 1, c - 1) = SubSeq(t, p + 1 - 1, p + (c - 1) - 1)
    <3>1. 1 \in 1..(Len(t) + 2 - p) /\ c - 1 \in 0..(Len(t) + 1 - p)
      BY <1>1, <1>4
    <3> QED
      BY <1>r, <3>1, PartOfEnd
  <2>8. p + 1 - 1 = p /\ p + (c - 1) - 1 = e - 1 /\ e - 1 = p + c - 2
    BY <1>1, <1>4, <2>e
  <2> QED
    BY <2>6, <2>7, <2>8 DEF Before
<1>8. CASE c <= size
  <2>q. PICK q : q = p + c
    OBVIOUS
  <2>1. q \in 1..(Len(t) + 1) /\ p < q
    BY <1>1, <1>4, <1>8, <2>q
  <2>2. After(r, c) = SubSeq(t, q, Len(t))
    <3>1. c + 1 \in 1..(Len(t) + 2 - p) /\ size \in 0..(Len(t) + 1 - p)
      BY <1>1, <1>4, <1>8
    <3>2. SubSeq(r, c + 1, size) = SubSeq(t, p + (c + 1) - 1, p + size - 1)
      BY <1>r, <3>1, PartOfEnd
    <3>3. p + (c + 1) - 1 = q /\ p + size - 1 = Len(t)
      BY <1>1, <1>4, <2>q
    <3> QED
      BY <1>2, <3>2, <3>3 DEF After
  <2>3. q <= Len(t) => q \in Starts(t)
    <3>1. q - 1 = p + c - 1
      BY <1>1, <1>4, <2>q
    <3>2. t[q - 1] = "/"
      BY <1>6, <1>8, <3>1
    <3> QED
      BY <1>1, <2>1, <3>2 DEF Starts
  <2>5. t[q - 1] = "/"
    <3>1. q - 1 = p + c - 1
      BY <1>1, <1>4, <2>q
    <3> QED
      BY <1>6, <1>8, <3>1
  <2>4. ASSUME NEW k \in Starts(t), p < k, k < q PROVE FALSE
    <3>1. k \in Nat /\ k # 1 /\ t[k - 1] = "/"
      BY <1>1, <2>4 DEF Starts
    <3>2. k - 1 \in p..Len(t) /\ k - 1 < p + c - 1
      BY <1>1, <1>4, <2>1, <2>4, <2>q, <3>1
    <3> QED
      BY <1>5, <3>1, <3>2
  <2> QED
    BY <1>7, <1>r, <2>1, <2>2, <2>3, <2>4, <2>5, <2>q
<1>9. CASE c = size + 1
  <2>q. PICK q : q = Len(t) + 1
    OBVIOUS
  <2>1. q \in 1..(Len(t) + 1) /\ p < q /\ ~(q <= Len(t))
    BY <1>1, <2>q
  <2>2. After(r, c) = SubSeq(t, q, Len(t))
    <3>1. c + 1 \in Int /\ size \in Int /\ size < c + 1 /\ q \in Int /\ Len(t) \in Int /\ Len(t) < q
      BY <1>1, <1>4, <1>9, <2>q
    <3>2. SubSeq(r, c + 1, size) = <<>>
      BY <3>1, SubSeqEmpty
    <3>3. SubSeq(t, q, Len(t)) = <<>>
      BY <3>1, SubSeqEmpty
    <3> QED
      BY <1>2, <3>2, <3>3 DEF After
  <2>5. q = p + c - 1 /\ t[Len(t)] # "/"
    <3>1. Len(t) \in p..Len(t) /\ Len(t) < p + c - 1
      BY <1>1, <1>4, <1>9
    <3> QED
      BY <1>1, <1>4, <1>5, <1>9, <2>q, <3>1
  <2>4. ASSUME NEW k \in Starts(t), p < k, k < q PROVE FALSE
    <3>1. k \in Nat /\ k # 1 /\ t[k - 1] = "/" /\ k <= Len(t)
      BY <1>1, <2>4 DEF Starts
    <3>2. k - 1 \in p..Len(t) /\ k - 1 < p + c - 1
      BY <1>1, <1>4, <1>9, <2>4, <3>1
    <3> QED
      BY <1>5, <3>1, <3>2
  <2> QED
    BY <1>7, <1>r, <2>1, <2>2, <2>4, <2>5, <2>q
<1>10. c <= size \/ c = size + 1
  BY <1>1, <1>4
<1> QED
  BY <1>8, <1>9, <1>10, Zenon

\* What texts put together are does not depend on those that follow.
Agree(s, r, n) == \A i \in 1..n : s[i] = r[i]
LEMMA FlattenAgree ==
  ASSUME NEW s, NEW r, NEW n \in Nat, NEW m \in Nat, n <= m, NEW f, NEW h,
         IsFlatten(f, s, n), IsFlatten(h, r, m), Agree(s, r, n)
  PROVE  Agree(f, h, n)
<1> DEFINE M == {k \in Nat : k \in 1..n => f[k] = h[k]}
<1>1. 0 \in M
  OBVIOUS
<1>2. ASSUME NEW k \in Nat, k \in M PROVE k + 1 \in M
  <2> SUFFICES ASSUME k + 1 \in 1..n PROVE f[k + 1] = h[k + 1]
    OBVIOUS
  <2>1. k + 1 \in 1..m /\ s[k + 1] = r[k + 1] /\ (k + 1) - 1 = k
    BY DEF Agree
  <2>2. f[k + 1] = IF k + 1 = 1 THEN s[k + 1] ELSE f[(k + 1) - 1] \o s[k + 1]
    BY DEF IsFlatten
  <2>3. h[k + 1] = IF k + 1 = 1 THEN r[k + 1] ELSE h[(k + 1) - 1] \o r[k + 1]
    BY <2>1 DEF IsFlatten
  <2>4. k + 1 # 1 => f[k] = h[k]
    BY <1>2
  <2> QED
    BY <2>1, <2>2, <2>3, <2>4
<1>3. Nat \subseteq M
  <2> HIDE DEF M
  <2> QED
    BY <1>1, <1>2, EveryNat
<1> QED
  BY <1>3 DEF Agree

LEMMA FlattenIs ==
  ASSUME NEW s, NEW n \in Nat \ {0}, Len(s) = n
  PROVE  \E f : IsFlatten(f, s, n) /\ FlattenSeq(s) = f[n]
<1> DEFINE flatten == CHOOSE f : IsFlatten(f, s, n)
<1>1. FlattenSeq(s) = flatten[n]
  BY DEF FlattenSeq, IsFlatten
<1>2. IsFlatten(flatten, s, n)
  BY FlattenExists
<1> QED
  BY <1>1, <1>2

LEMMA FlattenAppend ==
  ASSUME NEW S, NEW g \in Seq(Seq(S)), NEW x \in Seq(S)
  PROVE  FlattenSeq(Append(g, x)) = FlattenSeq(g) \o x
<1>n. PICK n : n = Len(g)
  OBVIOUS
<1>g. PICK more : more = Append(g, x)
  OBVIOUS
<1>1. /\ n \in Nat /\ Len(more) = n + 1 /\ more[n + 1] = x /\ \A i \in 1..n : more[i] = g[i]
  BY <1>g, <1>n, LenProperties, AppendProperties
<1>2. n + 1 \in Nat \ {0} /\ n + 1 \in 1..(n + 1)
  BY <1>1
<1>3. PICK h : IsFlatten(h, more, n + 1) /\ FlattenSeq(more) = h[n + 1]
  BY <1>1, <1>2, FlattenIs
<1>4. h[n + 1] = IF n + 1 = 1 THEN more[n + 1] ELSE h[(n + 1) - 1] \o more[n + 1]
  BY <1>2, <1>3 DEF IsFlatten
<1>5. CASE n = 0
  <2>1. g = <<>> /\ FlattenSeq(g) = g
    BY <1>5, <1>n, EmptySeq DEF FlattenSeq
  <2>2. h[n + 1] = x
    BY <1>1, <1>4, <1>5
  <2>3. <<>> \o x = x
    BY ConcatEmptySeq
  <2> QED
    BY <1>3, <1>g, <2>1, <2>2, <2>3
<1>6. CASE n # 0
  <2>1. n \in Nat \ {0}
    BY <1>1, <1>6
  <2>2. PICK f : IsFlatten(f, g, n) /\ FlattenSeq(g) = f[n]
    BY <1>n, <2>1, FlattenIs
  <2>3. f[n] = h[n]
    <3>1. n <= n + 1 /\ n \in 1..n /\ n + 1 \in Nat
      BY <1>1, <1>6
    <3>2. Agree(g, more, n)
      BY <1>1 DEF Agree
    <3>m. PICK m : m = n + 1
      OBVIOUS
    <3>4. n \in Nat /\ m \in Nat /\ n <= m /\ IsFlatten(f, g, n) /\ IsFlatten(h, more, m)
      BY <1>1, <1>3, <2>2, <3>1, <3>m
    <3>3. Agree(f, h, n)
      BY <3>2, <3>4, FlattenAgree
    <3> QED
      BY <3>1, <3>3 DEF Agree
  <2>4. h[n + 1] = h[n] \o x
    <3>1. n + 1 # 1 /\ (n + 1) - 1 = n
      BY <1>1, <1>6
    <3>2. h[n + 1] = h[(n + 1) - 1] \o more[n + 1]
      BY <1>4, <3>1, Zenon
    <3> QED
      BY <1>1, <3>1, <3>2
  <2> QED
    BY <1>3, <1>g, <2>2, <2>3, <2>4
<1> QED
  BY <1>5, <1>6

\* A sequence of texts is its beginning and its last.
LEMMA FrontAndLast ==
  ASSUME NEW S, NEW g \in Seq(S), g # <<>>
  PROVE  /\ Front(g) \in Seq(S) /\ Len(Front(g)) = Len(g) - 1 /\ Len(g) \in Nat \ {0}
         /\ g = Append(Front(g), Last(g)) /\ Last(g) = g[Len(g)] /\ Last(g) \in S
         /\ \A i \in 1..(Len(g) - 1) : Front(g)[i] = g[i]
<1>n. PICK n : n = Len(g) - 1
  OBVIOUS
<1>b. PICK b : b = Front(g)
  OBVIOUS
<1>1. Len(g) \in Nat \ {0} /\ n \in Nat /\ Len(g) = n + 1 /\ \A i \in 1..Len(g) : g[i] \in S
  BY <1>n, EmptySeq, ElementOfSeq
<1>2. /\ b \in Seq(S) /\ Len(b) = IF 1 <= n THEN n - 1 + 1 ELSE 0
      /\ \A i \in 1..(n - 1 + 1) : b[i] = g[1 + i - 1]
  <2>1. 1 \in Int /\ n \in Int /\ \A i \in 1..n : g[i] \in S
    BY <1>1
  <2> QED
    BY <1>b, <1>n, <2>1, SubSeqProperties DEF Front
<1>3. Len(b) = n /\ Last(g) = g[n + 1] /\ Last(g) \in S
  BY <1>1, <1>2 DEF Last
<1>4. ASSUME NEW i \in 1..n PROVE b[i] = g[i]
  <2>1. i \in 1..(n - 1 + 1) /\ 1 + i - 1 = i
    BY <1>1
  <2> QED
    BY <1>2, <2>1
<1>a. PICK a : a = Append(b, Last(g))
  OBVIOUS
<1>5. /\ a \in Seq(S) /\ Len(a) = n + 1 /\ a[n + 1] = g[n + 1]
      /\ \A i \in 1..n : a[i] = b[i]
  BY <1>2, <1>3, <1>a, AppendProperties
<1>6. a = g
  <2>1. \A i \in 1..Len(a) : a[i] = g[i]
    <3> TAKE i \in 1..Len(a)
    <3>1. i \in 1..n \/ i = n + 1
      BY <1>1, <1>5
    <3> QED
      BY <1>4, <1>5, <3>1
  <2> QED
    BY <1>1, <1>5, <2>1, SeqEqual
<1> QED
  BY <1>1, <1>2, <1>3, <1>4, <1>6, <1>a, <1>b, <1>n DEF Last

\* The empty ones may be left out.
Selects(places, g) ==
  /\ \A j, k \in 1..Len(places) : j < k => places[j] < places[k]
  /\ \A j \in 1..Len(places) : places[j] \in 1..Len(g)
  /\ \A i \in 1..Len(g) : (\E j \in 1..Len(places) : places[j] = i) \/ g[i] = <<>>
Selected(places, g) == [j \in 1..Len(places) |-> g[places[j]]]

LEMMA SelectedTyped ==
  ASSUME NEW S, NEW g \in Seq(S), NEW places \in Seq(Nat),
         \A j \in 1..Len(places) : places[j] \in 1..Len(g)
  PROVE  /\ Selected(places, g) \in Seq(S) /\ Len(Selected(places, g)) = Len(places)
         /\ \A j \in 1..Len(places) : Selected(places, g)[j] = g[places[j]]
<1>1. Len(places) \in Nat
  BY LenProperties
<1>2. \A j \in 1..Len(places) : g[places[j]] \in S
  BY ElementOfSeq
<1> DEFINE s == [j \in 1..Len(places) |-> g[places[j]]]
<1>3. s \in Seq(S) /\ Len(s) = Len(places) /\ \A j \in 1..Len(places) : s[j] = g[places[j]]
  BY <1>1, <1>2
<1> QED
  BY <1>3 DEF Selected

LEMMA FlattenSelected ==
  ASSUME NEW S
  PROVE  \A g \in Seq(Seq(S)), places \in Seq(Nat) :
           Selects(places, g) => FlattenSeq(g) = FlattenSeq(Selected(places, g))
<1> DEFINE M == {n \in Nat : \A g \in Seq(Seq(S)), places \in Seq(Nat) :
                   Len(g) = n /\ Selects(places, g) => FlattenSeq(g) = FlattenSeq(Selected(places, g))}
<1>1. 0 \in M
  <2> SUFFICES ASSUME NEW g \in Seq(Seq(S)), NEW places \in Seq(Nat), Len(g) = 0, Selects(places, g)
               PROVE  FlattenSeq(g) = FlattenSeq(Selected(places, g))
    OBVIOUS
  <2>1. g = <<>> /\ Len(places) \in Nat
    BY EmptySeq, LenProperties
  <2>2. Len(places) = 0
    <3>1. \A j \in 1..Len(places) : places[j] \in 1..0
      BY DEF Selects
    <3>2. Len(places) # 0 => 1 \in 1..Len(places)
      BY <2>1
    <3> QED
      BY <3>1, <3>2
  <2>3. Selected(places, g) \in Seq(Seq(S)) /\ Len(Selected(places, g)) = 0
    <3>1. \A j \in 1..Len(places) : places[j] \in 1..Len(g)
      BY DEF Selects
    <3> QED
      BY <2>2, <3>1, SelectedTyped
  <2>4. Selected(places, g) = <<>>
    BY <2>3, EmptySeq
  <2> QED
    BY <2>1, <2>4
<1>2. ASSUME NEW n \in Nat, n \in M PROVE n + 1 \in M
  <2> SUFFICES ASSUME NEW g \in Seq(Seq(S)), NEW places \in Seq(Nat), Len(g) = n + 1,
                      Selects(places, g)
               PROVE  FlattenSeq(g) = FlattenSeq(Selected(places, g))
    OBVIOUS
  <2>1. PICK b \in Seq(Seq(S)) : /\ Len(b) = n /\ g = Append(b, g[n + 1]) /\ g[n + 1] \in Seq(S)
                                 /\ \A i \in 1..n : b[i] = g[i]
    <3>1. g # <<>> /\ Len(g) - 1 = n
      BY EmptySeq
    <3>2. /\ Front(g) \in Seq(Seq(S)) /\ Len(Front(g)) = Len(g) - 1
          /\ g = Append(Front(g), Last(g)) /\ Last(g) = g[Len(g)] /\ Last(g) \in Seq(S)
          /\ \A i \in 1..(Len(g) - 1) : Front(g)[i] = g[i]
      BY <3>1, FrontAndLast
    <3> QED
      BY <3>1, <3>2
  <2>2. FlattenSeq(g) = FlattenSeq(b) \o g[n + 1]
    BY <2>1, FlattenAppend
  <2>3. \A q \in Seq(Nat) : Selects(q, b) => FlattenSeq(b) = FlattenSeq(Selected(q, b))
    BY <1>2, <2>1
  <2>4. \A j \in 1..Len(places) : places[j] \in 1..(n + 1)
    BY DEF Selects
  <2>5. /\ Selected(places, g) \in Seq(Seq(S)) /\ Len(Selected(places, g)) = Len(places)
        /\ \A j \in 1..Len(places) : Selected(places, g)[j] = g[places[j]]
    BY <2>4, SelectedTyped
  <2>d. PICK d : d = Len(places)
    OBVIOUS
  <2>6. d \in Nat
    BY <2>d, LenProperties
  <2>7. CASE \E j \in 1..d : places[j] = n + 1
    <3>1. PICK last \in 1..d : places[last] = n + 1
      BY <2>7
    <3>2. last = d
      <4>1. d \in 1..d /\ places[d] \in 1..(n + 1)
        BY <2>4, <2>6, <2>d
      <4>2. last < d => places[last] < places[d]
        BY <2>d, <4>1 DEF Selects
      <4> QED
        BY <2>6, <3>1, <4>1, <4>2
    <3>c. PICK c \in Nat : d = c + 1
      <4>1. d - 1 \in Nat /\ d = (d - 1) + 1
        BY <2>6, <3>1
      <4> QED
        BY <4>1
    <3>3. PICK q \in Seq(Nat) : Len(q) = c /\ \A j \in 1..c : q[j] = places[j]
      <4>1. places # <<>> /\ Len(places) - 1 = c
        <5>1. Len(places) = c + 1 /\ Len(places) # 0
          BY <2>d, <3>c
        <5>2. places = <<>> => Len(places) = 0
          BY EmptySeq
        <5> QED
          BY <5>1, <5>2
      <4>2. /\ Front(places) \in Seq(Nat) /\ Len(Front(places)) = Len(places) - 1
            /\ \A j \in 1..(Len(places) - 1) : Front(places)[j] = places[j]
        BY <4>1, FrontAndLast
      <4> QED
        BY <4>1, <4>2
    <3>4. \A j \in 1..c : j \in 1..d /\ j < d /\ places[j] \in 1..n
      <4> TAKE j \in 1..c
      <4>1. j \in 1..d /\ j < d /\ d \in 1..d
        BY <3>c
      <4>2. places[j] < places[d] /\ places[j] \in 1..(n + 1)
        BY <2>4, <2>d, <4>1 DEF Selects
      <4> QED
        BY <3>1, <3>2, <4>1, <4>2
    <3>5. Selects(q, b)
      <4>1. ASSUME NEW j \in 1..c, NEW k \in 1..c, j < k PROVE q[j] < q[k]
        BY <2>d, <3>3, <3>4, <4>1 DEF Selects
      <4>2. ASSUME NEW i \in 1..n PROVE (\E j \in 1..c : q[j] = i) \/ b[i] = <<>>
        <5>1. i \in 1..(n + 1) /\ i # n + 1
          OBVIOUS
        <5>2. (\E j \in 1..d : places[j] = i) \/ g[i] = <<>>
          BY <2>d, <5>1 DEF Selects
        <5>3. \A j \in 1..d : j \in 1..c \/ j = d
          BY <3>c
        <5> QED
          BY <2>1, <3>1, <3>2, <3>3, <5>1, <5>2, <5>3
      <4> QED
        BY <2>1, <3>3, <3>4, <4>1, <4>2 DEF Selects
    <3>6. /\ Selected(q, b) \in Seq(Seq(S)) /\ Len(Selected(q, b)) = c
          /\ \A j \in 1..c : Selected(q, b)[j] = b[q[j]]
      <4>1. \A j \in 1..Len(q) : q[j] \in 1..Len(b)
        BY <2>1, <3>3, <3>4
      <4>2. /\ Selected(q, b) \in Seq(Seq(S)) /\ Len(Selected(q, b)) = Len(q)
            /\ \A j \in 1..Len(q) : Selected(q, b)[j] = b[q[j]]
        BY <4>1, SelectedTyped
      <4> QED
        BY <3>3, <4>2
    <3>7. Selected(places, g) = Append(Selected(q, b), g[n + 1])
      <4>u. PICK u : u = Selected(q, b)
        OBVIOUS
      <4>v. PICK v : v = Append(u, g[n + 1])
        OBVIOUS
      <4>w. PICK w : w = Selected(places, g)
        OBVIOUS
      <4>1. /\ v \in Seq(Seq(S)) /\ Len(v) = c + 1 /\ v[c + 1] = g[n + 1]
            /\ \A j \in 1..c : v[j] = u[j]
        BY <2>1, <3>6, <4>u, <4>v, AppendProperties
      <4>2. w \in Seq(Seq(S)) /\ Len(w) = c + 1 /\ \A j \in 1..(c + 1) : w[j] = g[places[j]]
        BY <2>5, <2>d, <3>c, <4>w
      <4>3. \A j \in 1..Len(w) : w[j] = v[j]
        <5> TAKE j \in 1..Len(w)
        <5>1. j \in 1..c \/ j = c + 1
          BY <4>2
        <5>2. CASE j \in 1..c
          <6>1. q[j] = places[j] /\ places[j] \in 1..n /\ j \in 1..(c + 1)
            BY <3>3, <3>4, <3>c, <5>2
          <6>2. v[j] = b[q[j]]
            BY <3>6, <4>1, <4>u, <5>2
          <6> QED
            BY <2>1, <4>2, <6>1, <6>2
        <5>3. CASE j = c + 1
          BY <3>1, <3>2, <3>c, <4>1, <4>2, <5>3
        <5> QED
          BY <5>1, <5>2, <5>3
      <4>4. w = v
        BY <4>1, <4>2, <4>3, SeqEqual
      <4> QED
        BY <4>4, <4>u, <4>v, <4>w
    <3>8. FlattenSeq(Selected(places, g)) = FlattenSeq(Selected(q, b)) \o g[n + 1]
      <4>u. PICK u : u = Selected(q, b)
        OBVIOUS
      <4>1. FlattenSeq(Append(u, g[n + 1])) = FlattenSeq(u) \o g[n + 1]
        BY <2>1, <3>6, <4>u, FlattenAppend
      <4> QED
        BY <3>7, <4>1, <4>u
    <3>9. FlattenSeq(b) = FlattenSeq(Selected(q, b))
      BY <2>3, <3>5
    <3> QED
      BY <2>2, <3>8, <3>9
  <2>8. CASE ~\E j \in 1..d : places[j] = n + 1
    <3>1. \A j \in 1..d : places[j] \in 1..n
      <4> TAKE j \in 1..d
      <4>1. places[j] \in 1..(n + 1) /\ places[j] # n + 1
        BY <2>4, <2>8, <2>d
      <4> QED
        BY <4>1
    <3>2. g[n + 1] = <<>>
      <4>1. n + 1 \in 1..(n + 1)
        OBVIOUS
      <4> QED
        BY <2>8, <2>d, <4>1 DEF Selects
    <3>3. Selects(places, b)
      <4>1. ASSUME NEW i \in 1..n PROVE (\E j \in 1..d : places[j] = i) \/ b[i] = <<>>
        <5>1. i \in 1..(n + 1)
          OBVIOUS
        <5>2. (\E j \in 1..d : places[j] = i) \/ g[i] = <<>>
          BY <2>d, <5>1 DEF Selects
        <5> QED
          BY <2>1, <5>2
      <4>2. \A j, k \in 1..d : j < k => places[j] < places[k]
        BY <2>d DEF Selects
      <4> QED
        BY <2>1, <2>d, <3>1, <4>1, <4>2 DEF Selects
    <3>4. Selected(places, g) = Selected(places, b)
      <4>1. \A j \in 1..Len(places) : g[places[j]] = b[places[j]]
        BY <2>1, <2>d, <3>1
      <4> QED
        BY <4>1 DEF Selected
    <3>5. FlattenSeq(b) = FlattenSeq(Selected(places, b))
      BY <2>3, <3>3
    <3>6. FlattenSeq(b) \o <<>> = FlattenSeq(b)
      <4>1. FlattenSeq(b) \in Seq(S)
        BY FlattenTyped
      <4> QED
        BY <4>1, ConcatEmptySeq
    <3> QED
      BY <2>2, <3>2, <3>4, <3>5, <3>6
  <2> QED
    BY <2>7, <2>8
<1>3. Nat \subseteq M
  <2> HIDE DEF M
  <2> QED
    BY <1>1, <1>2, EveryNat
<1> QED
  <2> SUFFICES ASSUME NEW g \in Seq(Seq(S)), NEW places \in Seq(Nat), Selects(places, g)
               PROVE  FlattenSeq(g) = FlattenSeq(Selected(places, g))
    OBVIOUS
  <2>1. Len(g) \in Nat
    BY LenProperties
  <2>2. Len(g) \in M
    BY <1>3, <2>1
  <2> QED
    BY <2>2

----------------------------------------------------------------------------
(* The path, decoded.                                                      *)

Decodable(s) == s \in Seq(Symbols) /\ \A i \in 1..Len(s) : s[i] \notin Bad

LEMMA DecodeIs ==
  ASSUME NEW s, Decodable(s)
  PROVE  /\ decode(s) \in Text /\ Len(decode(s)) = Len(s) /\ Len(s) \in Nat
         /\ \A i \in 1..Len(s) : decode(s)[i] = Meaning[s[i]]
<1>1. s \in Seq(Symbols) /\ \A i \in 1..Len(s) : s[i] \notin Bad
  BY DEF Decodable
<1>2. decode(s) \in Text
  BY <1>1, DecodeTyped
<1>3. Len(s) \in Nat /\ DOMAIN s = 1..Len(s)
  BY <1>1, LenProperties
<1> DEFINE d == [i \in 1..Len(s) |-> Meaning[s[i]]]
<1>4. decode(s) = d
  BY <1>3 DEF decode
<1>5. Len(d) = Len(s) /\ \A i \in 1..Len(s) : d[i] = Meaning[s[i]]
  BY <1>3
<1> QED
  BY <1>2, <1>3, <1>4, <1>5

LEMMA RootedIs ==
  ASSUME NEW s, Decodable(s)
  PROVE  /\ Rooted(s) \in Text /\ Len(Rooted(s)) = Len(s) + 1 /\ Len(s) \in Nat
         /\ Rooted(s)[1] = "/" /\ \A i \in 1..Len(s) : Rooted(s)[i + 1] = Meaning[s[i]]
<1>d. PICK d : d = decode(s)
  OBVIOUS
<1>1. /\ d \in Seq(Character) /\ Len(d) = Len(s) /\ Len(s) \in Nat
      /\ \A i \in 1..Len(s) : d[i] = Meaning[s[i]]
  BY <1>d, DecodeIs DEF Text
<1>2. <<"/">> \in Seq(Character) /\ Len(<<"/">>) = 1 /\ <<"/">>[1] = "/"
  BY RoutingAssumption DEF RoutingAssumption
<1>t. PICK t : t = <<"/">> \o d
  OBVIOUS
<1>3. /\ t \in Seq(Character) /\ Len(t) = 1 + Len(s)
      /\ \A i \in 1..(1 + Len(s)) : t[i] = IF i <= 1 THEN <<"/">>[i] ELSE d[i - 1]
  BY <1>1, <1>2, <1>t, ConcatProperties
<1>4. t[1] = "/"
  BY <1>1, <1>2, <1>3
<1>5. ASSUME NEW i \in 1..Len(s) PROVE t[i + 1] = Meaning[s[i]]
  <2>1. i + 1 \in 1..(1 + Len(s)) /\ ~(i + 1 <= 1) /\ (i + 1) - 1 = i
    BY <1>1
  <2> QED
    BY <1>1, <1>3, <2>1
<1>6. Rooted(s) = t
  BY <1>d, <1>t DEF Rooted
<1> QED
  BY <1>1, <1>3, <1>4, <1>5, <1>6 DEF Text

\* A part of a text that can be decoded.
LEMMA PartDecodable ==
  ASSUME NEW s, Decodable(s), NEW a \in 1..(Len(s) + 1), NEW b \in 0..Len(s)
  PROVE  /\ Decodable(SubSeq(s, a, b)) /\ (a <= b => Len(SubSeq(s, a, b)) = b - a + 1)
         /\ (b < a => Len(SubSeq(s, a, b)) = 0)
         /\ \A i \in 1..(b - a + 1) : SubSeq(s, a, b)[i] = s[a + i - 1]
<1>1. Len(s) \in Nat /\ \A i \in 1..Len(s) : s[i] \in Symbols /\ s[i] \notin Bad
  BY LenProperties, ElementOfSeq DEF Decodable
<1>2. a \in Int /\ b \in Int /\ \A i \in a..b : s[i] \in Symbols
  BY <1>1
<1>p. PICK p : p = SubSeq(s, a, b)
  OBVIOUS
<1>3. /\ p \in Seq(Symbols) /\ Len(p) = IF a <= b THEN b - a + 1 ELSE 0
      /\ \A i \in 1..(b - a + 1) : p[i] = s[a + i - 1]
  BY <1>2, <1>p, SubSeqProperties
<1>4. ASSUME NEW i \in 1..Len(p) PROVE p[i] \notin Bad
  <2>1. i \in 1..(b - a + 1)
    BY <1>2, <1>3
  <2>2. a + i - 1 \in 1..Len(s)
    BY <1>1, <2>1
  <2> QED
    BY <1>1, <1>3, <2>1, <2>2
<1>5. Decodable(p)
  BY <1>3, <1>4 DEF Decodable
<1>6. (a <= b => Len(p) = b - a + 1) /\ (b < a => Len(p) = 0)
  BY <1>2, <1>3
<1> QED
  BY <1>3, <1>5, <1>6, <1>p

\* What the loop of decodeAndNormalize appends.
LEMMA RootedJoin ==
  ASSUME NEW s, Decodable(s), NEW k \in 1..Len(s), s[k] = "/"
  PROVE  (Rooted(SubSeq(s, 1, k - 1)) \o <<"/">>) \o decode(SubSeq(s, k + 1, Len(s))) = Rooted(s)
<1>1. Len(s) \in Nat /\ k \in Nat /\ k >= 1 /\ k <= Len(s)
  BY LenProperties DEF Decodable
<1>a. PICK a : a = SubSeq(s, 1, k - 1)
  OBVIOUS
<1>b. PICK b : b = SubSeq(s, k + 1, Len(s))
  OBVIOUS
<1>2. Decodable(a) /\ Len(a) = k - 1 /\ \A i \in 1..(k - 1) : a[i] = s[i]
  <2>1. 1 \in 1..(Len(s) + 1) /\ k - 1 \in 0..Len(s)
    BY <1>1
  <2>2. /\ Decodable(a) /\ (1 <= k - 1 => Len(a) = (k - 1) - 1 + 1)
        /\ (k - 1 < 1 => Len(a) = 0) /\ \A i \in 1..((k - 1) - 1 + 1) : a[i] = s[1 + i - 1]
    BY <1>a, <2>1, PartDecodable
  <2>3. ASSUME NEW i \in 1..(k - 1) PROVE a[i] = s[i]
    <3>1. i \in 1..((k - 1) - 1 + 1) /\ 1 + i - 1 = i
      BY <1>1
    <3> QED
      BY <2>2, <3>1
  <2> QED
    BY <1>1, <2>2, <2>3
<1>3. Decodable(b) /\ Len(b) = Len(s) - k /\ \A i \in 1..(Len(s) - k) : b[i] = s[k + i]
  <2>1. k + 1 \in 1..(Len(s) + 1) /\ Len(s) \in 0..Len(s)
    BY <1>1
  <2>2. /\ Decodable(b) /\ (k + 1 <= Len(s) => Len(b) = Len(s) - (k + 1) + 1)
        /\ (Len(s) < k + 1 => Len(b) = 0)
        /\ \A i \in 1..(Len(s) - (k + 1) + 1) : b[i] = s[(k + 1) + i - 1]
    BY <1>b, <2>1, PartDecodable
  <2>3. ASSUME NEW i \in 1..(Len(s) - k) PROVE b[i] = s[k + i]
    <3>1. i \in 1..(Len(s) - (k + 1) + 1) /\ (k + 1) + i - 1 = k + i
      BY <1>1
    <3> QED
      BY <2>2, <3>1
  <2> QED
    BY <1>1, <2>2, <2>3
<1>x. PICK x : x = Rooted(a)
  OBVIOUS
<1>y. PICK y : y = decode(b)
  OBVIOUS
<1>z. PICK z : z = Rooted(s)
  OBVIOUS
<1>4. /\ x \in Seq(Character) /\ Len(x) = k /\ x[1] = "/"
      /\ \A i \in 1..(k - 1) : x[i + 1] = Meaning[s[i]]
  <2>1. /\ x \in Text /\ Len(x) = Len(a) + 1 /\ x[1] = "/"
        /\ \A i \in 1..Len(a) : x[i + 1] = Meaning[a[i]]
    BY <1>2, <1>x, RootedIs
  <2> QED
    BY <1>1, <1>2, <2>1 DEF Text
<1>5. /\ y \in Seq(Character) /\ Len(y) = Len(s) - k
      /\ \A i \in 1..(Len(s) - k) : y[i] = Meaning[s[k + i]]
  <2>1. y \in Text /\ Len(y) = Len(b) /\ \A i \in 1..Len(b) : y[i] = Meaning[b[i]]
    BY <1>3, <1>y, DecodeIs
  <2> QED
    BY <1>1, <1>3, <2>1 DEF Text
<1>6. /\ z \in Seq(Character) /\ Len(z) = Len(s) + 1 /\ z[1] = "/"
      /\ \A i \in 1..Len(s) : z[i + 1] = Meaning[s[i]]
  BY <1>z, RootedIs DEF Text
<1>7. <<"/">> \in Seq(Character) /\ Len(<<"/">>) = 1 /\ <<"/">>[1] = "/" /\ Meaning["/"] = "/"
  BY RoutingAssumption DEF RoutingAssumption
<1>u. PICK u : u = x \o <<"/">>
  OBVIOUS
<1>8. /\ u \in Seq(Character) /\ Len(u) = k + 1
      /\ \A i \in 1..(k + 1) : u[i] = IF i <= k THEN x[i] ELSE <<"/">>[i - k]
  BY <1>4, <1>7, <1>u, ConcatProperties
<1>v. PICK v : v = u \o y
  OBVIOUS
<1>9. /\ v \in Seq(Character) /\ Len(v) = (k + 1) + (Len(s) - k)
      /\ \A i \in 1..((k + 1) + (Len(s) - k)) : v[i] = IF i <= k + 1 THEN u[i] ELSE y[i - (k + 1)]
  <2>1. /\ v \in Seq(Character) /\ Len(v) = Len(u) + Len(y)
        /\ \A i \in 1..(Len(u) + Len(y)) : v[i] = IF i <= Len(u) THEN u[i] ELSE y[i - Len(u)]
    BY <1>5, <1>8, <1>v, ConcatProperties
  <2>2. Len(u) = k + 1 /\ Len(y) = Len(s) - k
    BY <1>5, <1>8
  <2> QED
    BY <2>1, <2>2
<1>10. Len(v) = Len(s) + 1 /\ (k + 1) + (Len(s) - k) = Len(s) + 1
  BY <1>1, <1>9
<1>11. ASSUME NEW i \in 1..(Len(s) + 1) PROVE v[i] = z[i]
  <2>0. i \in Nat /\ i >= 1 /\ i <= Len(s) + 1 /\ v[i] = IF i <= k + 1 THEN u[i] ELSE y[i - (k + 1)]
    BY <1>1, <1>9, <1>10
  <2>1. CASE i = 1
    <3>1. i \in 1..(k + 1) /\ i <= k /\ i <= k + 1
      BY <1>1, <2>1
    <3> QED
      BY <1>4, <1>6, <1>8, <2>0, <2>1, <3>1
  <2>2. CASE i > 1 /\ i <= k
    <3>1. i \in 1..(k + 1) /\ i <= k + 1 /\ i - 1 \in 1..(k - 1) /\ i - 1 \in 1..Len(s)
          /\ (i - 1) + 1 = i
      BY <1>1, <2>0, <2>2
    <3>2. v[i] = x[i]
      BY <1>8, <2>0, <2>2, <3>1
    <3>3. x[i] = Meaning[s[i - 1]]
      BY <1>4, <3>1
    <3>4. z[i] = Meaning[s[i - 1]]
      BY <1>6, <3>1
    <3> QED
      BY <3>2, <3>3, <3>4
  <2>3. CASE i = k + 1
    <3>1. i \in 1..(k + 1) /\ ~(i <= k) /\ i <= k + 1 /\ i - k = 1
      BY <1>1, <2>3
    <3>2. v[i] = "/"
      BY <1>7, <1>8, <2>0, <3>1
    <3>3. z[i] = Meaning[s[k]]
      BY <1>6, <2>3
    <3> QED
      BY <1>7, <3>2, <3>3
  <2>4. CASE i > k + 1
    <3>1. /\ i - (k + 1) \in 1..(Len(s) - k) /\ k + (i - (k + 1)) = i - 1
          /\ i - 1 \in 1..Len(s) /\ (i - 1) + 1 = i /\ ~(i <= k + 1)
      BY <1>1, <2>0, <2>4
    <3>2. v[i] = y[i - (k + 1)]
      BY <2>0, <3>1
    <3>3. y[i - (k + 1)] = Meaning[s[i - 1]]
      BY <1>5, <3>1
    <3>4. z[i] = Meaning[s[i - 1]]
      BY <1>6, <3>1
    <3> QED
      BY <3>2, <3>3, <3>4
  <2> QED
    BY <1>1, <2>0, <2>1, <2>2, <2>3, <2>4
<1>12. v = z
  BY <1>6, <1>9, <1>10, <1>11, SeqEqual
<1> QED
  BY <1>12, <1>a, <1>b, <1>u, <1>v, <1>x, <1>y, <1>z

----------------------------------------------------------------------------
(* The invariant of the two loops.                                         *)

\* Nothing is decoded or on the stack before its loop begins.
Begun ==
  /\ pc \in {"validateURI", "decode"} => segments = <<>>
  /\ pc = "validateURI" => decoded = <<>>

\* hasTrailingSlash is what its name says.
SlashKept == pc \in {"decode", "normalize"} => (slash <=> Last(uri.text) = "/")

\* The path made of the first n symbols of a text: they end with a segment.
Beginning(text, n) ==
  IF n = 0 THEN <<>> ELSE Rooted(SubSeq(text, 1, IF text[n] = "/" THEN n - 1 ELSE n))
DecodedTo(n) ==
  /\ rest = SubSeq(uri.text, n + 1, Len(uri.text))
  /\ decoded = Beginning(uri.text, n)
  /\ n \in 1..(Len(uri.text) - 1) => uri.text[n] = "/"
  /\ \A i \in 1..n : uri.text[i] \notin Bad
DecodedSoFar == pc = "decode" => \E n \in 0..Len(uri.text) : DecodedTo(n)

\* The stack holds the pieces of the path at the places of the names kept so far.
PiecesAt(t, places) == [j \in 1..Len(places) |-> Piece(t, places[j])]
StackAt(p, places) ==
  /\ rest = SubSeq(decoded, p, Len(decoded))
  /\ p <= Len(decoded) => p \in Starts(decoded)
  /\ IsStack(places, Names(decoded), Ups(decoded), p)
  /\ segments = PiecesAt(decoded, places)
StackSoFar ==
  pc = "normalize" =>
    /\ decoded = Path(uri.text)
    /\ \E p \in 1..(Len(decoded) + 1) : \E places \in Seq(Nat) : StackAt(p, places)

NormalInv ==
  /\ Begun
  /\ uri.text # <<>> => SlashKept /\ DecodedSoFar /\ StackSoFar
  /\ NormalAsDefined
LEMMA PartOfBeginning ==
  ASSUME NEW S, NEW t \in Seq(S), NEW e \in 0..Len(t), NEW a \in 1..(e + 1), NEW b \in 0..e
  PROVE  SubSeq(SubSeq(t, 1, e), a, b) = SubSeq(t, a, b)
<1>1. Len(t) \in Nat /\ e \in Nat /\ a \in Nat /\ b \in Nat
  BY LenProperties
<1>2. CASE b < a
  <2>1. SubSeq(SubSeq(t, 1, e), a, b) = <<>>
    BY <1>1, <1>2, SubSeqEmpty
  <2>2. SubSeq(t, a, b) = <<>>
    BY <1>1, <1>2, SubSeqEmpty
  <2> QED
    BY <2>1, <2>2
<1>3. CASE a <= b
  <2>1. /\ a \in 1..(e - 1 + 1) /\ b \in 1..(e - 1 + 1) /\ 1 \in 1..Len(t) /\ e \in 1..Len(t)
    BY <1>1, <1>3
  <2>2. SubSeq(SubSeq(t, 1, e), a, b) = SubSeq(t, 1 + a - 1, 1 + b - 1)
    BY <2>1, SubSeqOfSubSeq
  <2>3. 1 + a - 1 = a /\ 1 + b - 1 = b
    BY <1>1
  <2> QED
    BY <2>2, <2>3
<1> QED
  BY <1>1, <1>2, <1>3

\* A whole text is its own beginning and its own end.
LEMMA Whole ==
  ASSUME NEW S, NEW t \in Seq(S)
  PROVE  SubSeq(t, 1, Len(t)) = t
BY SubSeqFull

\* What is left of a text is nothing only at its end.
LEMMA NothingLeft ==
  ASSUME NEW S, NEW t \in Seq(S), NEW p \in 1..(Len(t) + 1)
  PROVE  SubSeq(t, p, Len(t)) = <<>> <=> p = Len(t) + 1
<1>1. Len(t) \in Nat /\ p \in Nat
  BY LenProperties
<1>2. Len(SubSeq(t, p, Len(t))) = Len(t) + 1 - p /\ SubSeq(t, p, Len(t)) \in Seq(S)
  BY EndOf
<1>3. SubSeq(t, p, Len(t)) = <<>> <=> Len(t) + 1 - p = 0
  BY <1>2, EmptySeq
<1> QED
  BY <1>1, <1>3

LEMMA PathIs ==
  ASSUME NEW t \in Seq(Symbols), t # <<>>
  PROVE  Path(t) = Beginning(t, Len(t)) /\ Len(t) \in Nat \ {0}
<1>1. Len(t) \in Nat \ {0}
  BY EmptySeq
<1>2. SubSeq(t, 1, Len(t)) = t
  BY Whole
<1> QED
  BY <1>1, <1>2 DEF Path, Beginning, Last, Front

LEMMA BeginningDecodable ==
  ASSUME NEW t \in Seq(Symbols), NEW n \in 0..Len(t), \A i \in 1..n : t[i] \notin Bad,
         NEW e \in 0..n
  PROVE  Decodable(SubSeq(t, 1, e)) /\ Len(SubSeq(t, 1, e)) = e
         /\ \A i \in 1..e : SubSeq(t, 1, e)[i] = t[i]
<1>1. Len(t) \in Nat /\ e \in Nat /\ n \in Nat /\ e <= n /\ \A i \in 1..e : t[i] \in Symbols
  BY LenProperties, ElementOfSeq
<1>2. /\ SubSeq(t, 1, e) \in Seq(Symbols) /\ Len(SubSeq(t, 1, e)) = IF 1 <= e THEN e - 1 + 1 ELSE 0
      /\ \A i \in 1..(e - 1 + 1) : SubSeq(t, 1, e)[i] = t[1 + i - 1]
  BY <1>1, SubSeqProperties
<1>3. Len(SubSeq(t, 1, e)) = e
  BY <1>1, <1>2
<1>4. \A i \in 1..e : SubSeq(t, 1, e)[i] = t[i]
  <2> TAKE i \in 1..e
  <2>1. i \in 1..(e - 1 + 1) /\ 1 + i - 1 = i
    BY <1>1
  <2> QED
    BY <1>2, <2>1
<1>5. \A i \in 1..e : t[i] \notin Bad
  BY <1>1
<1> QED
  BY <1>2, <1>3, <1>4, <1>5 DEF Decodable

\* The path of a text is a text, and not empty.
LEMMA BeginningTyped ==
  ASSUME NEW t \in Seq(Symbols), NEW n \in 1..Len(t), \A i \in 1..n : t[i] \notin Bad
  PROVE  Beginning(t, n) \in Text /\ Len(Beginning(t, n)) \in Nat \ {0}
<1>e. PICK e : e = IF t[n] = "/" THEN n - 1 ELSE n
  OBVIOUS
<1>1. Len(t) \in Nat /\ n \in Nat \ {0} /\ e \in 0..n /\ n \in 0..Len(t)
  BY <1>e, LenProperties
<1>s. PICK s : s = SubSeq(t, 1, e)
  OBVIOUS
<1>2. Decodable(s)
  BY <1>1, <1>s, BeginningDecodable
<1>3. Rooted(s) \in Text /\ Len(Rooted(s)) = Len(s) + 1 /\ Len(s) \in Nat
  BY <1>2, RootedIs
<1>4. Beginning(t, n) = Rooted(s)
  BY <1>1, <1>e, <1>s DEF Beginning
<1>5. Len(Rooted(s)) \in Nat \ {0}
  BY <1>3
<1> QED
  BY <1>3, <1>4, <1>5

\* A round of the loop of decodeAndNormalize makes the path of a longer beginning.
LEMMA BeginningNext ==
  ASSUME NEW t \in Seq(Symbols), NEW n \in 0..(Len(t) - 1), n \in 1..(Len(t) - 1) => t[n] = "/",
         \A i \in 1..n : t[i] \notin Bad,
         NEW c \in Cuts(SubSeq(t, n + 1, Len(t))),
         \A i \in 1..(c - 1) : SubSeq(t, n + 1, Len(t))[i] \notin Bad
  PROVE  \E m \in 0..Len(t) :
           /\ After(SubSeq(t, n + 1, Len(t)), c) = SubSeq(t, m + 1, Len(t))
           /\ Beginning(t, n) \o <<"/">> \o decode(Before(SubSeq(t, n + 1, Len(t)), c)) = Beginning(t, m)
           /\ m \in 1..(Len(t) - 1) => t[m] = "/"
           /\ \A i \in 1..m : t[i] \notin Bad
<1>p. PICK p : p = n + 1
  OBVIOUS
<1>r. PICK r : r = SubSeq(t, p, Len(t))
  OBVIOUS
<1>e. PICK e : e = p + c - 2
  OBVIOUS
<1>1. Len(t) \in Nat /\ n \in Nat /\ p \in 1..Len(t) /\ p \in Nat /\ p - 1 = n /\ p \in 1..(Len(t) + 1)
  BY <1>p, LenProperties
<1>2. /\ r \in Seq(Symbols) /\ Len(r) = Len(t) + 1 - p
      /\ \A i \in 1..(Len(t) + 1 - p) : r[i] = t[p + i - 1]
  BY <1>1, <1>r, EndOf
<1>c. c \in Cuts(SubSeq(t, p, Len(t)))
  BY <1>p
<1>3. PICK q \in 1..(Len(t) + 1) :
        /\ p < q /\ After(r, c) = SubSeq(t, q, Len(t))
        /\ \/ q = p + c /\ t[q - 1] = "/"
           \/ q = p + c - 1 /\ q = Len(t) + 1 /\ t[Len(t)] # "/"
  BY <1>1, <1>r, <1>c, CutIsPiece
<1>4. Before(r, c) = SubSeq(t, p, e)
  BY <1>1, <1>r, <1>c, <1>e, CutIsPiece
<1>5. c \in Nat /\ c >= 1 /\ c <= Len(t) + 2 - p /\ \A i \in 1..(c - 1) : r[i] \notin Bad
  <2>1. c \in 1..(Len(r) + 1)
    BY <1>c, <1>r DEF Cuts
  <2>2. Len(r) + 1 = Len(t) + 2 - p
    BY <1>1, <1>2
  <2>3. \A i \in 1..(c - 1) : r[i] \notin Bad
    BY <1>p, <1>r
  <2> QED
    BY <1>1, <2>1, <2>2, <2>3
<1>m. PICK m : m = q - 1
  OBVIOUS
<1>6. m \in Nat /\ m \in 0..Len(t) /\ m \in 1..Len(t) /\ q = m + 1 /\ e \in Nat /\ e >= n /\ e <= m
  BY <1>1, <1>3, <1>5, <1>e, <1>m
<1>7. (m = e + 1 /\ t[m] = "/") \/ (m = e /\ m = Len(t) /\ t[m] # "/")
  BY <1>1, <1>3, <1>5, <1>6, <1>e, <1>m
<1>8. ASSUME NEW i \in 1..m PROVE t[i] \notin Bad
  <2>1. CASE i \in 1..n
    BY <2>1
  <2>2. CASE i \in p..e
    <3>1. i - p + 1 \in 1..(c - 1) /\ i - p + 1 \in 1..(Len(t) + 1 - p) /\ p + (i - p + 1) - 1 = i
      BY <1>1, <1>5, <1>6, <1>e, <2>2
    <3> QED
      BY <1>2, <1>5, <3>1
  <2>3. CASE m = e + 1 /\ t[m] = "/" /\ i = m
    <3>1. "/" \notin Bad
      BY RoutingAssumption DEF RoutingAssumption
    <3> QED
      BY <2>3, <3>1
  <2> QED
    BY <1>1, <1>6, <1>7, <2>1, <2>2, <2>3
<1>9. Beginning(t, m) = Rooted(SubSeq(t, 1, e))
  <2>1. m # 0 /\ (t[m] = "/" => m - 1 = e) /\ (t[m] # "/" => m = e)
    BY <1>6, <1>7
  <2>2. CASE t[m] = "/"
    BY <2>1, <2>2 DEF Beginning
  <2>3. CASE t[m] # "/"
    BY <2>1, <2>3 DEF Beginning
  <2> QED
    BY <2>2, <2>3
<1>s. PICK s : s = SubSeq(t, 1, e)
  OBVIOUS
<1>10. Decodable(s) /\ Len(s) = e /\ \A i \in 1..e : s[i] = t[i]
  <2>1. e \in 0..m /\ \A i \in 1..m : t[i] \notin Bad
    BY <1>6, <1>8
  <2> QED
    BY <1>6, <1>s, <2>1, BeginningDecodable
<1>11. Beginning(t, n) \o <<"/">> \o decode(Before(r, c)) = Rooted(s)
  <2>1. CASE n = 0
    <3>1. Beginning(t, n) = <<>>
      BY <2>1 DEF Beginning
    <3>2. p = 1
      BY <1>p, <2>1
    <3>3. <<>> \o <<"/">> = <<"/">>
      <4>1. <<"/">> \in Seq(Character)
        BY RoutingAssumption DEF RoutingAssumption
      <4> QED
        BY <4>1, ConcatEmptySeq
    <3> QED
      BY <1>4, <1>s, <3>1, <3>2, <3>3 DEF Rooted
  <2>2. CASE n # 0
    <3>1. /\ n \in 1..e /\ n \in 1..(Len(t) - 1) /\ t[n] = "/" /\ e \in 0..Len(t)
          /\ 1 \in 1..(e + 1) /\ n - 1 \in 0..e /\ n + 1 \in 1..(e + 1) /\ e \in 0..e
      BY <1>1, <1>6, <2>2
    <3>2. (Rooted(SubSeq(s, 1, n - 1)) \o <<"/">>) \o decode(SubSeq(s, n + 1, Len(s))) = Rooted(s)
      <4>1. n \in 1..Len(s) /\ s[n] = "/"
        BY <1>10, <3>1
      <4> QED
        BY <1>10, <4>1, RootedJoin
    <3>3. SubSeq(s, 1, n - 1) = SubSeq(t, 1, n - 1)
      BY <1>s, <3>1, PartOfBeginning
    <3>4. SubSeq(s, n + 1, e) = SubSeq(t, n + 1, e)
      BY <1>s, <3>1, PartOfBeginning
    <3>5. Beginning(t, n) = Rooted(SubSeq(s, 1, n - 1))
      BY <2>2, <3>1, <3>3 DEF Beginning
    <3>6. decode(Before(r, c)) = decode(SubSeq(s, n + 1, Len(s)))
      BY <1>4, <1>10, <1>p, <3>4
    <3> QED
      BY <3>2, <3>5, <3>6
  <2> QED
    BY <2>1, <2>2
<1>12. m \in 1..(Len(t) - 1) => t[m] = "/"
  BY <1>1, <1>6, <1>7
<1> QED
  BY <1>3, <1>6, <1>8, <1>9, <1>11, <1>12, <1>p, <1>r, <1>s

\* A piece of a text.
LEMMA PieceTyped ==
  ASSUME NEW S, NEW t \in Seq(S), NEW i \in 1..Len(t)
  PROVE  Piece(t, i) \in Seq(S)
<1>M. PICK M : M = {j \in i..Len(t) : t[j] = "/"} \cup {Len(t) + 1}
  OBVIOUS
<1>1. Len(t) \in Nat /\ i \in Nat /\ i >= 1 /\ i <= Len(t) /\ \A j \in 1..Len(t) : t[j] \in S
  BY LenProperties, ElementOfSeq
<1>2. M \in SUBSET Nat /\ M # {} /\ \A y \in M : i <= y /\ y <= Len(t) + 1
  <2>1. ASSUME NEW y \in M PROVE y \in Nat /\ i <= y /\ y <= Len(t) + 1
    BY <1>1, <1>M
  <2>2. Len(t) + 1 \in M
    BY <1>M
  <2> QED
    BY <2>1, <2>2
<1>3. PICK e \in M : \A y \in M : e <= y
  BY <1>2, LeastNat
<1>4. Min(M) = e
  BY <1>2, <1>3, MinIs
<1>5. e \in Nat /\ i <= e /\ e <= Len(t) + 1
  BY <1>2, <1>3
<1>6. Piece(t, i) = SubSeq(t, i, e - 1)
  BY <1>4, <1>M DEF Piece
<1>7. i \in Int /\ e - 1 \in Int /\ \A j \in i..(e - 1) : t[j] \in S
  BY <1>1, <1>5
<1>8. SubSeq(t, i, e - 1) \in Seq(S)
  BY <1>7, SubSeqProperties
<1> QED
  BY <1>6, <1>8

\* The names and the ".." of a text are places in it.
LEMMA PlacesTyped ==
  ASSUME NEW t, Len(t) \in Nat
  PROVE  /\ Names(t) \in SUBSET Nat /\ Ups(t) \in SUBSET Nat
         /\ Names(t) \subseteq Starts(t) /\ Ups(t) \subseteq Starts(t)
         /\ Starts(t) \subseteq 1..Len(t)
<1>1. Starts(t) \subseteq 1..Len(t)
  BY DEF Starts
<1>2. 1..Len(t) \subseteq Nat
  OBVIOUS
<1>3. Names(t) \subseteq Starts(t) /\ Ups(t) \subseteq Starts(t)
  BY DEF Names, Ups
<1> QED
  BY <1>1, <1>2, <1>3

\* What a round of the loop of normalize makes of the stack.
LEMMA StackNext ==
  ASSUME NEW t \in Seq(Character), NEW p \in Starts(t), NEW places \in Seq(Nat),
         IsStack(places, Names(t), Ups(t), p), NEW q \in Nat, p < q,
         \A k \in Starts(t) : ~(p < k /\ k < q)
  PROVE  \E more \in Seq(Nat) :
           /\ IsStack(more, Names(t), Ups(t), q)
           /\ Normalized(PiecesAt(t, places), Piece(t, p)) = PiecesAt(t, more)
<1>1. Len(t) \in Nat /\ p \in Nat /\ Names(t) \in SUBSET Nat /\ Ups(t) \in SUBSET Nat
  BY PlacesTyped, LenProperties
<1>2. \A k \in Names(t) \cup Ups(t) : ~(p < k /\ k < q)
  BY <1>1, PlacesTyped
<1>3. p \in Names(t) <=> Piece(t, p) \notin {Dot, DotDot}
  BY DEF Names
<1>4. p \in Ups(t) <=> Piece(t, p) = DotDot
  BY DEF Ups
<1>5. Dot # DotDot
  BY DEF Dot, DotDot
<1>d. PICK d : d = Len(places)
  OBVIOUS
<1>6. d \in Nat
  BY <1>d, LenProperties
<1>s. PICK s : s = PiecesAt(t, places)
  OBVIOUS
<1>7. s = [j \in 1..d |-> Piece(t, places[j])]
  BY <1>d, <1>s DEF PiecesAt
<1>8. CASE Piece(t, p) = Dot
  <2>1. p \notin Names(t) /\ p \notin Ups(t)
    BY <1>3, <1>4, <1>5, <1>8
  <2>2. IsStack(places, Names(t), Ups(t), q)
    BY <1>1, <1>2, <2>1, StackStays
  <2>3. Normalized(s, Piece(t, p)) = s
    BY <1>5, <1>8 DEF Normalized
  <2> QED
    BY <1>s, <2>2, <2>3
<1>9. CASE Piece(t, p) = DotDot
  <2>1. p \notin Names(t) /\ p \in Ups(t)
    BY <1>3, <1>4, <1>9
  <2>f. PICK fewer : fewer = IF places = <<>> THEN <<>> ELSE Front(places)
    OBVIOUS
  <2>2. IsStack(fewer, Names(t), Ups(t), q)
    BY <1>1, <1>2, <2>1, <2>f, StackPop
  <2>3. fewer \in Seq(Nat)
    BY <2>2 DEF IsStack
  <2>4. Normalized(s, Piece(t, p)) = IF s = <<>> THEN s ELSE Front(s)
    BY <1>5, <1>9 DEF Normalized
  <2>5. (IF s = <<>> THEN s ELSE Front(s)) = PiecesAt(t, fewer)
    <3>1. CASE d = 0
      <4>1. places = <<>> /\ fewer = <<>>
        BY <1>d, <2>f, <3>1, EmptySeq
      <4>2. s = <<>>
        BY <1>7, <3>1
      <4>3. PiecesAt(t, fewer) = s
        BY <1>s, <4>1
      <4> QED
        BY <4>2, <4>3
    <3>2. CASE d # 0
      <4>c. PICK c \in Nat : d = c + 1
        <5>1. d - 1 \in Nat /\ d = (d - 1) + 1
          BY <1>6, <3>2
        <5> QED
          BY <5>1
      <4>1. places # <<>>
        BY <1>d, <3>2, EmptySeq
      <4>2. Len(fewer) = c /\ \A j \in 1..c : fewer[j] = places[j]
        <5>1. Len(places) - 1 = c
          BY <1>d, <4>c
        <5>2. /\ Len(Front(places)) = Len(places) - 1
              /\ \A j \in 1..(Len(places) - 1) : Front(places)[j] = places[j]
          BY <4>1, FrontAndLast
        <5> QED
          BY <2>f, <4>1, <5>1, <5>2
      <4>3. DOMAIN s = 1..d /\ Len(s) = d /\ s # <<>>
        BY <1>6, <1>7, <3>2
      <4>4. Front(s) = [j \in 1..c |-> s[j]]
        <5>1. Front(s) = SubSeq(s, 1, c)
          <6>1. d - 1 = c
            BY <4>c
          <6> QED
            BY <4>3, <6>1 DEF Front
        <5> QED
          BY <5>1
      <4>5. \A j \in 1..c : s[j] = Piece(t, fewer[j])
        <5> TAKE j \in 1..c
        <5>1. j \in 1..d
          BY <4>c
        <5> QED
          BY <1>7, <4>2, <5>1
      <4>6. PiecesAt(t, fewer) = [j \in 1..c |-> s[j]]
        BY <4>2, <4>5 DEF PiecesAt
      <4> QED
        BY <4>3, <4>4, <4>6
    <3> QED
      BY <3>1, <3>2
  <2> QED
    BY <1>s, <2>2, <2>3, <2>4, <2>5
<1>10. CASE Piece(t, p) \notin {Dot, DotDot}
  <2>1. p \in Names(t) /\ p \notin Ups(t)
    BY <1>3, <1>4, <1>10
  <2>m. PICK more : more = Append(places, p)
    OBVIOUS
  <2>2. IsStack(more, Names(t), Ups(t), q)
    BY <1>1, <1>2, <2>1, <2>m, StackPush
  <2>3. /\ more \in Seq(Nat) /\ Len(more) = d + 1 /\ more[d + 1] = p
        /\ \A j \in 1..d : more[j] = places[j]
    BY <1>1, <1>d, <2>m, AppendProperties
  <2>4. Normalized(s, Piece(t, p)) = Append(s, Piece(t, p))
    BY <1>10 DEF Normalized
  <2>5. Append(s, Piece(t, p)) = PiecesAt(t, more)
    <3>1. \A j \in 1..d : Piece(t, places[j]) \in Seq(Character)
      <4>1. \A j \in 1..d : places[j] \in Starts(t)
        BY <1>1, <1>d, OnStack, PlacesTyped
      <4> QED
        BY <1>1, <4>1, PieceTyped, PlacesTyped
    <3>2. s \in Seq(Seq(Character)) /\ Len(s) = d
      BY <1>6, <1>7, <3>1
    <3>3. Piece(t, p) \in Seq(Character)
      BY <1>1, PieceTyped, PlacesTyped
    <3>a. PICK a : a = Append(s, Piece(t, p))
      OBVIOUS
    <3>4. /\ a \in Seq(Seq(Character)) /\ Len(a) = d + 1 /\ a[d + 1] = Piece(t, p)
          /\ \A j \in 1..d : a[j] = s[j]
      BY <3>2, <3>3, <3>a, AppendProperties
    <3>5. \A j \in 1..(d + 1) : a[j] = Piece(t, more[j])
      <4> TAKE j \in 1..(d + 1)
      <4>1. j \in 1..d \/ j = d + 1
        BY <1>6
      <4>2. CASE j \in 1..d
        BY <1>7, <2>3, <3>4, <4>2
      <4>3. CASE j = d + 1
        BY <2>3, <3>4, <4>3
      <4> QED
        BY <4>1, <4>2, <4>3
    <3>6. a = [j \in 1..(d + 1) |-> a[j]]
      BY <3>4
    <3> QED
      BY <2>3, <3>5, <3>6, <3>a DEF PiecesAt
  <2> QED
    BY <1>s, <2>2, <2>3, <2>4, <2>5
<1> QED
  BY <1>8, <1>9, <1>10

\* The pieces on the stack at the end are those that survive, and put together they are
\* the names of the normal form.
LEMMA JoinedIs ==
  ASSUME NEW t \in Seq(Character), NEW places \in Seq(Nat),
         IsStack(places, Names(t), Ups(t), Len(t) + 1)
  PROVE  Joined(PiecesAt(t, places)) = FlattenSeq(Surviving(t))
<1>g. PICK g : g = Surviving(t)
  OBVIOUS
<1>s. PICK s : s = PiecesAt(t, places)
  OBVIOUS
<1>d. PICK d : d = Len(places)
  OBVIOUS
<1>l. PICK l : l = Len(t)
  OBVIOUS
<1>1. l \in Nat /\ d \in Nat /\ Names(t) \in SUBSET Nat /\ Ups(t) \in SUBSET Nat /\ l + 1 \in Nat
  BY <1>d, <1>l, LenProperties, PlacesTyped
<1>2. \A i \in 1..l : Piece(t, i) \in Seq(Character)
  BY <1>l, PieceTyped
<1>3. /\ g \in Seq(Seq(Character)) /\ Len(g) = l
      /\ \A i \in 1..l : g[i] = IF Survives(t, i) THEN Component(Piece(t, i)) ELSE <<>>
  <2>1. <<"/">> \in Seq(Character) /\ <<>> \in Seq(Character)
    BY RoutingAssumption, EmptySeq DEF RoutingAssumption
  <2>2. ASSUME NEW x \in Seq(Character) PROVE Component(x) \in Seq(Character)
    BY <2>1, ConcatProperties DEF Component
  <2> DEFINE e(i) == IF Survives(t, i) THEN Component(Piece(t, i)) ELSE <<>>
             h == [i \in 1..l |-> e(i)]
  <2>3. \A i \in 1..l : e(i) \in Seq(Character)
    BY <1>2, <2>1, <2>2
  <2>4. g = h
    BY <1>g, <1>l DEF Surviving
  <2> HIDE DEF e
  <2>5. h \in Seq(Seq(Character)) /\ Len(h) = l /\ \A i \in 1..l : h[i] = e(i)
    BY <1>1, <2>3
  <2> QED
    BY <2>4, <2>5 DEF e
<1>4. ASSUME NEW j \in 1..d
      PROVE  /\ places[j] \in 1..l /\ places[j] \in Nat
             /\ Survives(t, places[j])
  <2>1. places[j] \in Nat /\ places[j] \in Names(t) /\ places[j] \in Kept(Names(t), Ups(t), l + 1)
    BY <1>1, <1>d, <1>l, OnStack
  <2>2. Covered(Names(t), Ups(t), places[j], l + 1)
    BY <2>1 DEF Kept
  <2>3. places[j] \in 1..l
    BY <1>1, <1>l, <2>1, PlacesTyped
  <2> QED
    BY <1>l, <2>1, <2>2, <2>3 DEF Survives
<1>5. Selects(places, g)
  <2>1. \A j, k \in 1..d : j < k => places[j] < places[k]
    BY <1>d DEF IsStack
  <2>2. ASSUME NEW i \in 1..l PROVE (\E j \in 1..d : places[j] = i) \/ g[i] = <<>>
    <3>1. CASE Survives(t, i)
      <4>1. i \in Names(t) /\ Covered(Names(t), Ups(t), i, l + 1)
        BY <1>l, <3>1 DEF Survives
      <4>2. i \in Nat /\ i < l + 1
        BY <1>1
      <4>3. i \in Kept(Names(t), Ups(t), l + 1)
        BY <4>1, <4>2 DEF Kept
      <4> QED
        BY <1>d, <1>l, <4>2, <4>3 DEF IsStack
    <3>2. CASE ~Survives(t, i)
      BY <1>3, <3>2
    <3> QED
      BY <3>1, <3>2
  <2> QED
    BY <1>3, <1>4, <1>d, <2>1, <2>2 DEF Selects
<1>6. FlattenSeq(g) = FlattenSeq(Selected(places, g))
  BY <1>3, <1>5, FlattenSelected
<1>7. DOMAIN s = 1..d /\ \A j \in 1..d : s[j] = Piece(t, places[j])
  BY <1>d, <1>s DEF PiecesAt
<1>8. Selected(places, g) = [j \in DOMAIN s |-> IF s[j] = <<>> THEN <<>> ELSE <<"/">> \o s[j]]
  <2>1. \A j \in 1..d : g[places[j]] = IF s[j] = <<>> THEN <<>> ELSE <<"/">> \o s[j]
    BY <1>3, <1>4, <1>7 DEF Component
  <2> QED
    BY <1>7, <1>d, <2>1 DEF Selected
<1>9. Joined(s) = FlattenSeq(Selected(places, g))
  BY <1>8 DEF Joined
<1> QED
  BY <1>6, <1>9, <1>g, <1>s

LEMMA ValidateURINormal ==
  ASSUME RoutingInv, NormalInv, ValidateURI
  PROVE  NormalInv'
<1>1. /\ pc = "validateURI" /\ uri' = uri /\ decoded' = decoded /\ segments' = segments
      /\ uri.text \in Seq(Symbols) /\ segments = <<>> /\ decoded = <<>>
  BY URITyped DEF ValidateURI, RoutingInv, NormalInv, Begun
<1>2. pc' = "done" \/ (pc' = "decode" /\ rest' = uri.text
                       /\ (uri.text # <<>> => slash' = (Last(uri.text) = "/")))
  BY DEF ValidateURI, Throw
<1>3. CASE pc' = "done"
  BY <1>3 DEF NormalInv, Begun, SlashKept, DecodedSoFar, StackSoFar, NormalAsDefined
<1>4. CASE pc' = "decode" /\ rest' = uri.text /\ (uri.text # <<>> => slash' = (Last(uri.text) = "/"))
  <2>1. Begun'
    BY <1>1, <1>4 DEF Begun
  <2>2. uri'.text # <<>> => SlashKept'
    BY <1>1, <1>4 DEF SlashKept
  <2>3. DecodedSoFar'
    <3>1. 0 \in 0..Len(uri.text) /\ Len(uri.text) \in Nat
      BY <1>1, LenProperties
    <3>2. SubSeq(uri.text, 0 + 1, Len(uri.text)) = uri.text
      BY <1>1, Whole
    <3>3. DecodedTo(0)'
      BY <1>1, <1>4, <3>1, <3>2 DEF DecodedTo, Beginning
    <3> QED
      BY <1>1, <3>1, <3>3 DEF DecodedSoFar
  <2>4. StackSoFar' /\ NormalAsDefined'
    BY <1>4 DEF StackSoFar, NormalAsDefined
  <2> QED
    BY <2>1, <2>2, <2>3, <2>4 DEF NormalInv
<1> QED
  BY <1>2, <1>3, <1>4

LEMMA DecodeSegmentNormal ==
  ASSUME RoutingInv, NormalInv, DecodeSegment
  PROVE  NormalInv'
<1>t. PICK t : t = uri.text
  OBVIOUS
<1>1. /\ pc = "decode" /\ uri' = uri /\ segments' = segments /\ slash' = slash
      /\ t \in Seq(Symbols) /\ segments = <<>> /\ rest # <<>> /\ Len(t) \in Nat
  BY <1>t, URITyped, LenProperties DEF DecodeSegment, RoutingInv, NormalInv, Begun
<1>2. PICK c \in Cuts(rest) :
        /\ IF \E i \in 1..(c - 1) : rest[i] \in Bad
           THEN Throw(400) /\ UNCHANGED decoded
           ELSE decoded' = decoded \o <<"/">> \o decode(Before(rest, c)) /\ UNCHANGED <<pc, status>>
        /\ rest' = After(rest, c)
  BY DEF DecodeSegment
<1>3. CASE \E i \in 1..(c - 1) : rest[i] \in Bad
  <2>1. pc' = "done"
    BY <1>2, <1>3 DEF Throw
  <2> QED
    BY <2>1 DEF NormalInv, Begun, SlashKept, DecodedSoFar, StackSoFar, NormalAsDefined
<1>4. CASE ~\E i \in 1..(c - 1) : rest[i] \in Bad
  <2>1. decoded' = decoded \o <<"/">> \o decode(Before(rest, c)) /\ pc' = pc
    BY <1>2, <1>4
  <2>2. Begun' /\ StackSoFar' /\ NormalAsDefined'
    BY <1>1, <2>1 DEF Begun, StackSoFar, NormalAsDefined
  <2>3. ASSUME uri.text # <<>> PROVE SlashKept' /\ DecodedSoFar'
    <3>1. SlashKept /\ DecodedSoFar
      BY <2>3 DEF NormalInv
    <3>2. SlashKept'
      BY <1>1, <2>1, <3>1 DEF SlashKept
    <3>3. PICK n \in 0..Len(t) : DecodedTo(n)
      BY <1>1, <1>t, <3>1 DEF DecodedSoFar
    <3>4. /\ rest = SubSeq(t, n + 1, Len(t)) /\ decoded = Beginning(t, n)
          /\ n \in 1..(Len(t) - 1) => t[n] = "/"
          /\ \A i \in 1..n : t[i] \notin Bad
      BY <1>t, <3>3 DEF DecodedTo
    <3>5. n \in 0..(Len(t) - 1)
      <4>1. n + 1 \in 1..(Len(t) + 1)
        BY <1>1
      <4>2. n + 1 # Len(t) + 1
        BY <1>1, <3>4, <4>1, NothingLeft
      <4> QED
        BY <1>1, <4>2
    <3>6. \A i \in 1..(c - 1) : rest[i] \notin Bad
      BY <1>4
    <3>7. PICK m \in 0..Len(t) :
            /\ After(rest, c) = SubSeq(t, m + 1, Len(t))
            /\ Beginning(t, n) \o <<"/">> \o decode(Before(rest, c)) = Beginning(t, m)
            /\ m \in 1..(Len(t) - 1) => t[m] = "/"
            /\ \A i \in 1..m : t[i] \notin Bad
      <4>1. c \in Cuts(SubSeq(t, n + 1, Len(t)))
            /\ \A i \in 1..(c - 1) : SubSeq(t, n + 1, Len(t))[i] \notin Bad
        BY <3>4, <3>6
      <4> QED
        BY <1>1, <3>4, <3>5, <4>1, BeginningNext
    <3>8. DecodedTo(m)'
      BY <1>1, <1>2, <1>t, <2>1, <3>4, <3>7 DEF DecodedTo
    <3> QED
      BY <1>1, <1>t, <3>2, <3>8 DEF DecodedSoFar
  <2> QED
    BY <1>1, <2>2, <2>3 DEF NormalInv
<1> QED
  BY <1>3, <1>4

\* The path is decoded to its end when normalize begins, with an empty stack at its
\* first piece.
LEMMA StartNormalizeNormal ==
  ASSUME RoutingInv, NormalInv, StartNormalize
  PROVE  NormalInv'
<1>t. PICK t : t = uri.text
  OBVIOUS
<1>d. PICK d : d = decoded
  OBVIOUS
<1>1. /\ pc = "decode" /\ pc' = "normalize" /\ rest' = decoded /\ rest = <<>>
      /\ uri' = uri /\ segments' = segments /\ slash' = slash /\ decoded' = decoded
      /\ t \in Seq(Symbols) /\ segments = <<>> /\ Len(t) \in Nat
  BY <1>t, URITyped, LenProperties DEF StartNormalize, RoutingInv, NormalInv, Begun
<1>2. Begun' /\ DecodedSoFar' /\ NormalAsDefined'
  BY <1>1 DEF Begun, DecodedSoFar, NormalAsDefined
<1>3. ASSUME uri.text # <<>> PROVE SlashKept' /\ StackSoFar'
  <2>1. SlashKept /\ DecodedSoFar
    BY <1>3 DEF NormalInv
  <2>2. SlashKept'
    BY <1>1, <2>1 DEF SlashKept
  <2>3. PICK n \in 0..Len(t) : DecodedTo(n)
    BY <1>1, <1>t, <2>1 DEF DecodedSoFar
  <2>4. /\ rest = SubSeq(t, n + 1, Len(t)) /\ decoded = Beginning(t, n)
        /\ \A i \in 1..n : t[i] \notin Bad
    BY <1>t, <2>3 DEF DecodedTo
  <2>5. n = Len(t)
    <3>1. n + 1 \in 1..(Len(t) + 1)
      BY <1>1
    <3>2. n + 1 = Len(t) + 1
      BY <1>1, <2>4, <3>1, NothingLeft
    <3> QED
      BY <1>1, <3>2
  <2>6. d = Path(t) /\ Len(t) \in 1..Len(t)
    BY <1>1, <1>3, <1>d, <1>t, <2>4, <2>5, PathIs
  <2>7. d \in Seq(Character) /\ Len(d) \in Nat \ {0}
    <3>1. n \in 1..Len(t)
      BY <2>5, <2>6
    <3> QED
      BY <1>1, <1>d, <2>4, <3>1, BeginningTyped DEF Text
  <2>8. SubSeq(d, 1, Len(d)) = d
    BY <2>7, Whole
  <2>9. 1 \in Starts(d) /\ 1 \in 1..(Len(d) + 1)
    BY <2>7 DEF Starts
  <2>10. IsStack(<<>>, Names(d), Ups(d), 1)
    <3>1. <<>> \in Seq(Nat) /\ Len(<<>>) = 0
      BY EmptySeq
    <3>2. \A i \in Nat : i \notin Kept(Names(d), Ups(d), 1)
      <4>1. Names(d) \subseteq 1..Len(d)
        BY <2>7, PlacesTyped
      <4>2. \A i \in 1..Len(d) : ~(i < 1)
        BY <2>7
      <4> QED
        BY <4>1, <4>2 DEF Kept
    <3> QED
      BY <3>1, <3>2 DEF IsStack
  <2>11. <<>> = PiecesAt(d, <<>>)
    BY DEF PiecesAt
  <2>12. StackAt(1, <<>>)'
    BY <1>1, <1>d, <2>8, <2>9, <2>10, <2>11 DEF StackAt
  <2>13. StackSoFar'
    <3>1. <<>> \in Seq(Nat) /\ 1 \in 1..(Len(decoded') + 1) /\ decoded' = Path(uri'.text)
      BY <1>1, <1>d, <1>t, <2>6, <2>9, EmptySeq
    <3> QED
      BY <2>12, <3>1 DEF StackSoFar
  <2> QED
    BY <2>2, <2>13
<1> QED
  BY <1>1, <1>2, <1>3 DEF NormalInv

LEMMA NormalizeSegmentNormal ==
  ASSUME RoutingInv, NormalInv, NormalizeSegment
  PROVE  NormalInv'
<1>d. PICK d : d = decoded
  OBVIOUS
<1>1. /\ pc = "normalize" /\ pc' = pc /\ uri' = uri /\ slash' = slash /\ decoded' = decoded
      /\ rest # <<>> /\ d \in Seq(Character) /\ Len(d) \in Nat
  BY <1>d, LenProperties DEF NormalizeSegment, RoutingInv, TypeOK, Text
<1>2. PICK c \in Cuts(rest) :
        segments' = Normalized(segments, Before(rest, c)) /\ rest' = After(rest, c)
  BY DEF NormalizeSegment
<1>3. Begun' /\ DecodedSoFar' /\ NormalAsDefined'
  BY <1>1 DEF Begun, DecodedSoFar, NormalAsDefined
<1>4. ASSUME uri.text # <<>> PROVE SlashKept' /\ StackSoFar'
  <2>1. SlashKept /\ StackSoFar
    BY <1>4 DEF NormalInv
  <2>2. SlashKept'
    BY <1>1, <2>1 DEF SlashKept
  <2>3. d = Path(uri.text)
    BY <1>1, <1>d, <2>1 DEF StackSoFar
  <2>4. PICK p \in 1..(Len(d) + 1) : \E places \in Seq(Nat) : StackAt(p, places)
    BY <1>1, <1>d, <2>1 DEF StackSoFar
  <2>5. PICK places \in Seq(Nat) : StackAt(p, places)
    BY <2>4
  <2>6. /\ rest = SubSeq(d, p, Len(d)) /\ (p <= Len(d) => p \in Starts(d))
        /\ IsStack(places, Names(d), Ups(d), p) /\ segments = PiecesAt(d, places)
    BY <1>d, <2>5 DEF StackAt
  <2>7. p \in 1..Len(d) /\ p \in Starts(d)
    <3>1. p # Len(d) + 1
      BY <1>1, <2>6, NothingLeft
    <3> QED
      BY <1>1, <2>6, <3>1
  <2>8. c \in Cuts(SubSeq(d, p, Len(d)))
    BY <2>6
  <2>9. Before(rest, c) = Piece(d, p)
    BY <1>1, <2>6, <2>7, <2>8, CutIsPiece
  <2>10. PICK q \in 1..(Len(d) + 1) :
           /\ p < q /\ After(rest, c) = SubSeq(d, q, Len(d))
           /\ q <= Len(d) => q \in Starts(d)
           /\ \A k \in Starts(d) : ~(p < k /\ k < q)
    <3>1. \E q \in 1..(Len(d) + 1) :
            /\ p < q /\ After(SubSeq(d, p, Len(d)), c) = SubSeq(d, q, Len(d))
            /\ \/ q = p + c /\ d[q - 1] = "/"
               \/ q = p + c - 1 /\ q = Len(d) + 1 /\ d[Len(d)] # "/"
            /\ q <= Len(d) => q \in Starts(d)
            /\ \A k \in Starts(d) : ~(p < k /\ k < q)
      BY <1>1, <2>7, <2>8, CutIsPiece
    <3> QED
      BY <2>6, <3>1, Zenon
  <2>11. q \in Nat
    BY <1>1
  <2>12. PICK more \in Seq(Nat) :
           /\ IsStack(more, Names(d), Ups(d), q)
           /\ Normalized(PiecesAt(d, places), Piece(d, p)) = PiecesAt(d, more)
    BY <1>1, <2>6, <2>7, <2>10, <2>11, StackNext
  <2>13. StackAt(q, more)'
    BY <1>1, <1>2, <1>d, <2>6, <2>9, <2>10, <2>12 DEF StackAt
  <2>14. StackSoFar'
    BY <1>1, <1>d, <2>3, <2>13 DEF StackSoFar
  <2> QED
    BY <2>2, <2>14
<1> QED
  BY <1>1, <1>3, <1>4 DEF NormalInv

LEMMA JoinSegmentsNormal ==
  ASSUME RoutingInv, NormalInv, JoinSegments
  PROVE  NormalInv'
<1>d. PICK d : d = decoded
  OBVIOUS
<1>1. /\ pc = "normalize" /\ pc' = "RouteURI" /\ uri' = uri /\ rest = <<>>
      /\ uriPath' = Normal(segments) \o (IF slash THEN <<"/">> ELSE <<>>)
      /\ d \in Seq(Character) /\ Len(d) \in Nat
  BY <1>d, LenProperties DEF JoinSegments, RoutingInv, TypeOK, Text
<1>2. Begun' /\ SlashKept' /\ DecodedSoFar' /\ StackSoFar'
  BY <1>1 DEF Begun, SlashKept, DecodedSoFar, StackSoFar
<1>3. ASSUME uri.text # <<>> PROVE uriPath' = NormalForm(uri.text)
  <2>1. SlashKept /\ StackSoFar
    BY <1>3 DEF NormalInv
  <2>2. (slash <=> Last(uri.text) = "/") /\ d = Path(uri.text)
    BY <1>1, <1>d, <2>1 DEF SlashKept, StackSoFar
  <2>3. PICK p \in 1..(Len(d) + 1) : \E places \in Seq(Nat) : StackAt(p, places)
    BY <1>1, <1>d, <2>1 DEF StackSoFar
  <2>4. PICK places \in Seq(Nat) : StackAt(p, places)
    BY <2>3
  <2>5. /\ rest = SubSeq(d, p, Len(d)) /\ IsStack(places, Names(d), Ups(d), p)
        /\ segments = PiecesAt(d, places)
    BY <1>d, <2>4 DEF StackAt
  <2>6. p = Len(d) + 1
    BY <1>1, <2>5, NothingLeft
  <2>7. Joined(segments) = FlattenSeq(Surviving(d))
    BY <1>1, <2>5, <2>6, JoinedIs
  <2> QED
    BY <1>1, <2>2, <2>7 DEF Normal, NormalForm
<1> QED
  BY <1>1, <1>2, <1>3 DEF NormalInv, NormalAsDefined

LEMMA InitNormalInv == Init => NormalInv
BY DEF Init, NormalInv, Begun, SlashKept, DecodedSoFar, StackSoFar, NormalAsDefined

LEMMA NextNormalInv == RoutingInv /\ NormalInv /\ [Next]_vars => NormalInv'
<1> SUFFICES ASSUME RoutingInv, NormalInv, [Next]_vars PROVE NormalInv'
  OBVIOUS
<1>1. CASE UNCHANGED vars
  <2>1. UNCHANGED <<pc, uri, rest, decoded, segments, slash, uriPath>>
    BY <1>1 DEF vars
  <2> QED
    BY <2>1 DEF NormalInv, Begun, SlashKept, DecodedSoFar, DecodedTo, StackSoFar, StackAt, NormalAsDefined
<1>2. CASE CompareRoute
  <2>1. pc = "RouteURI" /\ UNCHANGED <<pc, uri, rest, decoded, segments, slash, uriPath>>
    BY <1>2 DEF CompareRoute
  <2> QED
    BY <2>1 DEF NormalInv, Begun, SlashKept, DecodedSoFar, StackSoFar, NormalAsDefined
<1>3. CASE RewritePath
  <2>1. pc' = "done"
    BY <1>3 DEF RewritePath
  <2> QED
    BY <2>1 DEF NormalInv, Begun, SlashKept, DecodedSoFar, StackSoFar, NormalAsDefined
<1> QED
  BY <1>1, <1>2, <1>3, ValidateURINormal, DecodeSegmentNormal, StartNormalizeNormal,
     NormalizeSegmentNormal, JoinSegmentsNormal DEF Next

----------------------------------------------------------------------------
(* The theorems.                                                           *)

\* No component of the path that normalize puts together is "." or "..", however the
\* URI spelled it: no segment is one, and no segment hides a slash within it.
THEOREM NoComponentIsDots == Spec => [](NoDotSegments /\ NoSlashInside)
<1>1. RoutingInv => NoDotSegments /\ NoSlashInside
  BY DEF RoutingInv
<1> QED
  BY InitRoutingInv, NextRoutingInv, <1>1, PTL DEF Spec

\* Whatever the routes and in whatever order RouteURI looks at them, the path it leaves
\* begins with the root of the longest key that the normalised path begins with, and
\* the rest of that path follows.
THEOREM LongestRouteServes == Spec => []ServedByLongestRoute
<1>1. RoutingInv => ServedByLongestRoute
  BY DEF RoutingInv
<1> QED
  BY InitRoutingInv, NextRoutingInv, <1>1, PTL DEF Spec

\* What the decoding loop and the stack of normalize leave for RouteURI is the normal
\* form of the URI, for a text of any length over any symbols: the names that no ".."
\* takes back, in their order, and the slash at the end.
THEOREM NormalizeComputesNormalForm == Spec => []NormalAsDefined
<1>1. NormalInv => NormalAsDefined
  BY DEF NormalInv
<1> QED
  BY InitRoutingInv, NextRoutingInv, InitNormalInv, NextNormalInv, <1>1, PTL DEF Spec
============================================================================
