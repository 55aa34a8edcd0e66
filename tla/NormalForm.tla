----------------------------- MODULE NormalForm -----------------------------
(***************************************************************************)
(* The normal form of a path, for Routing: one formula over the whole      *)
(* text, in which nothing is read in order, pushed or popped.              *)
(***************************************************************************)
EXTENDS Routing, FiniteSets

\* The characters of a URI's text after a slash, without the slash at its end.
Rooted(s) == <<"/">> \o decode(s)
Path(text) == Rooted(IF Last(text) = "/" THEN Front(text) ELSE text)

\* The places where a piece begins, and the piece, up to the next slash.
Starts(t) == {i \in 1..Len(t) : i = 1 \/ t[i - 1] = "/"}
Piece(t, i) == SubSeq(t, i, Min({j \in i..Len(t) : t[j] = "/"} \cup {Len(t) + 1}) - 1)
Names(t) == {i \in Starts(t) : Piece(t, i) \notin {Dot, DotDot}}
Ups(t) == {i \in Starts(t) : Piece(t, i) = DotDot}

\* A name survives if nowhere after it there have been more ".." than names since.
Between(S, i, n) == {k \in S : i < k /\ k < n}
Covered(names, ups, i, n) ==
  \A j \in i..n : Cardinality(Between(ups, i, j)) <= Cardinality(Between(names, i, j))
Survives(t, i) == i \in Names(t) /\ Covered(Names(t), Ups(t), i, Len(t) + 1)

\* The names that survive and are not empty, each after a slash, or else the root; and
\* the slash at the end.
Component(piece) == IF piece = <<>> THEN <<>> ELSE <<"/">> \o piece
Surviving(t) ==
  [i \in 1..Len(t) |-> IF Survives(t, i) THEN Component(Piece(t, i)) ELSE <<>>]
NormalForm(text) ==
  LET names == FlattenSeq(Surviving(Path(text)))
  IN  (IF names = <<>> THEN <<"/">> ELSE names) \o (IF Last(text) = "/" THEN <<"/">> ELSE <<>>)

\* The stack of normalize, fed one segment at a time by two loops, computes the
\* normal form of the whole text.
NormalAsDefined ==
  pc = "RouteURI" /\ uri.text # <<>> => uriPath = NormalForm(uri.text)
=============================================================================
