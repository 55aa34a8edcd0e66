----------------------------- MODULE MCRouting -----------------------------
\* Instance of Routing: every text of up to MaxLength symbols, its route and its
\* normal form.
EXTENDS NormalForm

CONSTANT MaxLength

Symbol == {"/", ".", "a", "b", "%2e", "%2f", "%zz"}
MCMeaning ==
  [s \in Symbol \ {"%zz"} |-> CASE s = "%2e" -> "." [] s = "%2f" -> "/" [] OTHER -> s]
MCURIs ==
  [absolute : {FALSE}, text : {<<"/">> \o s : s \in BoundedSeq({"/", ".", "a", "%2e", "%2f"}, MaxLength - 1)}]
  \cup [absolute : {FALSE}, text : BoundedSeq(Symbol, 3)]
  \cup [absolute : {FALSE}, text : {<<"/", "a">> \o s : s \in BoundedSeq({"/", "a", "b"}, 3)}]
  \cup [absolute : {TRUE}, text : BoundedSeq({"/", ".", "a"}, 3)]
  \cup [absolute : BOOLEAN, text : {FlattenSeq(s) : s \in BoundedSeq({<<"/", "a">>, <<"/", "a", "b">>, <<"/", ".">>, <<"/", ".", ".">>}, 4)}]

MCRouteMaps ==
  { [k \in {} |-> <<>>],
    [k \in {<<"/">>, <<"/", "a">>, <<"/", "a", "b">>, <<"/", "a", "/">>, <<"/", "b">>} |->
       CASE k = <<"/">> -> <<"R">> [] k = <<"/", "a">> -> <<"S", "/">>
         [] k = <<"/", "b">> -> <<"S", ".", ".">> [] OTHER -> <<"T">>] }
=============================================================================
