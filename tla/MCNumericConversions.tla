------------------------ MODULE MCNumericConversions ------------------------
\* Instance of NumericConversions: every text of up to four characters, with widths
\* of five bits for unsigned long long and nine for int.
EXTENDS NumericConversions, SequencesExt

MCValue ==
  [c \in {"0", "1", "7", "9", "a", "F", "z", " "} |->
     CASE c = "1" -> 1 [] c = "7" -> 7 [] c = "9" -> 9 [] c = "a" -> 10 [] c = "F" -> 15 [] c = "z" -> 35
       [] OTHER -> 0]
MCTexts == BoundedSeq(DOMAIN MCValue, 4)
=============================================================================
