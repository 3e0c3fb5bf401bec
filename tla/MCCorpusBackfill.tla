--------------------------- MODULE MCCorpusBackfill ---------------------------
(* Small instances of CorpusBackfill for TLC: two shards, two documents of  *)
(* different jobs with the same bytes.                                       *)
EXTENDS CorpusBackfill, TLC
CONSTANTS s1, s2, p1, d1, d2, d3, x1, x2
TwoContents == d1 :> x1 @@ d2 :> x2 @@ d3 :> x1
InOrder == s1 :> <<d1, d2>> @@ s2 :> <<d3>> @@ p1 :> <<d1, d2>>
=============================================================================
