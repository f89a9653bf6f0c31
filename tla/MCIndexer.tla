------------------------------- MODULE MCIndexer -------------------------------
(* Small instances of Indexer for TLC. *)
EXTENDS Indexer

CONSTANTS k1, k2

Keys == {k1, k2}

KeySymmetry == Permutations(Keys)

OneValue == {5}

TwoValues == {5, 6}

===============================================================================
