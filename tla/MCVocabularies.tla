--------------------------- MODULE MCVocabularies ---------------------------
(***************************************************************************)
(* Vocabularies for TLC: names and vocabularies that programs make are     *)
(* interchangeable.                                                        *)
(***************************************************************************)
EXTENDS Vocabularies, TLC

Interchangeable == Permutations(Names) \cup Permutations(Vocs \ {Forth, Root})

=============================================================================
