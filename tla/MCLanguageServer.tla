--------------------------- MODULE MCLanguageServer ---------------------------
(* Two messages at a time; the framework of the server takes up to four.   *)
EXTENDS LanguageServer, TLC

Symmetry == Permutations(Handlers)
=============================================================================
