--------------------------- MODULE MCPromptHistory ---------------------------
(* Instances of PromptHistory for TLC. *)
EXTENDS PromptHistory, TLC

Symmetry == Permutations(Editors)
=============================================================================
