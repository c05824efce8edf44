---------------------------- MODULE FigmaTokensMC ----------------------------
(* Small instances of FigmaTokens for TLC. *)
EXTENDS FigmaTokens, TLC

\* Imports are interchangeable; so are links.
TokensSymmetry == Permutations(Imports) \cup Permutations(Links)
=============================================================================
