------------------------------ MODULE MCMcpTokens ------------------------------
(* Small instances of McpTokens for TLC. *)
EXTENDS McpTokens, TLC

\* Ids, wallets and terms are drawn from their sets; nothing tells them apart.
Symmetry ==
  Permutations(Tokens) \cup Permutations(Wallets) \cup Permutations(Terms)
=============================================================================
