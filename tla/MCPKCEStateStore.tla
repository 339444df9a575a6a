-------------------------- MODULE MCPKCEStateStore --------------------------
(***************************************************************************)
(* The store alone: any states, any verifiers, any interleaving.           *)
(***************************************************************************)
EXTENDS PKCEStateStore, TLC

SingleWords == [v \in ScopeNames |-> {v}]

Interchangeable ==
  Permutations(Keys) \union Permutations(Setters) \union Permutations(Getters)
=============================================================================
