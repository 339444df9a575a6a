---------------------------- MODULE MCGrantLedger ----------------------------
(***************************************************************************)
(* The abstract ledger alone: any grants, any lookups.                     *)
(***************************************************************************)
EXTENDS GrantLedger, TLC

Interchangeable == Permutations(Grants) \union Permutations(Lookups)
=============================================================================
