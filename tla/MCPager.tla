------------------------------ MODULE MCPager ------------------------------
(* Instances of Pager for TLC. *)
EXTENDS Pager, TLC

NoText == {}
AsidSymmetry == Permutations(ASID)
=============================================================================
