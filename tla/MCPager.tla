------------------------------ MODULE MCPager -------------------------------
(* One connection, or two, on a small database for TLC. *)
EXTENDS Pager, TLC

Symmetric == Permutations(Conns) \union Permutations(Vals)
=============================================================================
