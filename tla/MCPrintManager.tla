---------------------------- MODULE MCPrintManager ----------------------------
(* Instances of PrintManager small enough for TLC. *)
EXTENDS PrintManager, TLC

\* Jobs and managers are interchangeable; only safety is checked with this.
Symmetry == Permutations(Job) \cup Permutations(Manager)
==============================================================================
