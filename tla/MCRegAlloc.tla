----------------------------- MODULE MCRegAlloc -----------------------------
(* A machine with one class of two registers.                              *)
EXTENDS RegAlloc, TLC

MCReg == {0, 1}
MCClass == {"A"}
MCcls == [n \in Node |-> "A"]
MCColormap(c, n) == n["A"] < 2

(* This COLORMAP is one the theorems on the worklists and spills hold for. *)
ASSUME Monotone /\ Honest

Symmetry == Permutations(Long) \cup Permutations(Temp \ Long)

=============================================================================
