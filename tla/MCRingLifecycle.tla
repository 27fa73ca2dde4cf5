---------------------------- MODULE MCRingLifecycle ----------------------------
(* A small instance of RingLifecycle for TLC: two geometries, the larger of  *)
(* which does not fit into a mapping made for the other.                      *)
EXTENDS RingLifecycle, TLC

CONSTANTS h1, h2, h3

SmallAndLarge == {[count |-> 2, capacity |-> 64], [count |-> 3, capacity |-> 100]}
\* Handles differ in nothing but their names.
HandleSymmetry == Permutations(Handles)
===============================================================================
