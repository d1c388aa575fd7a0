----------------------------- MODULE MCCpuPool ------------------------------
(* CpuPool on small instances; the .cfg files give the constants.          *)
EXTENDS CpuPool, TLC

\* Jobs, slots and children are interchangeable.
Symmetry == Permutations(Jobs) \cup Permutations(Slots) \cup Permutations(Children)
=============================================================================
