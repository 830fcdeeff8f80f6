---------------------------- MODULE MCSharedDir ----------------------------
(* Two index processes, two terminals that register, one that reads. *)
EXTENDS SharedDir, TLC

CONSTANTS p1, p2, r1, r2, s1

Interchangeable == Permutations(Processes) \cup Permutations(Registrars)
=============================================================================
