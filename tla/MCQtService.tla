---------------------------- MODULE MCQtService ----------------------------
(* QtService with small sets for TLC.                                        *)
EXTENDS QtService, TLC

\* Descriptor numbers are interchangeable.  Only for safety.
Symmetry == Permutations(Fds)
============================================================================
