--------------------------- MODULE MCInternalLink ---------------------------
(* InternalLink with small sets for TLC.                                     *)
EXTENDS InternalLink, TLC

\* The broadcasting threads other than the monitor are interchangeable, and so
\* are the descriptor numbers.  Only for safety.
Symmetry == Permutations(Pushers \ {Monitor}) \cup Permutations(Fds)
============================================================================
