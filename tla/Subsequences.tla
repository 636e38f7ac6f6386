---------------------------- MODULE Subsequences ----------------------------
(* Taking elements out of a list and keeping the order of the others: the      *)
(* vectors of descriptors, and the packets that pass a filter.  By recursive  *)
(* functions, which proofs can expand as they cannot SelectSeq.              *)
EXTENDS Naturals, Sequences

\* The elements of s that are in S, in their order.
Keep(s, S) ==
    LET kept[i \in 0..Len(s)] ==
            IF i = 0 THEN <<>>
            ELSE IF s[i] \in S THEN Append(kept[i - 1], s[i]) ELSE kept[i - 1]
    IN  kept[Len(s)]

Occurs(e, s) == \E i \in DOMAIN s : s[i] = e

\* e is in s, and at one place only.
OccursOnce(e, s) == \E i \in DOMAIN s : \A j \in DOMAIN s : s[j] = e <=> j = i
============================================================================
