----------------------------- MODULE PushedList -----------------------------
(* What the link between the two servers promises: a copy of a list that may  *)
(* lag behind and even go back to an older version, but never shows a version *)
(* that has not existed, changes only while the link delivers, and is up to   *)
(* date again soon after as long as the link stays in step.                  *)
EXTENDS Naturals

VARIABLES registry,  \* the version of the list
          cache,     \* the version of the copy
          inStep     \* the link is up and its packets are read in step

listVars == <<registry, cache, inStep>>

ListInit == registry = 0 /\ cache = 0 /\ inStep = FALSE

\* The list gets a new version.
Change == registry' = registry + 1 /\ UNCHANGED <<cache, inStep>>

\* A version arrives, not necessarily the latest, maybe the last on this link.
Learn ==
    /\ cache' \in 0..registry
    /\ UNCHANGED <<registry, inStep>>

LearnLatest == inStep /\ cache # registry /\ cache' = registry /\ UNCHANGED <<registry, inStep>>

\* The link comes up, breaks, or falls out of step.
LinkChanges == inStep' = ~inStep /\ UNCHANGED <<registry, cache>>

\* The holder of the copy starts again with an empty one.
CopyLost == cache' = 0 /\ inStep' = FALSE /\ UNCHANGED registry

\* The holder of the list starts again.
ListLost == registry' = registry + 1 /\ inStep' = FALSE /\ UNCHANGED cache

ListNext == Change \/ Learn \/ LinkChanges \/ CopyLost \/ ListLost

ListSpec == ListInit /\ [][ListNext]_listVars /\ WF_listVars(LearnLatest)
============================================================================
