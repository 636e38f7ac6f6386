--------------------------- MODULE MCDeviceServer ---------------------------
(* DeviceServer with small sets for TLC.                                     *)
EXTENDS DeviceServer, TLC

Orderly == {"fin", "reset"}
PowerCut == {"lost"}
AllEndings == {"fin", "reset", "lost"}
Garbage == {"garbage"}
NoClients == {}

AnyFault == {"fin", "reset", "lost", "garbage"}

\* Sub-Pis, descriptor numbers and client threads are interchangeable.  Only
\* for safety: the liveness runs do without.
Symmetry == Permutations(SubPis) \cup Permutations(Fds) \cup Permutations(Clients)
============================================================================
