------------------------- MODULE MCCameraDiscovery -------------------------
(* CameraDiscovery with a camera of two channels and one of another team.     *)
EXTENDS CameraDiscovery

CONSTANTS ours, theirs

OursAndTheirs == {ours, theirs}
OurStreams == [i \in OursAndTheirs |-> 2]
JustOurs == {ours}
OurStreamsOnly == [i \in JustOurs |-> 2]
============================================================================
