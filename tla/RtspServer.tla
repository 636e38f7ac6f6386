----------------------------- MODULE RtspServer -----------------------------
(* The RTSP relay of DeviceServer: a table from mount point "/<device id>" to *)
(* the pipeline that listens on that device's UDP port.  GStreamer's own main *)
(* loop reads the table and is not modelled; only Sub-Pis are relayed.        *)
EXTENDS Sockets

VARIABLES
    mounts,       \* Sub-Pi -> UDP port its factory listens on, or None
    rtspStarted   \* start() has run: mounts_ is not null

rtspVars == <<mounts, rtspStarted>>

RtspTypeOK ==
    /\ mounts \in [SubPis -> Nat \cup {None}]
    /\ rtspStarted \in BOOLEAN

RtspInit ==
    /\ mounts = [d \in SubPis |-> None]
    /\ rtspStarted = FALSE

\* RtspServer::start creates the server and takes its mount table.
StartRtsp ==
    /\ ~rtspStarted
    /\ rtspStarted' = TRUE
    /\ UNCHANGED mounts

\* removeRelayPath and addRelayPath return at once while mounts_ is null;
\* addRelayPath first removes what is mounted under the same id.
RemoveRelayPath(d) ==
    /\ mounts' = IF rtspStarted THEN [mounts EXCEPT ![d] = None] ELSE mounts
    /\ UNCHANGED rtspStarted

\* Mutant: an id that is mounted already is left as it is.
AddRelayPathOnce(d, port) ==
    /\ mounts' = IF rtspStarted /\ mounts[d] = None
                 THEN [mounts EXCEPT ![d] = port] ELSE mounts
    /\ UNCHANGED rtspStarted

AddRelayPath(d, port) ==
    /\ mounts' = IF rtspStarted THEN [mounts EXCEPT ![d] = port] ELSE mounts
    /\ UNCHANGED rtspStarted
============================================================================
