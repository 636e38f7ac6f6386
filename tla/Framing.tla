------------------------------ MODULE Framing ------------------------------
(* How long a packet may be on its way: a Sub-Pi's events through its listener *)
(* and InternalServer to InternalClient, a Qt client's commands through        *)
(* InternalClient to InternalServer.  Each of the four readers has limits of   *)
(* its own, and takes for headers the bytes that it leaves in the stream.     *)
EXTENDS Naturals, Sequences, SequencesExt, Subsequences

CONSTANTS
    MaxBody,    \* 1 MiB, the limit of all readers, inclusive or exclusive
    MaxJpeg,    \* 10 MiB, likewise
    TlsAdds,    \* what TLS adds to a body
    None,       \* "no value"
    Packets,    \* what Sub-Pis send
    QtCommands, \* what Qt clients send, before TLS
    MaxPackets  \* bound: packets sent by Sub-Pi and Qt client together

\* A packet: its type, the length of its body, whether that is JSON, and the
\* JPEG that the body of an IMAGE announces and that follows it.  AI and META
\* are "event".  dump is the length of the body once it has been parsed, given
\* device_id and ip if the listener passes it on, and dumped again: shorter than
\* body (white space goes) or longer (1e9 becomes 1000000000.0, too).
Packet == [type : {"event", "IMAGE", "AVAILABLE", "DEVICE", "other"}, body : Nat, json : BOOLEAN,
           dump : Nat, jpeg : Nat]

ASSUME FramingAssumption ==
    /\ MaxBody \in Nat /\ MaxJpeg \in Nat /\ MaxPackets \in Nat
    /\ TlsAdds \in Nat \ {0}
    /\ Packets \subseteq Packet /\ QtCommands \subseteq Packet
    /\ \A p \in Packets : (p.jpeg > 0 => p.type = "IMAGE") /\ (p.json => p.dump > 0)
    /\ \A p \in QtCommands : p.type = "DEVICE" /\ p.json /\ p.body > 0 /\ p.dump > 0 /\ p.jpeg = 0
    /\ None \notin Packet

VARIABLES
    tls,          \* whether Qt clients use TLS
    sent, asked,  \* what the Sub-Pi and the Qt client have sent
    wire,         \* what is still to be read on each hop
    rest,         \* the packet in the middle of which a hop's reader is, or None
    error_count,  \* bad packets in a row, at the listener
    ended,        \* hops whose reader has left
    events,       \* what InternalClient has passed on
    commands      \* what InternalServer has passed on

vars == <<tls, sent, asked, wire, rest, error_count, ended, events, commands>>
readers == <<rest, error_count, ended, events, commands>>

\* Sub-Pi to listener, InternalServer to InternalClient, Qt client to
\* QtCommServer, InternalClient to InternalServer.
Hops == {"subpi", "push", "qt", "command"}

\* Every variable keeps its type.
TypeOK ==
    /\ tls \in BOOLEAN
    /\ sent \in Seq(Packets) /\ asked \in Seq(QtCommands) /\ Len(sent) + Len(asked) <= MaxPackets
    /\ wire \in [Hops -> Seq(Packet)] /\ rest \in [Hops -> Packet \cup {None}]
    /\ error_count \in 0..3 /\ ended \subseteq Hops
    /\ events \in Seq(Packet) /\ commands \in Seq(Packet)
    /\ error_count = 3 => "subpi" \in ended

Init ==
    /\ tls \in BOOLEAN
    /\ sent = <<>> /\ asked = <<>> /\ events = <<>> /\ commands = <<>>
    /\ wire = [h \in Hops |-> <<>>] /\ rest = [h \in Hops |-> None]
    /\ error_count = 0 /\ ended = {}

----------------------------------------------------------------------------
(* Who sends.                                                                *)

SubPiSends(p) ==
    /\ Len(sent) + Len(asked) < MaxPackets
    /\ sent' = Append(sent, p)
    /\ wire' = [wire EXCEPT !["subpi"] = Append(@, p)]
    /\ UNCHANGED <<tls, asked, readers>>

OnTheWire(p) == IF tls THEN [p EXCEPT !.body = @ + TlsAdds] ELSE p

QtAsks(p) ==
    /\ Len(sent) + Len(asked) < MaxPackets
    /\ asked' = Append(asked, p)
    /\ wire' = [wire EXCEPT !["qt"] = Append(@, OnTheWire(p))]
    /\ UNCHANGED <<tls, sent, readers>>

----------------------------------------------------------------------------
(* A reader in step takes a header and n bytes of what follows it; what it      *)
(* sends on goes to another hop.                                             *)

Reads(h, p) == h \notin ended /\ rest[h] = None /\ wire[h] # <<>> /\ p = Head(wire[h])

Takes(h, p, n) == rest' = [rest EXCEPT ![h] = IF n = p.body + p.jpeg THEN None ELSE p]

Drops(h) == wire' = [wire EXCEPT ![h] = Tail(@)]

SendsOn(h, next, p) == wire' = [wire EXCEPT ![h] = Tail(@), ![next] = Append(@, p)]

\* One that is out of step may fail on whatever it reads.  Nothing else is said
\* of it.
GivesUp(h) ==
    /\ rest[h] # None /\ h \notin ended
    /\ ended' = ended \cup {h}
    /\ UNCHANGED <<tls, sent, asked, wire, rest, error_count, events, commands>>

----------------------------------------------------------------------------
(* subPiListener.                                                            *)

Parsed(p) == p.type \in {"event", "IMAGE", "AVAILABLE"}

Readable(p) == p.body \in 1..MaxBody

JpegReadable(p) == p.type = "IMAGE" => p.jpeg \in 1..MaxJpeg

\* Passed on as JSON: the body is what json::dump makes of it.
Forwarded(p) == [p EXCEPT !.body = p.dump]

ListenerSkips(p) ==
    /\ Reads("subpi", p)
    /\ ~Readable(p)
    /\ Takes("subpi", p, 0) /\ Drops("subpi")
    /\ UNCHANGED <<tls, sent, asked, error_count, ended, events, commands>>

\* Mutant: the listener stays after its third error.
ListenerStays(p) ==
    /\ Reads("subpi", p)
    /\ Readable(p) /\ Parsed(p) /\ ~p.json
    /\ Takes("subpi", p, p.body) /\ Drops("subpi")
    /\ error_count' = error_count + 1
    /\ UNCHANGED <<tls, sent, asked, ended, events, commands>>

\* No JSON: the third in a row ends the listener.
ListenerFails(p) ==
    /\ Reads("subpi", p)
    /\ Readable(p) /\ Parsed(p) /\ ~p.json
    /\ Takes("subpi", p, p.body) /\ Drops("subpi")
    /\ error_count' = error_count + 1
    /\ ended' = IF error_count' >= 3 THEN ended \cup {"subpi"} ELSE ended
    /\ UNCHANGED <<tls, sent, asked, events, commands>>

\* Mutant: what has been parsed does not reset the count.
ListenerForwardsOnly(p) ==
    /\ Reads("subpi", p)
    /\ Readable(p) /\ p.json /\ p.type \in {"event", "IMAGE"} /\ JpegReadable(p)
    /\ Takes("subpi", p, p.body + p.jpeg) /\ SendsOn("subpi", "push", Forwarded(p))
    /\ UNCHANGED <<tls, sent, asked, error_count, ended, events, commands>>

\* on_ai_event_, on_image_event_ and on_meta_event_ lead to InternalServer's
\* broadcasts, which send the body and the JPEG on.
ListenerForwards(p) ==
    /\ Reads("subpi", p)
    /\ Readable(p) /\ p.json /\ p.type \in {"event", "IMAGE"} /\ JpegReadable(p)
    /\ Takes("subpi", p, p.body + p.jpeg) /\ SendsOn("subpi", "push", Forwarded(p))
    /\ error_count' = 0
    /\ UNCHANGED <<tls, sent, asked, ended, events, commands>>

ListenerKeepsStatus(p) ==
    /\ Reads("subpi", p)
    /\ Readable(p) /\ p.json /\ p.type = "AVAILABLE"
    /\ Takes("subpi", p, p.body) /\ Drops("subpi")
    /\ error_count' = 0
    /\ UNCHANGED <<tls, sent, asked, ended, events, commands>>

\* Another type, or an IMAGE whose JPEG is announced to be empty or too long.
ListenerIgnores(p) ==
    /\ Reads("subpi", p)
    /\ Readable(p)
    /\ Parsed(p) => p.json /\ ~JpegReadable(p)
    /\ Takes("subpi", p, p.body) /\ Drops("subpi")
    /\ UNCHANGED <<tls, sent, asked, error_count, ended, events, commands>>

----------------------------------------------------------------------------
(* InternalClient.                                                           *)

\* Mutant: a body of 1 MiB is too long.
BodyFitsBelow(p) == p.body \in 1..MaxBody-1

BodyFits(p) == p.body \in 1..MaxBody

JpegFits(p) == p.type = "IMAGE" => p.jpeg \in 1..MaxJpeg-1

ClientSkips(p) ==
    /\ Reads("push", p)
    /\ ~(BodyFits(p) /\ JpegFits(p))
    /\ Takes("push", p, IF BodyFits(p) THEN p.body ELSE 0) /\ Drops("push")
    /\ UNCHANGED <<tls, sent, asked, error_count, ended, events, commands>>

ClientDispatches(p) ==
    /\ Reads("push", p)
    /\ BodyFits(p) /\ JpegFits(p)
    /\ Takes("push", p, p.body + p.jpeg) /\ Drops("push")
    /\ events' = Append(events, p)
    /\ UNCHANGED <<tls, sent, asked, error_count, ended, commands>>

----------------------------------------------------------------------------
(* QtCommServer's handler, and InternalServer's.                              *)

QtTakes(p) == p.body <= MaxBody

QtDisconnects(p) ==
    /\ Reads("qt", p)
    /\ ~QtTakes(p)
    /\ ended' = ended \cup {"qt"}
    /\ UNCHANGED <<tls, sent, asked, wire, rest, error_count, events, commands>>

\* DEVICE, decrypted and parsed: sendDeviceCommand dumps it and sends it on.
QtForwards(p) ==
    /\ Reads("qt", p)
    /\ QtTakes(p)
    /\ Takes("qt", p, p.body) /\ SendsOn("qt", "command", Forwarded(p))
    /\ UNCHANGED <<tls, sent, asked, error_count, ended, events, commands>>

\* A body that is not read counts as {}, which names no device.
HandlerTakesNothing(p) ==
    /\ Reads("command", p)
    /\ p.body \notin 1..MaxBody-1
    /\ Takes("command", p, 0) /\ Drops("command")
    /\ UNCHANGED <<tls, sent, asked, error_count, ended, events, commands>>

HandlerTakesCommand(p) ==
    /\ Reads("command", p)
    /\ p.body \in 1..MaxBody-1
    /\ Takes("command", p, p.body) /\ Drops("command")
    /\ commands' = Append(commands, p)
    /\ UNCHANGED <<tls, sent, asked, error_count, ended, events>>

----------------------------------------------------------------------------
Listener ==
    \E p \in Range(wire["subpi"]) :
        \/ ListenerSkips(p) \/ ListenerFails(p) \/ ListenerForwards(p)
        \/ ListenerKeepsStatus(p) \/ ListenerIgnores(p)

LinkReader == \E p \in Range(wire["push"]) : ClientSkips(p) \/ ClientDispatches(p)

QtReader == \E p \in Range(wire["qt"]) : QtDisconnects(p) \/ QtForwards(p)

CommandReader ==
    \E p \in Range(wire["command"]) : HandlerTakesNothing(p) \/ HandlerTakesCommand(p)

Next ==
    \/ \E p \in Packets : SubPiSends(p)
    \/ \E p \in QtCommands : QtAsks(p)
    \/ Listener \/ LinkReader \/ QtReader \/ CommandReader
    \/ \E h \in Hops : GivesUp(h)

Spec == Init /\ [][Next]_vars

----------------------------------------------------------------------------
(* Properties.                                                               *)

\* A packet that every reader on its way can read: its body fits as it is sent
\* and as it is passed on, its JPEG is below the limit, and there is no JPEG
\* behind a body that is not JSON.
Moderate(p) ==
    /\ p.body <= MaxBody /\ p.dump <= MaxBody
    /\ p.type = "IMAGE" => p.jpeg < MaxJpeg
    /\ p.jpeg > 0 => p.json /\ p.body > 0

\* Commands that are below 1 MiB when they are passed on.  With TLS it is enough
\* that passing them on makes none longer: QtCommServer's limit leaves room.
CommandsFit ==
    \/ \A p \in Range(asked) : p.dump < MaxBody
    \/ tls /\ \A p \in Range(asked) : p.dump <= p.body

\* No reader loses step over a Sub-Pi that keeps to these limits, at the second
\* hop as at the first; InternalServer's does not over commands that fit; and
\* QtCommServer's handler does not, whatever Qt clients send.
StaysInStep ==
    /\ (\A p \in Range(sent) : Moderate(p)) => rest["subpi"] = None /\ rest["push"] = None
    /\ CommandsFit => rest["command"] = None
    /\ rest["qt"] = None

\* What the listener is to pass on, what resets its count, what adds to it.
Wanted(p) == Readable(p) /\ p.json /\ p.type \in {"event", "IMAGE"} /\ JpegReadable(p)
Good(p) == Wanted(p) \/ (Readable(p) /\ p.json /\ p.type = "AVAILABLE")
Bad(p) == Readable(p) /\ ~p.json /\ Parsed(p)

\* The events that a sequence of packets leads to.
EventsOf(s) ==
    LET wanted == Keep(s, {p \in Packet : Wanted(p)})
    IN  [i \in DOMAIN wanted |-> Forwarded(wanted[i])]

\* As long as both readers are in step, every event that the Sub-Pi has sent
\* is passed on once and in order, or is still on its way; and the listener
\* has left only after three bad packets without a good one in between.
EventsInOrder ==
    rest["subpi"] = None /\ rest["push"] = None =>
        /\ EventsOf(sent) = events \o wire["push"] \o EventsOf(wire["subpi"])
        /\ "subpi" \in ended =>
              \E i, j, k \in DOMAIN sent :
                  /\ i < j /\ j < k
                  /\ \A n \in {i, j, k} : Bad(sent[n])
                  /\ \A n \in i..k : ~Good(sent[n])

----------------------------------------------------------------------------
(* What a document says of the code and the run finds otherwise.              *)

\* What the listener passes on, InternalClient reads.
LinkInStep == rest["push"] = None
============================================================================
