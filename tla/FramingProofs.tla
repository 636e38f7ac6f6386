---------------------------- MODULE FramingProofs ----------------------------
(* Proofs about Framing, for limits, lengths and packets of any size.         *)
EXTENDS Framing, SubsequenceProofs

(* What may be on each hop: what the Sub-Pi sent; what the listener passes on; *)
(* a Qt client's command; one that QtCommServer's limit has bounded as it came *)
(* over the wire, and that has been dumped since.                            *)
OnSubPi == Range(sent)
OnPush == {Forwarded(p) : p \in {q \in Range(sent) : Wanted(q)}}
OnQt == {OnTheWire(p) : p \in Range(asked)}
OnCommand == {Forwarded(p) : p \in {q \in Range(asked) : QtTakes(OnTheWire(q))}}

WiresCarry ==
    /\ Range(wire["subpi"]) \subseteq OnSubPi
    /\ Range(wire["push"]) \subseteq OnPush
    /\ Range(wire["qt"]) \subseteq OnQt
    /\ Range(wire["command"]) \subseteq OnCommand

IndInv == TypeOK /\ WiresCarry /\ StaysInStep

----------------------------------------------------------------------------
(* Queues.                                                                   *)

LEMMA AppendRange ==
    ASSUME NEW S, NEW s \in Seq(S), NEW e \in S
    PROVE  /\ Append(s, e) \in Seq(S) /\ Len(Append(s, e)) = Len(s) + 1
           /\ Range(Append(s, e)) = Range(s) \cup {e}
<1>1. Append(s, e) \in Seq(S) /\ Len(Append(s, e)) = Len(s) + 1
      /\ DOMAIN Append(s, e) = 1..Len(s) + 1 /\ DOMAIN s = 1..Len(s) /\ Len(s) \in Nat
  OBVIOUS
<1>2. \A i \in 1..Len(s) : Append(s, e)[i] = s[i]
  OBVIOUS
<1>3. Append(s, e)[Len(s) + 1] = e
  OBVIOUS
<1>4. \A i \in 1..Len(s) + 1 : i \in 1..Len(s) \/ i = Len(s) + 1
  BY <1>1
<1>5. Range(Append(s, e)) \subseteq Range(s) \cup {e}
  BY <1>1, <1>2, <1>3, <1>4 DEF Range
<1>6. Range(s) \cup {e} \subseteq Range(Append(s, e))
  BY <1>1, <1>2, <1>3 DEF Range
<1> QED
  BY <1>1, <1>5, <1>6

LEMMA TailRange ==
    ASSUME NEW S, NEW s \in Seq(S), s # <<>>
    PROVE  Tail(s) \in Seq(S) /\ Head(s) \in Range(s) /\ Range(Tail(s)) \subseteq Range(s)
<1>1. Tail(s) \in Seq(S) /\ Len(s) \in Nat \ {0} /\ DOMAIN s = 1..Len(s) /\ Len(Tail(s)) = Len(s) - 1
      /\ DOMAIN Tail(s) = 1..Len(s) - 1 /\ Head(s) = s[1]
  OBVIOUS
<1>2. \A i \in 1..Len(s) - 1 : Tail(s)[i] = s[i + 1] /\ i + 1 \in 1..Len(s)
  BY <1>1
<1> QED
  BY <1>1, <1>2 DEF Range

LEMMA RangeIn == ASSUME NEW S, NEW s \in Seq(S) PROVE Range(s) \subseteq S
BY DEF Range

\* A packet that is read is one of those on the hop.
LEMMA ReadsOne ==
    ASSUME TypeOK, NEW h \in Hops, NEW p, Reads(h, p)
    PROVE  p \in Packet /\ p \in Range(wire[h]) /\ rest[h] = None /\ h \notin ended
<1>1. wire[h] \in Seq(Packet) /\ wire[h] # <<>> /\ p = Head(wire[h])
  BY DEF TypeOK, Reads
<1>2. p \in Range(wire[h])
  BY <1>1, TailRange
<1>3. p \in Packet
  BY <1>1, <1>2, RangeIn
<1> QED
  BY <1>2, <1>3 DEF Reads

\* One packet fewer on a hop, and perhaps one more on another.
LEMMA DropsWire ==
    ASSUME TypeOK, NEW h \in Hops, wire[h] # <<>>, Drops(h)
    PROVE  /\ wire' \in [Hops -> Seq(Packet)]
           /\ \A g \in Hops : Range(wire'[g]) \subseteq Range(wire[g])
<1>1. Tail(wire[h]) \in Seq(Packet) /\ Range(Tail(wire[h])) \subseteq Range(wire[h])
  BY TailRange DEF TypeOK
<1> QED
  BY <1>1 DEF Drops, TypeOK

LEMMA SendsOnWire ==
    ASSUME TypeOK, NEW h \in Hops, NEW next \in Hops, h # next, NEW q \in Packet, wire[h] # <<>>,
           SendsOn(h, next, q)
    PROVE  /\ wire' \in [Hops -> Seq(Packet)]
           /\ \A g \in Hops : g # next => Range(wire'[g]) \subseteq Range(wire[g])
           /\ Range(wire'[next]) = Range(wire[next]) \cup {q}
<1>1. Tail(wire[h]) \in Seq(Packet) /\ Range(Tail(wire[h])) \subseteq Range(wire[h])
  BY TailRange DEF TypeOK
<1>2. Append(wire[next], q) \in Seq(Packet)
      /\ Range(Append(wire[next], q)) = Range(wire[next]) \cup {q}
  BY AppendRange DEF TypeOK
<1>3. wire' = [wire EXCEPT ![h] = Tail(wire[h]), ![next] = Append(wire[next], q)]
  BY DEF SendsOn
<1> QED
  BY <1>1, <1>2, <1>3 DEF TypeOK

LEMMA TakesRest ==
    ASSUME TypeOK, NEW h \in Hops, NEW p \in Packet, NEW n \in Nat, Takes(h, p, n)
    PROVE  /\ rest' \in [Hops -> Packet \cup {None}]
           /\ n = p.body + p.jpeg => rest'[h] = None
           /\ \A g \in Hops : g # h => rest'[g] = rest[g]
BY DEF Takes, TypeOK

----------------------------------------------------------------------------
(* The listener.                                                             *)

LEMMA SubPiPacket ==
    ASSUME TypeOK, WiresCarry, NEW p, Reads("subpi", p)
    PROVE  /\ p \in Packet /\ p \in Range(sent) /\ wire["subpi"] # <<>>
           /\ p.body \in Nat /\ p.dump \in Nat /\ p.jpeg \in Nat /\ p.json \in BOOLEAN
           /\ p.jpeg > 0 => p.type = "IMAGE"
<1>1. p \in Packet /\ p \in Range(sent) /\ wire["subpi"] # <<>>
  BY ReadsOne DEF WiresCarry, OnSubPi, Hops, Reads
<1>2. p \in Packets
  BY <1>1, RangeIn DEF TypeOK
<1> QED
  BY <1>1, <1>2, FramingAssumption DEF Packet

LEMMA ForwardedPacket ==
    ASSUME NEW p \in Packet
    PROVE  /\ Forwarded(p) \in Packet /\ Forwarded(p).body = p.dump
           /\ Forwarded(p).type = p.type /\ Forwarded(p).jpeg = p.jpeg
           /\ p.body \in Nat /\ p.dump \in Nat /\ p.jpeg \in Nat
BY DEF Forwarded, Packet

\* On the wire a command may be longer; what is passed on of it is the same.
LEMMA WiredPacket ==
    ASSUME NEW p \in Packet
    PROVE  /\ OnTheWire(p) \in Packet /\ Forwarded(OnTheWire(p)) = Forwarded(p)
           /\ OnTheWire(p).jpeg = p.jpeg
           /\ tls => OnTheWire(p).body = p.body + TlsAdds
<1>1. CASE tls
  <2>1. PICK n \in Nat : n = p.body + TlsAdds
    BY FramingAssumption DEF Packet
  <2>2. OnTheWire(p) = [p EXCEPT !.body = n]
    BY <1>1, <2>1 DEF OnTheWire, Packet
  <2>3. PICK q \in Packet : q = [p EXCEPT !.body = n]
    BY DEF Packet
  <2>4. q.body = n /\ q.jpeg = p.jpeg /\ q.dump = p.dump
    BY <2>3 DEF Packet
  <2>5. [q EXCEPT !.body = p.dump] = [p EXCEPT !.body = p.dump]
    BY <2>3 DEF Packet
  <2> QED
    BY <2>1, <2>2, <2>3, <2>4, <2>5 DEF Forwarded
<1>2. CASE ~tls
  BY <1>2 DEF OnTheWire
<1> QED
  BY <1>1, <1>2

\* The listener stays in step with a moderate Sub-Pi: what it leaves unread of
\* a packet is empty.
LEMMA ListenerInStep ==
    ASSUME TypeOK, WiresCarry, NEW p, NEW n \in Nat, Reads("subpi", p), Takes("subpi", p, n),
           \/ n = 0 /\ ~Readable(p)
           \/ n = p.body /\ Readable(p) /\ (~p.json \/ p.type # "IMAGE" \/ ~JpegReadable(p))
           \/ n = p.body + p.jpeg,
           \A q \in Range(sent) : Moderate(q)
    PROVE  rest'["subpi"] = None
<1>1. /\ p \in Packet /\ p.body \in Nat /\ p.jpeg \in Nat /\ Moderate(p)
      /\ p.jpeg > 0 => p.type = "IMAGE"
  BY SubPiPacket
<1>2. n = p.body + p.jpeg
  BY <1>1, FramingAssumption DEF Moderate, Readable, JpegReadable
<1> QED
  BY <1>1, <1>2, TakesRest DEF Hops

LEMMA ListenerSafe == IndInv /\ Listener => IndInv'
<1> SUFFICES ASSUME IndInv, NEW p,
                    ListenerSkips(p) \/ ListenerFails(p) \/ ListenerForwards(p)
                    \/ ListenerKeepsStatus(p) \/ ListenerIgnores(p)
             PROVE  IndInv'
  BY DEF Listener
<1> USE DEF IndInv
<1> DEFINE took(n) == \/ n = 0 /\ ~Readable(p)
                      \/ n = p.body /\ Readable(p) /\ (~p.json \/ p.type # "IMAGE" \/ ~JpegReadable(p))
                      \/ n = p.body + p.jpeg
<1>1. Reads("subpi", p) /\ UNCHANGED <<tls, sent, asked, events, commands>>
  BY DEF ListenerSkips, ListenerFails, ListenerForwards, ListenerKeepsStatus, ListenerIgnores
<1>2. /\ p \in Packet /\ p \in Range(sent) /\ wire["subpi"] # <<>>
      /\ p.body \in Nat /\ p.jpeg \in Nat /\ p.json \in BOOLEAN
      /\ p.jpeg > 0 => p.type = "IMAGE"
  BY <1>1, SubPiPacket
<1>3. PICK n \in Nat : Takes("subpi", p, n) /\ took(n)
  BY <1>2 DEF ListenerSkips, ListenerFails, ListenerForwards, ListenerKeepsStatus, ListenerIgnores, Parsed
<1>4. /\ rest' \in [Hops -> Packet \cup {None}]
      /\ \A g \in Hops : g # "subpi" => rest'[g] = rest[g]
  BY <1>2, <1>3, TakesRest DEF Hops
<1>5. /\ error_count' \in 0..3 /\ ended' \subseteq Hops
      /\ error_count' = 3 => "subpi" \in ended'
  <2>1. "subpi" \notin ended /\ ended \subseteq Hops /\ error_count \in 0..2
    BY <1>1 DEF TypeOK, Reads
  <2>2. CASE ListenerFails(p)
    <3>1. error_count' = error_count + 1
          /\ ended' = IF error_count' >= 3 THEN ended \cup {"subpi"} ELSE ended
      BY <2>2 DEF ListenerFails
    <3>2. ended' \subseteq Hops /\ (error_count' >= 3 => "subpi" \in ended')
      BY <2>1, <3>1 DEF Hops
    <3> QED
      BY <2>1, <3>1, <3>2
  <2>3. CASE ended' = ended /\ (error_count' = error_count \/ error_count' = 0)
    BY <2>1, <2>3
  <2> QED
    BY <2>2, <2>3 DEF ListenerSkips, ListenerForwards, ListenerKeepsStatus, ListenerIgnores
<1>6. /\ wire' \in [Hops -> Seq(Packet)]
      /\ \A g \in Hops \ {"push"} : Range(wire'[g]) \subseteq Range(wire[g])
      /\ Range(wire'["push"]) \subseteq OnPush
  <2>1. CASE Drops("subpi")
    BY <1>2, <2>1, DropsWire DEF Hops, WiresCarry
  <2>2. CASE Wanted(p) /\ SendsOn("subpi", "push", Forwarded(p))
    <3>1. Forwarded(p) \in Packet /\ Forwarded(p) \in OnPush
      BY <1>2, <2>2, ForwardedPacket DEF OnPush
    <3> QED
      BY <1>2, <2>2, <3>1, SendsOnWire DEF Hops, WiresCarry
  <2> QED
    BY <2>1, <2>2 DEF ListenerSkips, ListenerFails, ListenerForwards, ListenerKeepsStatus,
       ListenerIgnores, Wanted
<1>7. TypeOK'
  BY <1>1, <1>4, <1>5, <1>6 DEF TypeOK
<1>8. WiresCarry'
  BY <1>1, <1>6 DEF WiresCarry, OnSubPi, OnPush, OnQt, OnCommand, OnTheWire, Hops
<1>9. StaysInStep'
  BY <1>1, <1>3, <1>4, ListenerInStep DEF StaysInStep, CommandsFit, Hops
<1> QED
  BY <1>7, <1>8, <1>9

----------------------------------------------------------------------------
(* InternalClient.                                                           *)

\* What the listener passes on of a moderate Sub-Pi fits.
LEMMA ModerateFits ==
    ASSUME NEW p \in Packets, Wanted(p), Moderate(p)
    PROVE  BodyFits(Forwarded(p)) /\ JpegFits(Forwarded(p))
BY ForwardedPacket, FramingAssumption
   DEF Packet, Wanted, Moderate, Readable, JpegReadable, BodyFits, JpegFits

LEMMA LinkReaderSafe == IndInv /\ LinkReader => IndInv'
<1> SUFFICES ASSUME IndInv, NEW p, ClientSkips(p) \/ ClientDispatches(p)
             PROVE  IndInv'
  BY DEF LinkReader
<1> USE DEF IndInv
<1>1. Reads("push", p) /\ Drops("push") /\ UNCHANGED <<tls, sent, asked, error_count, ended, commands>>
  BY DEF ClientSkips, ClientDispatches
<1>2. p \in Packet /\ p \in Range(wire["push"]) /\ rest["push"] = None /\ wire["push"] # <<>>
  BY <1>1, ReadsOne DEF Hops, Reads
<1>3. p.body \in Nat /\ p.jpeg \in Nat
  BY <1>2 DEF Packet
<1>4. PICK n \in Nat : /\ Takes("push", p, n)
                       /\ BodyFits(p) /\ JpegFits(p) => n = p.body + p.jpeg
  BY <1>3 DEF ClientSkips, ClientDispatches
<1>5. /\ rest' \in [Hops -> Packet \cup {None}]
      /\ n = p.body + p.jpeg => rest'["push"] = None
      /\ \A g \in Hops : g # "push" => rest'[g] = rest[g]
  BY <1>2, <1>4, TakesRest DEF Hops
<1>6. wire' \in [Hops -> Seq(Packet)] /\ \A g \in Hops : Range(wire'[g]) \subseteq Range(wire[g])
  BY <1>1, <1>2, DropsWire DEF Hops
<1>7. events' \in Seq(Packet)
  <2>1. events \in Seq(Packet) /\ p \in Packet
    BY <1>2 DEF TypeOK
  <2>2. Append(events, p) \in Seq(Packet)
    BY <2>1, AppendRange
  <2>3. events' = events \/ events' = Append(events, p)
    BY DEF ClientSkips, ClientDispatches
  <2> QED
    BY <2>1, <2>2, <2>3
<1>8. TypeOK'
  BY <1>1, <1>5, <1>6, <1>7 DEF TypeOK
<1>9. WiresCarry'
  BY <1>1, <1>6 DEF WiresCarry, OnSubPi, OnPush, OnQt, OnCommand, OnTheWire, Hops
<1>10. ASSUME \A q \in Range(sent) : Moderate(q) PROVE rest'["push"] = None
  <2>1. PICK q \in Range(sent) : Wanted(q) /\ p = Forwarded(q)
    BY <1>2 DEF WiresCarry, OnPush
  <2>2. q \in Packets
    BY <2>1, RangeIn, FramingAssumption DEF TypeOK
  <2> QED
    BY <1>4, <1>5, <1>10, <2>1, <2>2, ModerateFits
<1>11. StaysInStep'
  BY <1>1, <1>5, <1>10 DEF StaysInStep, CommandsFit, Hops
<1> QED
  BY <1>8, <1>9, <1>11

----------------------------------------------------------------------------
(* QtCommServer's handler and InternalServer's.                               *)

LEMMA QtReaderSafe == IndInv /\ QtReader => IndInv'
<1> SUFFICES ASSUME IndInv, NEW p, QtDisconnects(p) \/ QtForwards(p)
             PROVE  IndInv'
  BY DEF QtReader
<1> USE DEF IndInv
<1>1. CASE QtDisconnects(p)
  <2>1. TypeOK'
    BY <1>1 DEF QtDisconnects, TypeOK, Hops
  <2> QED
    BY <1>1, <2>1 DEF QtDisconnects, WiresCarry, OnSubPi, OnPush, OnQt, OnCommand, OnTheWire, StaysInStep, CommandsFit
<1>2. CASE QtForwards(p)
  <2>1. /\ Reads("qt", p) /\ QtTakes(p) /\ Takes("qt", p, p.body)
        /\ SendsOn("qt", "command", Forwarded(p))
        /\ UNCHANGED <<tls, sent, asked, error_count, ended, events, commands>>
    BY <1>2 DEF QtForwards
  <2>2. p \in Packet /\ p \in OnQt /\ wire["qt"] # <<>>
    BY <2>1, ReadsOne DEF Hops, Reads, WiresCarry
  <2>3. PICK c \in Range(asked) : p = OnTheWire(c)
    BY <2>2 DEF OnQt
  <2>4. c \in QtCommands /\ c \in Packet /\ c.jpeg = 0
    BY <2>3, RangeIn, FramingAssumption DEF TypeOK
  <2>5. Forwarded(p) \in OnCommand /\ Forwarded(p) \in Packet
    BY <2>1, <2>2, <2>3, <2>4, WiredPacket, ForwardedPacket DEF OnCommand
  <2>6. /\ wire' \in [Hops -> Seq(Packet)]
        /\ \A g \in Hops : g # "command" => Range(wire'[g]) \subseteq Range(wire[g])
        /\ Range(wire'["command"]) \subseteq OnCommand
    BY <2>1, <2>2, <2>5, SendsOnWire DEF Hops, WiresCarry
  <2>7. /\ rest' \in [Hops -> Packet \cup {None}] /\ rest'["qt"] = None
        /\ \A g \in Hops : g # "qt" => rest'[g] = rest[g]
    <3>1. p.body \in Nat /\ p.body = p.body + p.jpeg
      BY <2>2, <2>3, <2>4, WiredPacket DEF Packet
    <3> QED
      BY <2>1, <2>2, <3>1, TakesRest DEF Hops
  <2>8. TypeOK'
    BY <2>1, <2>6, <2>7 DEF TypeOK
  <2>9. WiresCarry'
    BY <2>1, <2>6 DEF WiresCarry, OnSubPi, OnPush, OnQt, OnCommand, OnTheWire, Hops
  <2>10. StaysInStep'
    BY <2>1, <2>7 DEF StaysInStep, CommandsFit, Hops
  <2> QED
    BY <2>8, <2>9, <2>10
<1> QED
  BY <1>1, <1>2

\* A command that fits is shorter than 1 MiB, and not empty.
LEMMA CommandReadable ==
    ASSUME TypeOK, NEW p \in OnCommand, CommandsFit
    PROVE  p.body \in 1..MaxBody-1
<1>1. PICK q \in Range(asked) : QtTakes(OnTheWire(q)) /\ p = Forwarded(q)
  BY DEF OnCommand
<1>2. q \in QtCommands /\ q \in Packet /\ q.dump > 0
  BY <1>1, RangeIn, FramingAssumption DEF TypeOK
<1>3. q.dump \in Nat /\ q.body \in Nat /\ p.body = q.dump
  BY <1>1, <1>2, ForwardedPacket
<1>4. q.dump < MaxBody
  <2>1. CASE \A c \in Range(asked) : c.dump < MaxBody
    BY <1>1, <2>1
  <2>2. CASE tls /\ \A c \in Range(asked) : c.dump <= c.body
    <3>1. q.body + TlsAdds <= MaxBody
      BY <1>1, <1>2, <2>2, WiredPacket DEF QtTakes
    <3> QED
      BY <1>1, <1>3, <2>2, <3>1, FramingAssumption
  <2> QED
    BY <2>1, <2>2 DEF CommandsFit
<1> QED
  BY <1>2, <1>3, <1>4, FramingAssumption

LEMMA CommandReaderSafe == IndInv /\ CommandReader => IndInv'
<1> SUFFICES ASSUME IndInv, NEW p, HandlerTakesNothing(p) \/ HandlerTakesCommand(p)
             PROVE  IndInv'
  BY DEF CommandReader
<1> USE DEF IndInv
<1>1. Reads("command", p) /\ Drops("command") /\ UNCHANGED <<tls, sent, asked, error_count, ended, events>>
  BY DEF HandlerTakesNothing, HandlerTakesCommand
<1>2. p \in Packet /\ p \in OnCommand /\ wire["command"] # <<>>
  BY <1>1, ReadsOne DEF Hops, Reads, WiresCarry
<1>3. p.body \in Nat /\ p.jpeg = 0 /\ (CommandsFit => p.body \in 1..MaxBody-1)
  <2>1. PICK q \in Range(asked) : p = Forwarded(q)
    BY <1>2 DEF OnCommand
  <2>2. q \in QtCommands /\ q \in Packet /\ q.jpeg = 0
    BY <2>1, RangeIn, FramingAssumption DEF TypeOK
  <2> QED
    BY <1>2, <2>1, <2>2, ForwardedPacket, CommandReadable DEF Packet
<1>4. PICK n \in Nat : Takes("command", p, n) /\ (CommandsFit => n = p.body + p.jpeg)
  BY <1>3 DEF HandlerTakesNothing, HandlerTakesCommand
<1>5. /\ rest' \in [Hops -> Packet \cup {None}]
      /\ CommandsFit => rest'["command"] = None
      /\ \A g \in Hops : g # "command" => rest'[g] = rest[g]
  BY <1>2, <1>4, TakesRest DEF Hops
<1>6. wire' \in [Hops -> Seq(Packet)] /\ \A g \in Hops : Range(wire'[g]) \subseteq Range(wire[g])
  BY <1>1, <1>2, DropsWire DEF Hops
<1>7. commands' \in Seq(Packet)
  <2>1. commands \in Seq(Packet) /\ p \in Packet
    BY <1>2 DEF TypeOK
  <2>2. Append(commands, p) \in Seq(Packet)
    BY <2>1, AppendRange
  <2>3. commands' = commands \/ commands' = Append(commands, p)
    BY DEF HandlerTakesNothing, HandlerTakesCommand
  <2> QED
    BY <2>1, <2>2, <2>3
<1>8. TypeOK'
  BY <1>1, <1>5, <1>6, <1>7 DEF TypeOK
<1>9. WiresCarry'
  BY <1>1, <1>6 DEF WiresCarry, OnSubPi, OnPush, OnQt, OnCommand, OnTheWire, Hops
<1>10. StaysInStep'
  BY <1>1, <1>5 DEF StaysInStep, CommandsFit, Hops
<1> QED
  BY <1>8, <1>9, <1>10

----------------------------------------------------------------------------
(* Who sends.                                                                *)

LEMMA SubPiSendsSafe == ASSUME IndInv, NEW p \in Packets, SubPiSends(p) PROVE IndInv'
<1> USE DEF IndInv
<1>1. /\ sent' = Append(sent, p) /\ wire' = [wire EXCEPT !["subpi"] = Append(wire["subpi"], p)]
      /\ Len(sent) + Len(asked) < MaxPackets
      /\ UNCHANGED <<tls, asked, rest, error_count, ended, events, commands>>
  BY DEF SubPiSends, readers
<1>2. p \in Packet /\ wire["subpi"] \in Seq(Packet) /\ sent \in Seq(Packets) /\ asked \in Seq(QtCommands)
  BY FramingAssumption DEF TypeOK, Hops
<1>3. sent' \in Seq(Packets) /\ Len(sent') = Len(sent) + 1 /\ Range(sent') = Range(sent) \cup {p}
  BY <1>1, <1>2, AppendRange
<1>4. /\ wire'["subpi"] \in Seq(Packet) /\ Range(wire'["subpi"]) = Range(wire["subpi"]) \cup {p}
      /\ \A g \in Hops : g # "subpi" => wire'[g] = wire[g]
      /\ wire' \in [Hops -> Seq(Packet)]
  <2>1. Append(wire["subpi"], p) \in Seq(Packet)
        /\ Range(Append(wire["subpi"], p)) = Range(wire["subpi"]) \cup {p}
    BY <1>2, AppendRange
  <2> QED
    BY <1>1, <2>1 DEF TypeOK, Hops
<1>5. Len(sent') + Len(asked) <= MaxPackets
  BY <1>1, <1>2, <1>3, FramingAssumption
<1>6. TypeOK'
  BY <1>1, <1>3, <1>4, <1>5 DEF TypeOK
<1>7. WiresCarry'
  BY <1>1, <1>3, <1>4 DEF WiresCarry, OnSubPi, OnPush, OnQt, OnCommand, OnTheWire, Hops
<1>8. StaysInStep'
  BY <1>1, <1>3 DEF StaysInStep, CommandsFit
<1> QED
  BY <1>6, <1>7, <1>8

LEMMA QtAsksSafe == ASSUME IndInv, NEW p \in QtCommands, QtAsks(p) PROVE IndInv'
<1> USE DEF IndInv
<1>1. /\ asked' = Append(asked, p) /\ wire' = [wire EXCEPT !["qt"] = Append(wire["qt"], OnTheWire(p))]
      /\ Len(sent) + Len(asked) < MaxPackets
      /\ UNCHANGED <<tls, sent, rest, error_count, ended, events, commands>>
  BY DEF QtAsks, readers
<1>2. p \in Packet /\ OnTheWire(p) \in Packet
  BY FramingAssumption, WiredPacket
<1>3. wire["qt"] \in Seq(Packet) /\ sent \in Seq(Packets) /\ asked \in Seq(QtCommands)
  BY DEF TypeOK, Hops
<1>4. asked' \in Seq(QtCommands) /\ Len(asked') = Len(asked) + 1 /\ Range(asked') = Range(asked) \cup {p}
  BY <1>1, <1>3, AppendRange
<1>5. PICK q \in Packet : q = OnTheWire(p)
  BY <1>2
<1>6. /\ Range(wire'["qt"]) = Range(wire["qt"]) \cup {q}
      /\ \A g \in Hops : g # "qt" => wire'[g] = wire[g]
      /\ wire' \in [Hops -> Seq(Packet)]
  <2>1. Append(wire["qt"], q) \in Seq(Packet) /\ Range(Append(wire["qt"], q)) = Range(wire["qt"]) \cup {q}
    BY <1>3, AppendRange
  <2> QED
    BY <1>1, <1>5, <2>1 DEF TypeOK, Hops
<1>7. Len(sent) + Len(asked') <= MaxPackets
  BY <1>1, <1>3, <1>4, FramingAssumption
<1>8. TypeOK'
  BY <1>1, <1>4, <1>6, <1>7 DEF TypeOK
<1>9. WiresCarry'
  <2>1. OnSubPi' = OnSubPi /\ OnPush' = OnPush
    BY <1>1 DEF OnSubPi, OnPush
  <2>2. OnQt \subseteq OnQt' /\ OnCommand \subseteq OnCommand' /\ q \in OnQt'
    BY <1>1, <1>4, <1>5 DEF OnQt, OnCommand, OnTheWire
  <2> QED
    BY <1>6, <2>1, <2>2 DEF WiresCarry, Hops
<1>10. StaysInStep'
  BY <1>1, <1>4 DEF StaysInStep, CommandsFit
<1> QED
  BY <1>8, <1>9, <1>10

----------------------------------------------------------------------------
LEMMA InitHolds == Init => IndInv
<1> SUFFICES ASSUME Init PROVE IndInv
  OBVIOUS
<1> USE DEF Init
<1>1. TypeOK
  BY FramingAssumption DEF TypeOK
<1>2. WiresCarry
  BY DEF WiresCarry, Range, Hops
<1>3. StaysInStep
  BY DEF StaysInStep, Hops
<1> QED
  BY <1>1, <1>2, <1>3 DEF IndInv

LEMMA StepSafe == IndInv /\ [Next]_vars => IndInv'
<1> SUFFICES ASSUME IndInv, [Next]_vars PROVE IndInv'
  OBVIOUS
<1>1. ASSUME NEW h \in Hops, GivesUp(h) PROVE IndInv'
  BY <1>1 DEF GivesUp, IndInv, TypeOK, WiresCarry, OnSubPi, OnPush, OnQt, OnCommand, OnTheWire, StaysInStep, CommandsFit
<1>2. CASE UNCHANGED vars
  BY <1>2 DEF vars, IndInv, TypeOK, WiresCarry, OnSubPi, OnPush, OnQt, OnCommand, OnTheWire, StaysInStep, CommandsFit
<1> QED
  BY <1>1, <1>2, SubPiSendsSafe, QtAsksSafe, ListenerSafe, LinkReaderSafe, QtReaderSafe,
     CommandReaderSafe DEF Next

\* Every reachable state satisfies the invariant.
THEOREM InductiveInvariant == Spec => []IndInv
<1>1. Init => IndInv
  BY InitHolds
<1>2. IndInv /\ [Next]_vars => IndInv'
  BY StepSafe
<1> QED
  BY <1>1, <1>2, PTL DEF Spec

\* Every variable keeps its type, and the listener has at most three errors.
THEOREM TypeCorrect == Spec => []TypeOK
<1>1. IndInv => TypeOK
  BY DEF IndInv
<1> QED
  BY <1>1, InductiveInvariant, PTL

\* Whatever the limits are: the readers of a Sub-Pi's events stay in step if the
\* bodies fit both before and after the listener's json::dump, InternalServer's
\* if the commands fit after InternalClient's, and QtCommServer's always.
THEOREM ReadersStayInStep == Spec => []StaysInStep
<1>1. IndInv => StaysInStep
  BY DEF IndInv
<1> QED
  BY <1>1, InductiveInvariant, PTL

----------------------------------------------------------------------------
(* The events that packets lead to, packet by packet.                        *)

WantedPackets == {p \in Packet : Wanted(p)}

LEMMA EventsType ==
    ASSUME NEW s \in Seq(Packet)
    PROVE  EventsOf(s) \in Seq(Packet)
<1>1. Keep(s, WantedPackets) \in Seq(Packet \cap WantedPackets)
  BY KeepType
<1>2. Seq(Packet \cap WantedPackets) \subseteq Seq(Packet)
  OBVIOUS
<1>3. PICK w \in Seq(Packet) : w = Keep(s, WantedPackets)
  BY <1>1, <1>2
<1>4. \A p \in Packet : Forwarded(p) \in Packet
  BY ForwardedPacket
<1>5. [i \in DOMAIN w |-> Forwarded(w[i])] \in Seq(Packet)
  BY <1>4
<1> QED
  BY <1>3, <1>5 DEF EventsOf, WantedPackets

LEMMA EventsEmpty == EventsOf(<<>>) = <<>>
<1>1. Keep(<<>>, WantedPackets) = <<>>
  BY KeepEmpty
<1>2. [i \in DOMAIN <<>> |-> Forwarded(<<>>[i])] = <<>>
  OBVIOUS
<1> QED
  BY <1>1, <1>2 DEF EventsOf, WantedPackets

LEMMA EventsAppend ==
    ASSUME NEW s \in Seq(Packet), NEW p \in Packet
    PROVE  EventsOf(Append(s, p)) = IF Wanted(p) THEN Append(EventsOf(s), Forwarded(p)) ELSE EventsOf(s)
<1>1. Keep(s, WantedPackets) \in Seq(Packet)
  <2>1. Seq(Packet \cap WantedPackets) \subseteq Seq(Packet)
    OBVIOUS
  <2> QED
    BY <2>1, KeepType
<1>2. PICK w \in Seq(Packet) : w = Keep(s, WantedPackets)
  BY <1>1
<1>3. Keep(Append(s, p), WantedPackets) = IF p \in WantedPackets THEN Append(w, p) ELSE w
  BY <1>2, KeepAppend
<1>4. EventsOf(s) = [i \in DOMAIN w |-> Forwarded(w[i])]
  BY <1>2 DEF EventsOf, WantedPackets
<1>5. CASE Wanted(p)
  <2> DEFINE v == Append(w, p)
             e == [i \in DOMAIN w |-> Forwarded(w[i])]
  <2>1. EventsOf(Append(s, p)) = [i \in DOMAIN v |-> Forwarded(v[i])]
    BY <1>3, <1>5 DEF EventsOf, WantedPackets
  <2>2. /\ DOMAIN v = 1..Len(w) + 1 /\ Len(w) \in Nat /\ v[Len(w) + 1] = p
        /\ \A i \in 1..Len(w) : v[i] = w[i]
        /\ DOMAIN w = 1..Len(w)
    OBVIOUS
  <2>3. e \in Seq(Packet) /\ Len(e) = Len(w) /\ \A i \in 1..Len(w) : e[i] = Forwarded(w[i])
    <3>1. \A q \in Packet : Forwarded(q) \in Packet
      BY ForwardedPacket
    <3> QED
      BY <3>1
  <2> HIDE DEF e, v
  <2>4. PICK q \in Packet : q = Forwarded(p)
    BY ForwardedPacket
  <2>5. /\ Append(e, q) \in Seq(Packet) /\ Len(Append(e, q)) = Len(e) + 1
        /\ Append(e, q)[Len(e) + 1] = q /\ \A i \in 1..Len(e) : Append(e, q)[i] = e[i]
    BY <2>3
  <2>6. PICK z \in Seq(Packet) : z = Append(e, q)
    BY <2>5
  <2>7. z[Len(w) + 1] = q /\ Len(z) = Len(w) + 1 /\ \A i \in 1..Len(w) : z[i] = e[i]
    BY <2>3, <2>5, <2>6
  <2>8. \A i \in 1..Len(w) + 1 : z[i] = Forwarded(v[i])
    <3>1. \A i \in 1..Len(w) + 1 : i \in 1..Len(w) \/ i = Len(w) + 1
      BY <2>2
    <3> QED
      BY <2>2, <2>3, <2>4, <2>7, <3>1
  <2>9. DOMAIN z = 1..Len(z) /\ z = [i \in 1..Len(z) |-> z[i]]
    OBVIOUS
  <2>10. z = [i \in DOMAIN v |-> Forwarded(v[i])]
    BY <2>2, <2>7, <2>8, <2>9
  <2> QED
    BY <1>4, <1>5, <2>1, <2>4, <2>6, <2>10 DEF e
<1>6. CASE ~Wanted(p)
  BY <1>3, <1>4, <1>6 DEF EventsOf, WantedPackets
<1> QED
  BY <1>5, <1>6

\* The first packet leads to the first event, if to any.
LEMMA EventsHeadTail ==
    ASSUME NEW s \in Seq(Packet), s # <<>>
    PROVE  EventsOf(s) = IF Wanted(Head(s)) THEN <<Forwarded(Head(s))>> \o EventsOf(Tail(s))
                                            ELSE EventsOf(Tail(s))
<1>0. Head(s) \in Packet /\ Tail(s) \in Seq(Packet)
  OBVIOUS
<1>1. PICK p \in Packet, t \in Seq(Packet) : p = Head(s) /\ t = Tail(s)
  BY <1>0
<1>2. Keep(t, WantedPackets) \in Seq(Packet)
  <2>1. Seq(Packet \cap WantedPackets) \subseteq Seq(Packet)
    OBVIOUS
  <2> QED
    BY <2>1, KeepType
<1>3. PICK w \in Seq(Packet) : w = Keep(t, WantedPackets)
  BY <1>2
<1>4. Keep(s, WantedPackets) = IF p \in WantedPackets THEN <<p>> \o w ELSE w
  BY <1>1, <1>3, KeepHeadTail
<1>5. EventsOf(t) = [i \in DOMAIN w |-> Forwarded(w[i])]
  BY <1>3 DEF EventsOf, WantedPackets
<1>6. CASE Wanted(p)
  <2> DEFINE v == <<p>> \o w
             e == [i \in DOMAIN w |-> Forwarded(w[i])]
  <2>1. EventsOf(s) = [i \in DOMAIN v |-> Forwarded(v[i])]
    BY <1>4, <1>6 DEF EventsOf, WantedPackets
  <2>2. /\ DOMAIN v = 1..Len(w) + 1 /\ Len(w) \in Nat /\ v[1] = p
        /\ \A i \in 2..Len(w) + 1 : v[i] = w[i - 1]
        /\ DOMAIN w = 1..Len(w)
    OBVIOUS
  <2>3. e \in Seq(Packet) /\ Len(e) = Len(w) /\ \A i \in 1..Len(w) : e[i] = Forwarded(w[i])
    <3>1. \A q \in Packet : Forwarded(q) \in Packet
      BY ForwardedPacket
    <3> QED
      BY <3>1
  <2> HIDE DEF e, v
  <2>4. PICK q \in Packet : q = Forwarded(p)
    BY ForwardedPacket
  <2>5. /\ DOMAIN (<<q>> \o e) = 1..Len(w) + 1
        /\ (<<q>> \o e)[1] = q
        /\ \A i \in 2..Len(w) + 1 : (<<q>> \o e)[i] = e[i - 1]
        /\ <<q>> \o e = [i \in 1..Len(w) + 1 |-> (<<q>> \o e)[i]]
    BY <2>3
  <2>6. \A i \in 1..Len(w) + 1 : (<<q>> \o e)[i] = Forwarded(v[i])
    <3>1. \A i \in 1..Len(w) + 1 : i = 1 \/ (i \in 2..Len(w) + 1 /\ i - 1 \in 1..Len(w))
      BY <2>2
    <3> QED
      BY <2>2, <2>3, <2>4, <2>5, <3>1
  <2>7. <<q>> \o e = [i \in DOMAIN v |-> Forwarded(v[i])]
    BY <2>2, <2>5, <2>6
  <2> QED
    BY <1>1, <1>5, <1>6, <2>1, <2>4, <2>7 DEF e
<1>7. CASE ~Wanted(p)
  BY <1>1, <1>4, <1>5, <1>7 DEF EventsOf, WantedPackets
<1> QED
  BY <1>6, <1>7

----------------------------------------------------------------------------
(* Every event is passed on or on its way; three errors are three packets.    *)

\* The packets that the listener has read, in number.
Taken == Len(sent) - Len(wire["subpi"])

\* Among the first r packets of s, c bad ones with no good one after the first
\* of them.
BadRun(s, c, r) ==
    \E at \in [1..c -> 1..r] :
        /\ \A m \in 1..c : Bad(s[at[m]]) /\ \A n \in at[m]..r : ~Good(s[n])
        /\ \A m, n \in 1..c : m < n => at[m] < at[n]

OrderInv ==
    /\ rest["subpi"] = None /\ rest["push"] = None =>
          EventsOf(sent) = events \o wire["push"] \o EventsOf(wire["subpi"])
    /\ Taken \in 0..Len(sent)
    /\ \A n \in 1..Len(wire["subpi"]) : wire["subpi"][n] = sent[Taken + n]
    /\ rest["subpi"] = None => ("subpi" \in ended => error_count = 3)
    /\ BadRun(sent, error_count, Taken)

LEMMA BadRunNone == ASSUME NEW s, NEW r PROVE BadRun(s, 0, r)
<1> DEFINE at == [m \in 1..0 |-> 0]
<1>1. at \in [1..0 -> 1..r] /\ \A m \in 1..0 : FALSE
  OBVIOUS
<1> QED
  BY <1>1 DEF BadRun

LEMMA BadRunAppend ==
    ASSUME NEW S, NEW s \in Seq(S), NEW e \in S, NEW c \in Nat, NEW r \in 0..Len(s), BadRun(s, c, r)
    PROVE  BadRun(Append(s, e), c, r)
<1>1. PICK at \in [1..c -> 1..r] :
        /\ \A m \in 1..c : Bad(s[at[m]]) /\ \A n \in at[m]..r : ~Good(s[n])
        /\ \A m, n \in 1..c : m < n => at[m] < at[n]
  BY DEF BadRun
<1>2. \A n \in 1..r : Append(s, e)[n] = s[n]
  OBVIOUS
<1>3. \A m \in 1..c : at[m] \in 1..r
  BY <1>1
<1>4. ASSUME NEW m \in 1..c PROVE Bad(Append(s, e)[at[m]]) /\ \A n \in at[m]..r : ~Good(Append(s, e)[n])
  <2>1. \A n \in at[m]..r : n \in 1..r
    BY <1>3
  <2> QED
    BY <1>1, <1>2, <1>3, <2>1
<1> QED
  BY <1>1, <1>4 DEF BadRun

\* One more packet that is not good, and perhaps bad.
LEMMA BadRunNeutral ==
    ASSUME NEW s, NEW c \in Nat, NEW r \in Nat, ~Good(s[r + 1]), BadRun(s, c, r)
    PROVE  BadRun(s, c, r + 1)
<1>1. PICK at \in [1..c -> 1..r] :
        /\ \A m \in 1..c : Bad(s[at[m]]) /\ \A n \in at[m]..r : ~Good(s[n])
        /\ \A m, n \in 1..c : m < n => at[m] < at[n]
  BY DEF BadRun
<1>2. at \in [1..c -> 1..(r + 1)]
  BY <1>1
<1>3. ASSUME NEW m \in 1..c PROVE Bad(s[at[m]]) /\ \A n \in at[m]..r + 1 : ~Good(s[n])
  <2>1. \A n \in at[m]..r + 1 : n \in at[m]..r \/ n = r + 1
    BY <1>1
  <2> QED
    BY <1>1, <2>1
<1>4. \A m, n \in 1..c : m < n => at[m] < at[n]
  BY <1>1
<1> QED
  BY <1>2, <1>3, <1>4 DEF BadRun

LEMMA BadRunBad ==
    ASSUME NEW s, NEW c \in Nat, NEW r \in Nat, Bad(s[r + 1]), BadRun(s, c, r)
    PROVE  BadRun(s, c + 1, r + 1)
<1>0. ~Good(s[r + 1])
  BY DEF Bad, Good, Wanted
<1>1. PICK at \in [1..c -> 1..r] :
        /\ \A m \in 1..c : Bad(s[at[m]]) /\ \A n \in at[m]..r : ~Good(s[n])
        /\ \A m, n \in 1..c : m < n => at[m] < at[n]
  BY DEF BadRun
<1> DEFINE up == [m \in 1..c + 1 |-> IF m <= c THEN at[m] ELSE r + 1]
<1>2. /\ up \in [1..c + 1 -> 1..r + 1] /\ up[c + 1] = r + 1
      /\ \A m \in 1..c : up[m] = at[m] /\ at[m] \in 1..r
      /\ \A m \in 1..c + 1 : m \in 1..c \/ m = c + 1
  OBVIOUS
<1> HIDE DEF up
<1>3. ASSUME NEW m \in 1..c + 1 PROVE Bad(s[up[m]]) /\ \A n \in up[m]..r + 1 : ~Good(s[n])
  <2>1. CASE m \in 1..c
    <3>1. \A n \in at[m]..r + 1 : n \in at[m]..r \/ n = r + 1
      BY <1>2, <2>1
    <3> QED
      BY <1>0, <1>1, <1>2, <2>1, <3>1
  <2>2. CASE m = c + 1
    <3>1. \A n \in r + 1..r + 1 : n = r + 1
      OBVIOUS
    <3> QED
      BY <1>0, <1>2, <2>2, <3>1
  <2> QED
    BY <1>2, <2>1, <2>2
<1>4. ASSUME NEW m \in 1..c + 1, NEW n \in 1..c + 1, m < n PROVE up[m] < up[n]
  <2>1. m \in 1..c
    BY <1>4
  <2>2. CASE n \in 1..c
    BY <1>1, <1>2, <1>4, <2>1, <2>2
  <2>3. CASE n = c + 1
    BY <1>2, <2>1, <2>3
  <2> QED
    BY <1>2, <2>2, <2>3
<1> QED
  BY <1>2, <1>3, <1>4 DEF BadRun

\* Three bad packets in a row are what the property speaks of.
LEMMA BadRunOfThree ==
    ASSUME NEW S, NEW s \in Seq(S), NEW r \in 0..Len(s), BadRun(s, 3, r)
    PROVE  \E i, j, k \in DOMAIN s :
              /\ i < j /\ j < k
              /\ \A n \in {i, j, k} : Bad(s[n])
              /\ \A n \in i..k : ~Good(s[n])
<1>1. PICK at \in [1..3 -> 1..r] :
        /\ \A m \in 1..3 : Bad(s[at[m]]) /\ \A n \in at[m]..r : ~Good(s[n])
        /\ \A m, n \in 1..3 : m < n => at[m] < at[n]
  BY DEF BadRun
<1>2. \A m \in 1..3 : at[m] \in 1..r /\ at[m] \in DOMAIN s
  BY <1>1
<1>3. PICK i \in 1..r, j \in 1..r, k \in 1..r : i = at[1] /\ j = at[2] /\ k = at[3]
  BY <1>2
<1>4. i < j /\ j < k /\ Bad(s[i]) /\ Bad(s[j]) /\ Bad(s[k])
  BY <1>1, <1>3
<1>5. \A n \in i..k : ~Good(s[n])
  <2>1. \A n \in i..k : n \in i..r
    OBVIOUS
  <2> QED
    BY <1>1, <1>3, <2>1
<1>6. i \in DOMAIN s /\ j \in DOMAIN s /\ k \in DOMAIN s
  BY <1>2, <1>3
<1> QED
  BY <1>4, <1>5, <1>6

\* Queues behind one another.
LEMMA QueueLast ==
    ASSUME NEW S, NEW u \in Seq(S), NEW v \in Seq(S), NEW w \in Seq(S), NEW e \in S
    PROVE  (u \o v) \o Append(w, e) = Append((u \o v) \o w, e)
OBVIOUS

LEMMA QueueFirst ==
    ASSUME NEW S, NEW u \in Seq(S), NEW v \in Seq(S), v # <<>>
    PROVE  Append(u, Head(v)) \o Tail(v) = u \o v
OBVIOUS

LEMMA SubPiSendsOrder == ASSUME IndInv, OrderInv, NEW p \in Packets, SubPiSends(p) PROVE OrderInv'
<1>1. /\ sent' = Append(sent, p) /\ wire' = [wire EXCEPT !["subpi"] = Append(wire["subpi"], p)]
      /\ UNCHANGED <<rest, error_count, ended, events>>
  BY DEF SubPiSends, readers
<1>2. /\ p \in Packet /\ sent \in Seq(Packets) /\ sent \in Seq(Packet) /\ events \in Seq(Packet)
      /\ wire["subpi"] \in Seq(Packet) /\ wire["push"] \in Seq(Packet) /\ error_count \in Nat
  <2>1. Seq(Packets) \subseteq Seq(Packet)
    BY FramingAssumption
  <2> QED
    BY <2>1, FramingAssumption DEF IndInv, TypeOK, Hops
<1>3. wire'["subpi"] = Append(wire["subpi"], p) /\ wire'["push"] = wire["push"]
  BY <1>1 DEF IndInv, TypeOK, Hops
<1>4. PICK s \in Seq(Packet), w \in Seq(Packet), u \in Seq(Packet), v \in Seq(Packet) :
        s = sent /\ w = wire["subpi"] /\ u = events /\ v = wire["push"]
  BY <1>2
<1>5. ASSUME rest'["subpi"] = None, rest'["push"] = None
      PROVE  EventsOf(sent') = events' \o wire'["push"] \o EventsOf(wire'["subpi"])
  <2>1. EventsOf(s) = u \o v \o EventsOf(w)
    BY <1>1, <1>4, <1>5 DEF OrderInv
  <2>2. PICK e \in Seq(Packet), q \in Packet : e = EventsOf(w) /\ q = Forwarded(p)
    BY <1>2, EventsType, ForwardedPacket
  <2>3. EventsOf(Append(s, p)) = IF Wanted(p) THEN Append(u \o v \o e, q) ELSE u \o v \o e
    BY <1>2, <2>1, <2>2, EventsAppend
  <2>4. EventsOf(Append(w, p)) = IF Wanted(p) THEN Append(e, q) ELSE e
    BY <1>2, <2>2, EventsAppend
  <2>5. u \o v \o Append(e, q) = Append(u \o v \o e, q)
    BY QueueLast
  <2> QED
    BY <1>1, <1>3, <1>4, <2>3, <2>4, <2>5
<1>6. /\ Len(sent') = Len(sent) + 1 /\ Len(wire'["subpi"]) = Len(wire["subpi"]) + 1
      /\ \A n \in 1..Len(sent) : sent'[n] = sent[n]
      /\ \A n \in 1..Len(wire["subpi"]) : wire'["subpi"][n] = wire["subpi"][n]
      /\ sent'[Len(sent) + 1] = p /\ wire'["subpi"][Len(wire["subpi"]) + 1] = p
      /\ Len(sent) \in Nat /\ Len(wire["subpi"]) \in Nat
  BY <1>1, <1>2, <1>3
<1>7. Taken' = Taken /\ Taken \in 0..Len(sent)
  BY <1>6 DEF Taken, OrderInv
<1>8. ASSUME NEW n \in 1..Len(wire'["subpi"]) PROVE wire'["subpi"][n] = sent'[Taken' + n]
  <2>1. CASE n = Len(wire["subpi"]) + 1
    <3>1. PICK a \in Nat, b \in Nat, t \in Nat : a = Len(sent) /\ b = Len(wire["subpi"]) /\ t = Taken
      BY <1>6, <1>7
    <3>2. t = a - b /\ n = b + 1
      BY <2>1, <3>1 DEF Taken
    <3>3. t + n = a + 1
      BY <3>2
    <3> QED
      BY <1>6, <1>7, <2>1, <3>1, <3>3
  <2>2. CASE n \in 1..Len(wire["subpi"])
    <3>1. Taken + n \in 1..Len(sent)
      BY <1>6, <1>7, <2>2 DEF Taken
    <3>2. wire["subpi"][n] = sent[Taken + n]
      BY <2>2 DEF OrderInv
    <3> QED
      BY <1>6, <1>7, <2>2, <3>1, <3>2
  <2> QED
    BY <1>6, <2>1, <2>2
<1>9. BadRun(sent', error_count', Taken')
  <2>1. PICK r \in 0..Len(s), c \in Nat : r = Taken /\ c = error_count
    BY <1>2, <1>4, <1>7
  <2>2. BadRun(s, c, r)
    BY <1>4, <2>1 DEF OrderInv
  <2>3. BadRun(Append(s, p), c, r)
    BY <1>2, <2>2, BadRunAppend
  <2> QED
    BY <1>1, <1>4, <1>7, <2>1, <2>3
<1>10. Taken' \in 0..Len(sent')
  BY <1>6, <1>7
<1> QED
  BY <1>1, <1>5, <1>8, <1>9, <1>10 DEF OrderInv
\* Where the listener is, once it has read a packet.
LEMMA ListenerPosition ==
    ASSUME IndInv, OrderInv, NEW p, Reads("subpi", p), sent' = sent, wire'["subpi"] = Tail(wire["subpi"])
    PROVE  \E s \in Seq(Packet), w \in Seq(Packet), r \in Nat :
              /\ s = sent /\ w = wire["subpi"] /\ w # <<>> /\ p = Head(w) /\ p = s[r + 1]
              /\ r = Taken /\ Taken' = r + 1 /\ r + 1 \in 0..Len(sent')
              /\ \A n \in 1..Len(wire'["subpi"]) : wire'["subpi"][n] = sent'[r + 1 + n]
<1>1. /\ sent \in Seq(Packet) /\ wire["subpi"] \in Seq(Packet)
      /\ wire["subpi"] # <<>> /\ p = Head(wire["subpi"])
  <2>1. Seq(Packets) \subseteq Seq(Packet)
    BY FramingAssumption
  <2> QED
    BY <2>1 DEF IndInv, TypeOK, Hops, Reads
<1>2. PICK s \in Seq(Packet), w \in Seq(Packet) : s = sent /\ w = wire["subpi"]
  BY <1>1
<1>3. PICK a \in Nat, b \in Nat : a = Len(s) /\ b = Len(w) /\ b > 0
  BY <1>1, <1>2
<1>4. a - b \in 0..a /\ Taken = a - b /\ \A n \in 1..b : w[n] = s[(a - b) + n]
  BY <1>2, <1>3 DEF OrderInv, Taken
<1>5. PICK r \in Nat : r = a - b
  BY <1>4
<1>6. w[1] = s[r + 1] /\ p = w[1]
  <2>1. 1 \in 1..b
    BY <1>3
  <2>2. w[1] = s[(a - b) + 1]
    BY <1>4, <2>1
  <2>3. p = w[1]
    BY <1>1, <1>2
  <2> QED
    BY <1>5, <2>2, <2>3
<1>7. Tail(w) \in Seq(Packet) /\ Len(Tail(w)) = b - 1 /\ \A n \in 1..b - 1 : Tail(w)[n] = w[n + 1]
  BY <1>1, <1>2, <1>3
<1>8. Taken' = r + 1
  <2>1. Taken' = a - (b - 1)
    BY <1>2, <1>3, <1>7 DEF Taken
  <2> QED
    BY <1>5, <2>1
<1>9. ASSUME NEW n \in 1..b - 1 PROVE Tail(w)[n] = s[r + 1 + n]
  <2>1. n + 1 \in 1..b /\ (a - b) + (n + 1) = r + 1 + n
    BY <1>5
  <2> QED
    BY <1>4, <1>7, <2>1
<1>10. r + 1 \in 0..Len(sent')
  BY <1>2, <1>3, <1>5
<1>11. \A n \in 1..Len(wire'["subpi"]) : wire'["subpi"][n] = sent'[r + 1 + n]
  BY <1>2, <1>7, <1>9
<1>12. w # <<>> /\ p = Head(w) /\ p = s[r + 1] /\ r = Taken
  BY <1>1, <1>2, <1>4, <1>5, <1>6
<1> QED
  BY <1>2, <1>8, <1>10, <1>11, <1>12

\* A packet that leads to an event has it queued behind the others; one that
\* leads to none has not; and errors are counted as they follow one another.
LEMMA ListenerOrder == IndInv /\ OrderInv /\ Listener => OrderInv'
<1> SUFFICES ASSUME IndInv, OrderInv, NEW p,
                    ListenerSkips(p) \/ ListenerFails(p) \/ ListenerForwards(p)
                    \/ ListenerKeepsStatus(p) \/ ListenerIgnores(p)
             PROVE  OrderInv'
  BY DEF Listener
<1>1. Reads("subpi", p) /\ sent' = sent /\ events' = events
  BY DEF ListenerSkips, ListenerFails, ListenerForwards, ListenerKeepsStatus, ListenerIgnores
<1>2. TypeOK /\ p \in Packet /\ wire["push"] \in Seq(Packet) /\ events \in Seq(Packet)
  BY <1>1, SubPiPacket DEF IndInv, TypeOK, Hops
<1>3. \/ ~Wanted(p) /\ Drops("subpi")
      \/ Wanted(p) /\ SendsOn("subpi", "push", Forwarded(p))
  BY <1>2 DEF ListenerSkips, ListenerFails, ListenerForwards, ListenerKeepsStatus, ListenerIgnores,
     Wanted, Parsed, Packet
<1>4. /\ wire'["subpi"] = Tail(wire["subpi"])
      /\ wire'["push"] = IF Wanted(p) THEN Append(wire["push"], Forwarded(p)) ELSE wire["push"]
  BY <1>2, <1>3 DEF Drops, SendsOn, TypeOK, Hops
<1>5. PICK s \in Seq(Packet), w \in Seq(Packet), r \in Nat :
        /\ s = sent /\ w = wire["subpi"] /\ w # <<>> /\ p = Head(w) /\ p = s[r + 1]
        /\ r = Taken /\ Taken' = r + 1 /\ r + 1 \in 0..Len(sent')
        /\ \A n \in 1..Len(wire'["subpi"]) : wire'["subpi"][n] = sent'[r + 1 + n]
  BY <1>1, <1>4, ListenerPosition
<1>6. rest["subpi"] = None /\ rest'["push"] = rest["push"] /\ "subpi" \notin ended
  BY <1>1, <1>2 DEF ListenerSkips, ListenerFails, ListenerForwards, ListenerKeepsStatus, ListenerIgnores,
     Takes, Reads, TypeOK, Hops
<1>7. ASSUME rest'["push"] = None
      PROVE  EventsOf(sent') = events' \o wire'["push"] \o EventsOf(wire'["subpi"])
  <2>1. PICK u \in Seq(Packet), v \in Seq(Packet), q \in Packet :
          u = events /\ v = wire["push"] /\ q = Forwarded(p)
    BY <1>2, ForwardedPacket
  <2>2. Tail(w) \in Seq(Packet)
    BY <1>5
  <2>3. PICK e \in Seq(Packet) : e = EventsOf(Tail(w))
    BY <2>2, EventsType
  <2>4. EventsOf(s) = u \o v \o EventsOf(w)
    BY <1>5, <1>6, <1>7, <2>1 DEF OrderInv
  <2>5. EventsOf(w) = IF Wanted(p) THEN <<q>> \o e ELSE e
    BY <1>5, <2>1, <2>3, EventsHeadTail
  <2>6. u \o Append(v, q) \o e = u \o v \o (<<q>> \o e)
    <3>1. u \o v \in Seq(Packet)
      OBVIOUS
    <3>2. PICK x \in Seq(Packet) : x = u \o v
      BY <3>1
    <3>3. u \o Append(v, q) = Append(x, q)
      BY <3>2
    <3>4. Append(x, q) \o e = x \o (<<q>> \o e)
      <4>1. Append(x, q) = x \o <<q>> /\ <<q>> \in Seq(Packet)
        OBVIOUS
      <4>2. PICK y \in Seq(Packet) : y = <<q>>
        BY <4>1
      <4>3. (x \o y) \o e = x \o (y \o e)
        OBVIOUS
      <4> QED
        BY <4>1, <4>2, <4>3
    <3> QED
      BY <3>2, <3>3, <3>4
  <2>7. CASE Wanted(p)
    <3>1. wire'["push"] = Append(v, q) /\ EventsOf(w) = <<q>> \o e
      BY <1>4, <2>1, <2>5, <2>7
    <3>2. EventsOf(s) = u \o Append(v, q) \o e
      BY <2>4, <2>6, <3>1
    <3> QED
      BY <1>1, <1>4, <1>5, <2>1, <2>3, <3>1, <3>2
  <2>8. CASE ~Wanted(p)
    <3>1. wire'["push"] = v /\ EventsOf(w) = e
      BY <1>4, <2>1, <2>5, <2>8
    <3> QED
      BY <1>1, <1>4, <1>5, <2>1, <2>3, <2>4, <3>1
  <2> QED
    BY <2>7, <2>8
<1>8. PICK c \in Nat : c = error_count
  BY <1>2 DEF TypeOK
<1>9. BadRun(s, c, r)
  BY <1>5, <1>8 DEF OrderInv
<1>10. BadRun(sent', error_count', Taken') /\ ("subpi" \in ended' => error_count' = 3)
  <2>1. CASE ListenerFails(p)
    <3>1. Bad(p) /\ error_count' = c + 1 /\ error_count' \in 0..3
      <4>1. c < 3
        BY <1>2, <1>6, <1>8 DEF TypeOK
      <4> QED
        BY <1>8, <2>1, <4>1 DEF ListenerFails, Bad
    <3>2. "subpi" \in ended' => error_count' >= 3
      BY <1>6, <2>1 DEF ListenerFails
    <3>3. BadRun(s, c + 1, r + 1)
      BY <1>5, <1>9, <3>1, BadRunBad
    <3> QED
      BY <1>1, <1>5, <3>1, <3>2, <3>3
  <2>2. CASE ListenerForwards(p) \/ ListenerKeepsStatus(p)
    <3>1. error_count' = 0 /\ ended' = ended
      BY <2>2 DEF ListenerForwards, ListenerKeepsStatus
    <3> QED
      BY <1>6, <3>1, BadRunNone
  <2>3. CASE ListenerSkips(p) \/ ListenerIgnores(p)
    <3>1. ~Good(p) /\ error_count' = c /\ ended' = ended
      BY <1>8, <2>3 DEF ListenerSkips, ListenerIgnores, Good, Wanted, Parsed, JpegReadable
    <3>2. BadRun(s, c, r + 1)
      BY <1>5, <1>9, <3>1, BadRunNeutral
    <3> QED
      BY <1>1, <1>5, <1>6, <3>1, <3>2
  <2> QED
    BY <2>1, <2>2, <2>3
<1> QED
  BY <1>5, <1>7, <1>10 DEF OrderInv

\* InternalClient reads in step only what it passes on.
LEMMA LinkReaderOrder == IndInv /\ OrderInv /\ LinkReader => OrderInv'
<1> SUFFICES ASSUME IndInv, OrderInv, NEW p, ClientSkips(p) \/ ClientDispatches(p)
             PROVE  OrderInv'
  BY DEF LinkReader
<1>1. /\ Reads("push", p) /\ Drops("push") /\ UNCHANGED <<sent, error_count, ended>>
      /\ TypeOK /\ WiresCarry
  BY DEF ClientSkips, ClientDispatches, IndInv
<1>2. p \in Packet /\ p \in Range(wire["push"]) /\ rest["push"] = None /\ wire["push"] # <<>>
  BY <1>1, ReadsOne DEF Hops, Reads
<1>3. /\ wire'["subpi"] = wire["subpi"] /\ wire'["push"] = Tail(wire["push"])
      /\ rest'["subpi"] = rest["subpi"] /\ Taken' = Taken /\ p = Head(wire["push"])
  BY <1>1 DEF ClientSkips, ClientDispatches, Drops, Takes, TypeOK, Hops, Taken, Reads
<1>4. ASSUME rest'["subpi"] = None, rest'["push"] = None
      PROVE  EventsOf(sent') = events' \o wire'["push"] \o EventsOf(wire'["subpi"])
  <2>1. events' = Append(events, p)
    <3>1. CASE ClientDispatches(p)
      BY <3>1 DEF ClientDispatches
    <3>2. CASE ClientSkips(p)
      <4>1. PICK q \in Range(sent) : Wanted(q) /\ p = Forwarded(q)
        BY <1>1, <1>2 DEF WiresCarry, OnPush
      <4>2. q \in Packets /\ q \in Packet /\ q.body \in Nat /\ q.jpeg \in Nat
        BY <1>1, <4>1, RangeIn, FramingAssumption DEF TypeOK, Packet
      <4>3. /\ p.body > 0 /\ p.body \in Nat /\ p.jpeg \in Nat
            /\ p.type = "IMAGE" => p.jpeg > 0
        BY <4>1, <4>2, ForwardedPacket, FramingAssumption DEF Wanted, JpegReadable
      <4>4. p # None
        BY <1>2, FramingAssumption
      <4>5. rest'["push"] = IF (IF BodyFits(p) THEN p.body ELSE 0) = p.body + p.jpeg THEN None ELSE p
        BY <1>1, <3>2 DEF ClientSkips, Takes, TypeOK, Hops
      <4>6. (IF BodyFits(p) THEN p.body ELSE 0) # p.body + p.jpeg
        BY <3>2, <4>3 DEF ClientSkips, JpegFits
      <4> QED
        BY <1>4, <4>4, <4>5, <4>6
    <3> QED
      BY <3>1, <3>2
  <2>2. events \in Seq(Packet) /\ wire["push"] \in Seq(Packet) /\ wire["subpi"] \in Seq(Packet)
    BY <1>1 DEF TypeOK, Hops
  <2>3. PICK u \in Seq(Packet), v \in Seq(Packet) : u = events /\ v = wire["push"]
    BY <2>2
  <2>4. EventsOf(sent) = u \o v \o EventsOf(wire["subpi"])
    BY <1>2, <1>3, <1>4, <2>3 DEF OrderInv
  <2>5. Append(u, Head(v)) \o Tail(v) = u \o v
    BY <1>2, <2>3, QueueFirst
  <2> QED
    BY <1>1, <1>3, <2>1, <2>3, <2>4, <2>5
<1> QED
  BY <1>1, <1>3, <1>4 DEF OrderInv

\* Commands go another way.
LEMMA OthersOrder ==
    ASSUME IndInv, OrderInv, NEW h \in Hops \ {"subpi"},
           UNCHANGED <<sent, error_count, events>>,
           wire'["subpi"] = wire["subpi"], wire'["push"] = wire["push"],
           rest'["subpi"] = rest["subpi"], rest'["push"] = rest["push"],
           ended' = ended \/ ended' = ended \cup {h}
    PROVE  OrderInv'
<1>1. Taken' = Taken /\ ("subpi" \in ended' <=> "subpi" \in ended)
  BY DEF Taken
<1> QED
  BY <1>1 DEF OrderInv

LEMMA OrderStep == IndInv /\ OrderInv /\ [Next]_vars => OrderInv'
<1> SUFFICES ASSUME IndInv, OrderInv, [Next]_vars PROVE OrderInv'
  OBVIOUS
<1>0. TypeOK
  BY DEF IndInv
<1>1. ASSUME NEW p \in QtCommands, QtAsks(p) PROVE OrderInv'
  <2>1. /\ UNCHANGED <<sent, error_count, events, rest, ended>>
        /\ wire'["subpi"] = wire["subpi"] /\ wire'["push"] = wire["push"]
    BY <1>0, <1>1 DEF QtAsks, readers, TypeOK, Hops
  <2> QED
    BY <2>1, OthersOrder DEF Hops
<1>2. ASSUME NEW p, QtDisconnects(p) \/ QtForwards(p) PROVE OrderInv'
  <2>1. /\ UNCHANGED <<sent, error_count, events>>
        /\ wire'["subpi"] = wire["subpi"] /\ wire'["push"] = wire["push"]
        /\ rest'["subpi"] = rest["subpi"] /\ rest'["push"] = rest["push"]
        /\ ended' = ended \/ ended' = ended \cup {"qt"}
    BY <1>0, <1>2 DEF QtDisconnects, QtForwards, Takes, SendsOn, TypeOK, Hops
  <2> QED
    BY <2>1, OthersOrder DEF Hops
<1>3. ASSUME NEW p, HandlerTakesNothing(p) \/ HandlerTakesCommand(p) PROVE OrderInv'
  <2>1. /\ UNCHANGED <<sent, error_count, events, ended>>
        /\ wire'["subpi"] = wire["subpi"] /\ wire'["push"] = wire["push"]
        /\ rest'["subpi"] = rest["subpi"] /\ rest'["push"] = rest["push"]
    BY <1>0, <1>3 DEF HandlerTakesNothing, HandlerTakesCommand, Takes, Drops, TypeOK, Hops
  <2> QED
    BY <2>1, OthersOrder DEF Hops
<1>4. ASSUME NEW h \in Hops, GivesUp(h) PROVE OrderInv'
  <2>1. /\ UNCHANGED <<sent, error_count, events, wire, rest>>
        /\ ended' = ended \cup {h} /\ rest[h] # None
    BY <1>4 DEF GivesUp
  <2>2. CASE h # "subpi"
    BY <2>1, <2>2, OthersOrder
  <2>3. CASE h = "subpi"
    BY <2>1, <2>3 DEF OrderInv, Taken
  <2> QED
    BY <2>2, <2>3
<1>5. CASE UNCHANGED vars
  BY <1>5 DEF vars, OrderInv, Taken
<1> QED
  BY <1>1, <1>2, <1>3, <1>4, <1>5, SubPiSendsOrder, ListenerOrder, LinkReaderOrder
     DEF Next, QtReader, CommandReader

LEMMA OrderInit == Init => OrderInv
<1> SUFFICES ASSUME Init PROVE OrderInv
  OBVIOUS
<1>1. /\ sent = <<>> /\ events = <<>> /\ wire["subpi"] = <<>> /\ wire["push"] = <<>>
      /\ error_count = 0 /\ ended = {}
  BY DEF Init, Hops
<1>2. EventsOf(sent) = events \o wire["push"] \o EventsOf(wire["subpi"])
  <2>1. <<>> = <<>> \o <<>> \o <<>>
    OBVIOUS
  <2> QED
    BY <1>1, <2>1, EventsEmpty
<1>3. Len(sent) = 0 /\ Taken = 0 /\ \A n \in 1..0 : FALSE
  BY <1>1 DEF Taken
<1>4. BadRun(sent, error_count, Taken)
  BY <1>1, BadRunNone
<1> QED
  BY <1>1, <1>2, <1>3, <1>4 DEF OrderInv

\* In every reachable state, what was read, passed on and counted adds up.
THEOREM OrderInvariant == Spec => []OrderInv
<1>1. Init => OrderInv
  BY OrderInit
<1>2. IndInv /\ OrderInv /\ [Next]_vars => OrderInv'
  BY OrderStep
<1> QED
  BY <1>1, <1>2, InductiveInvariant, PTL DEF Spec

\* As long as the two readers are in step, what InternalClient has passed on
\* and what is on its way are together the events of what the Sub-Pi has sent,
\* each once and in that order; and the listener ends only upon three packets
\* that are no JSON, with none between them that it could use.
THEOREM EventsArriveInOrder == Spec => []EventsInOrder
<1>1. IndInv /\ OrderInv => EventsInOrder
  <2> SUFFICES ASSUME IndInv, OrderInv, rest["subpi"] = None, rest["push"] = None
               PROVE  /\ EventsOf(sent) = events \o wire["push"] \o EventsOf(wire["subpi"])
                      /\ "subpi" \in ended =>
                            \E i, j, k \in DOMAIN sent :
                                /\ i < j /\ j < k
                                /\ \A n \in {i, j, k} : Bad(sent[n])
                                /\ \A n \in i..k : ~Good(sent[n])
    BY DEF EventsInOrder
  <2>1. EventsOf(sent) = events \o wire["push"] \o EventsOf(wire["subpi"])
    BY DEF OrderInv
  <2>2. ASSUME "subpi" \in ended
        PROVE  \E i, j, k \in DOMAIN sent :
                  /\ i < j /\ j < k
                  /\ \A n \in {i, j, k} : Bad(sent[n])
                  /\ \A n \in i..k : ~Good(sent[n])
    <3>1. sent \in Seq(Packets) /\ Taken \in 0..Len(sent) /\ BadRun(sent, 3, Taken)
      BY <2>2 DEF OrderInv, IndInv, TypeOK
    <3>2. PICK s \in Seq(Packets), r \in 0..Len(sent) : s = sent /\ r = Taken
      BY <3>1
    <3>3. \E i, j, k \in DOMAIN s :
             /\ i < j /\ j < k
             /\ \A n \in {i, j, k} : Bad(s[n])
             /\ \A n \in i..k : ~Good(s[n])
      BY <3>1, <3>2, BadRunOfThree
    <3> QED
      BY <3>2, <3>3
  <2> QED
    BY <2>1, <2>2
<1> QED
  BY <1>1, InductiveInvariant, OrderInvariant, PTL
============================================================================
