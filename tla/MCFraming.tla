----------------------------- MODULE MCFraming -----------------------------
(* Framing with lengths on both sides of every limit.                         *)
EXTENDS Framing

\* MaxBody and MaxJpeg are 2 in the runs: lengths below, at and above them, as
\* sent and as passed on.
Event(n, dump) == [type |-> "event", body |-> n, json |-> TRUE, dump |-> dump, jpeg |-> 0]
Image(n, jpeg) == [Event(n, n + 1) EXCEPT !.type = "IMAGE", !.jpeg = jpeg]
NoJson(p) == [p EXCEPT !.json = FALSE]

MCPackets ==
    {Event(n, n + 1) : n \in 0..3} \cup {Event(1, 3), Event(2, 2)}
    \cup {Image(1, jpeg) : jpeg \in 0..3} \cup {Image(2, 1)}
    \cup {NoJson(Event(1, 1)), NoJson(Image(1, 0)), NoJson(Image(1, 1))}
    \cup {[Event(1, 1) EXCEPT !.type = type] : type \in {"AVAILABLE", "other"}}

MCQtCommands ==
    {[Event(n, n) EXCEPT !.type = "DEVICE"] : n \in 1..3}
    \cup {[Event(1, 2) EXCEPT !.type = "DEVICE"], [Event(2, 1) EXCEPT !.type = "DEVICE"]}
============================================================================
