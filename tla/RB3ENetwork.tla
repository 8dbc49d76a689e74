---------------------------- MODULE RB3ENetwork ----------------------------
(***************************************************************************)
(* network/RB3E_Network: light commands over UDP.  The program listens to  *)
(* a game that sends them, or sends them on to another Pi.  The network    *)
(* may lose, repeat and reorder packets.                                   *)
(***************************************************************************)
EXTENDS Integers, FiniteSets, SequencesExt

CONSTANTS
    Foreign,    \* what other programs may send to the Pi: [from, magic, type, weights]
    Capacity    \* bound: that many packets are under way, of more some are lost

ASSUME CapacityAssumption == Capacity \in Nat \ {0}

AnyAddress == <<0, 0, 0, 0>>      \* no address in particular
Here == <<192, 168, 1, 2>>        \* the Pi's own, the bytes in the order they are sent in

VARIABLES
    net,    \* the socket, m_expected_source_ip, the type of the last event, the last weights
    wire    \* the packets under way

netVars == <<net, wire>>

\* Types: "stagekit", one of the seven others ("other"), or none since the socket opened.
NetInit ==
    /\ net = [socket |-> "none", expected |-> AnyAddress, type |-> "none", weights |-> "none"]
    /\ wire = {}

\* A socket that is open is closed before another is made.
StopNetwork(n) == [n EXCEPT !.socket = "none", !.type = "none"]
Receiver(n, source) == [StopNetwork(n) EXCEPT !.socket = "receiver", !.expected = source]
Sender(n) == [StopNetwork(n) EXCEPT !.socket = "sender"]

\* inet_addr gives the bytes as they are sent, ntohl turns them round: on a
\* little-endian machine, which a Pi is, the two are compared in opposite orders.
Ntohl(address) == Reverse(address)

Accepts(n, p) ==
    /\ n.socket = "receiver"
    /\ n.expected # AnyAddress => n.expected = Ntohl(p.from)
    /\ p.magic

\* What Poll keeps of a packet it accepts; a type it does not know is kept as well.
Heard(n, p) == [n EXCEPT !.type = p.type,
                         !.weights = IF p.type = "stagekit" THEN p.weights ELSE @]

EventWasStagekit(n) == n.type = "stagekit"

-----------------------------------------------------------------------------
Put(p) == \E kept \in SUBSET wire : Cardinality(kept) < Capacity /\ wire' = kept \cup {p}

\* A packet is taken from the wire, or taken and still there: it was sent twice.
Receive(p) == p \in wire /\ wire' \in {wire, wire \ {p}}

Packet(command) == [from |-> Here, magic |-> TRUE, type |-> "stagekit", weights |-> command]

SendLightEventExceptOff(n, command) ==
    IF n.socket = "sender" /\ command # "fogOff" THEN Put(Packet(command)) ELSE UNCHANGED wire

\* Who is no sender sends nothing, and nobody looks at the return value.
SendLightEvent(n, command) ==
    IF n.socket = "sender" THEN Put(Packet(command)) ELSE UNCHANGED wire

Lose == \E p \in wire : wire' = wire \ {p} /\ UNCHANGED net

\* Without a socket that listens the packet is gone at once.
ForeignSends ==
    /\ net.socket = "receiver"
    /\ \E p \in Foreign : Put(p)
    /\ UNCHANGED net
=============================================================================
