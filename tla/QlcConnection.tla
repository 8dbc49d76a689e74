--------------------------- MODULE QlcConnection ---------------------------
(***************************************************************************)
(* dmxified/output/QlcplusOutputProcessor and dmxified/websocket: outputs  *)
(* for QLC+ go over a websocket that is opened when one is to be sent and  *)
(* none is open.  process runs under the engine's mutex, the handlers of   *)
(* the connections in the thread of the websocket library; QLC+ may take   *)
(* its time, refuse, break off, or be restarted.                           *)
(*                                                                         *)
(* A connection that is left behind is not closed.  A handler belongs to   *)
(* one connection: it writes the metadata it was bound to.                 *)
(***************************************************************************)
EXTENDS Naturals, Sequences

CONSTANTS
    Conns,        \* connections that are told apart: of those left behind the oldest are forgotten
    NoConn,       \* a null pointer
    MaxOutputs    \* bound: outputs processed

ASSUME ConnsAssumption == NoConn \notin Conns /\ MaxOutputs \in Nat

VARIABLES
    pc,         \* where process is
    asked,      \* the outputs processed; the last is in hand unless pc is "idle"
    started,    \* isConnected: connect has returned true
    metadata,   \* connectionMetadata, the processor's
    endpoint,   \* m_metadata, the endpoint's
    link,       \* what a connection is in the library
    status,     \* m_status of its metadata
    queue,      \* the outputs sent over it that QLC+ has not read
    replying,   \* the connection whose on_message runs
    up,         \* QLC+ is there
    got         \* the last output it has read

processVars == <<pc, asked, started, metadata, endpoint>>
linkVars == <<link, status, queue>>
vars == <<processVars, linkVars, replying, up, got>>

Init ==
    /\ pc = "idle" /\ asked = 0 /\ started = FALSE
    /\ metadata = NoConn /\ endpoint = NoConn
    /\ link = [c \in Conns |-> "unused"]
    /\ status = [c \in Conns |-> "Connecting"]
    /\ queue = [c \in Conns |-> <<>>]
    /\ replying = NoConn
    /\ up \in BOOLEAN
    /\ got = 0

-----------------------------------------------------------------------------
(* process, under the engine's mutex *)

IsOpen == metadata # NoConn /\ status[metadata] = "Open"

ProcessAnew ==
    /\ pc = "idle" /\ asked < MaxOutputs
    /\ asked' = asked + 1
    /\ pc' = "connect"
    /\ UNCHANGED <<started, metadata, endpoint, linkVars, replying, up, got>>

Process ==
    /\ pc = "idle" /\ asked < MaxOutputs
    /\ asked' = asked + 1
    /\ pc' = IF IsOpen THEN "check" ELSE "connect"
    /\ UNCHANGED <<started, metadata, endpoint, linkVars, replying, up, got>>

\* A connection is made and takes the place of the last in the endpoint.
Renew(c, as) ==
    /\ c \notin {metadata, endpoint, replying}
    /\ endpoint' = c
    /\ link' = [link EXCEPT ![c] = as]
    /\ status' = [status EXCEPT ![c] = "Connecting"]
    /\ queue' = [queue EXCEPT ![c] = <<>>]

Connect ==
    /\ pc = "connect"
    /\ \E c \in Conns : Renew(c, "connecting")
    /\ started' = TRUE
    /\ pc' = "sleep"
    /\ UNCHANGED <<asked, metadata, replying, up, got>>

\* No connection can be made of the URL.  The time for it is slept all the same.
ConnectFails ==
    /\ pc = "connect"
    /\ started' = FALSE
    /\ pc' = "sleep"
    /\ UNCHANGED <<asked, metadata, endpoint, linkVars, replying, up, got>>

\* The library throws when the connection is to be started: the endpoint has it, the
\* processor never will.
ConnectThrows ==
    /\ pc = "connect"
    /\ \E c \in Conns : Renew(c, "unused")
    /\ started' = FALSE
    /\ pc' = "check"
    /\ UNCHANGED <<asked, metadata, replying, up, got>>

WakeUpUntold ==
    /\ pc = "sleep"
    /\ metadata' = IF started /\ metadata = NoConn THEN endpoint ELSE metadata
    /\ pc' = "check"
    /\ UNCHANGED <<asked, started, endpoint, linkVars, replying, up, got>>

WakeUp ==
    /\ pc = "sleep"
    /\ metadata' = IF started THEN endpoint ELSE metadata
    /\ pc' = "check"
    /\ UNCHANGED <<asked, started, endpoint, linkVars, replying, up, got>>

CheckNothing ==
    /\ pc = "check"
    /\ pc' = "send"
    /\ UNCHANGED <<asked, started, metadata, endpoint, linkVars, replying, up, got>>

\* An output that finds no open connection is lost.
Check ==
    /\ pc = "check"
    /\ pc' = IF IsOpen THEN "send" ELSE "idle"
    /\ UNCHANGED <<asked, started, metadata, endpoint, linkVars, replying, up, got>>

SendRepeated ==
    /\ pc = "send" /\ link[endpoint] = "open"
    /\ queue' = [queue EXCEPT ![endpoint] = Append(@, asked)]
    /\ pc' \in {"record", "send"}
    /\ UNCHANGED <<asked, started, metadata, endpoint, link, status, replying, up, got>>

\* The endpoint sends over the connection it has.
Send ==
    /\ pc = "send" /\ link[endpoint] = "open"
    /\ queue' = [queue EXCEPT ![endpoint] = Append(@, asked)]
    /\ pc' = "record"
    /\ UNCHANGED <<asked, started, metadata, endpoint, link, status, replying, up, got>>

\* What the library says of a connection that is no longer open is only logged.
SendFails ==
    /\ pc = "send" /\ link[endpoint] # "open"
    /\ pc' = "idle"
    /\ UNCHANGED <<asked, started, metadata, endpoint, linkVars, replying, up, got>>

\* The output is noted in a vector, to which on_message adds without a lock: when both
\* do so at once it may be ruined.
Record ==
    /\ pc = "record"
    /\ pc' \in {"idle"} \cup {"crashed" : c \in {replying} \cap {endpoint}}
    /\ UNCHANGED <<asked, started, metadata, endpoint, linkVars, replying, up, got>>

Main == Process \/ Connect \/ ConnectFails \/ ConnectThrows \/ WakeUp \/ Check \/ Send
          \/ SendFails \/ Record

-----------------------------------------------------------------------------
(* The library's thread, which runs one handler after the other *)

OnOpen(c) ==
    /\ replying = NoConn
    /\ link[c] = "connecting" /\ up
    /\ link' = [link EXCEPT ![c] = "open"]
    /\ status' = [status EXCEPT ![c] = "Open"]
    /\ UNCHANGED <<processVars, queue, replying, up, got>>

\* Refused, or not answered in time.
OnFail(c) ==
    /\ replying = NoConn
    /\ link[c] = "connecting"
    /\ link' = [link EXCEPT ![c] = "closed"]
    /\ status' = [status EXCEPT ![c] = "Failed"]
    /\ UNCHANGED <<processVars, queue, replying, up, got>>

OnClose(c) ==
    /\ replying = NoConn
    /\ link[c] = "closed" /\ status[c] = "Open"
    /\ status' = [status EXCEPT ![c] = "Closed"]
    /\ UNCHANGED <<processVars, link, queue, replying, up, got>>

\* QLC+ tells its clients what becomes of its widgets and functions.
OnMessage(c) ==
    /\ replying = NoConn
    /\ link[c] = "open"
    /\ replying' = c
    /\ UNCHANGED <<processVars, linkVars, up, got>>

OnMessageReturns ==
    /\ replying # NoConn
    /\ replying' = NoConn
    /\ UNCHANGED <<processVars, linkVars, up, got>>

-----------------------------------------------------------------------------
(* QLC+ and the network *)

Break(broken) ==
    /\ link' = [c \in Conns |-> IF c \in broken /\ link[c] = "open" THEN "closed" ELSE link[c]]
    /\ queue' = [c \in Conns |-> IF c \in broken THEN <<>> ELSE queue[c]]

BreakOff(c) ==
    /\ link[c] = "open"
    /\ Break({c})
    /\ UNCHANGED <<processVars, status, replying, up, got>>

\* It ends, and all that was under way to it is lost; it is started again.
TurnQlc ==
    /\ up' = ~up
    /\ IF up THEN Break(Conns) ELSE UNCHANGED <<link, queue>>
    /\ UNCHANGED <<processVars, status, replying, got>>

Read(c) ==
    /\ queue[c] # <<>>
    /\ got' = Head(queue[c])
    /\ queue' = [queue EXCEPT ![c] = Tail(@)]
    /\ UNCHANGED <<processVars, link, status, replying, up>>

Alive == pc # "crashed"

Handlers == \/ \E c \in Conns : OnOpen(c) \/ OnFail(c) \/ OnClose(c) \/ OnMessage(c)
            \/ OnMessageReturns

Qlc == (\E c \in Conns : BreakOff(c) \/ Read(c)) \/ TurnQlc

Next == Main \/ (Alive /\ Handlers) \/ Qlc

\* process goes on, and QLC+ reads what has come.
Fairness == WF_vars(Main) /\ \A c \in Conns : WF_vars(Read(c))

Spec == Init /\ [][Next]_vars /\ Fairness

-----------------------------------------------------------------------------
(* Properties *)

TypeOK ==
    /\ pc \in {"idle", "connect", "sleep", "check", "send", "record", "crashed"}
    /\ asked \in Nat /\ started \in BOOLEAN
    /\ metadata \in Conns \cup {NoConn} /\ endpoint \in Conns \cup {NoConn}
    /\ link \in [Conns -> {"unused", "connecting", "open", "closed"}]
    /\ status \in [Conns -> {"Connecting", "Open", "Failed", "Closed"}]
    /\ queue \in [Conns -> Seq(Nat)]
    /\ replying \in Conns \cup {NoConn}
    /\ up \in BOOLEAN
    /\ got \in Nat
    /\ (metadata # NoConn \/ pc = "send") => endpoint # NoConn

\* However many connections were left behind half open, and whatever their handlers
\* find out later, outputs are only ever under way over the one connection processor
\* and endpoint agree on (ensureConnection, WebsocketEndpoint::connect).
OneCarries ==
    \A c \in Conns : queue[c] # <<>> =>
        c = endpoint /\ c = metadata /\ status[c] = "Open" /\ pc \notin {"connect", "sleep"}

\* Outputs arrive in the order of the events that asked for them and none arrives twice,
\* over whatever connections, lost ones and late ones included
\* (QlcplusOutputProcessor::process).
Relay == INSTANCE OutputRelay WITH
           pending <- IF endpoint = NoConn THEN <<>> ELSE queue[endpoint]

InOrder == Relay!Spec

\* QLC+ answers before the sleep is over, nothing breaks, and nothing throws.
Answers ==
    /\ up /\ Alive
    /\ pc = "sleep" => started
    /\ pc = "check" => /\ endpoint # NoConn /\ link[endpoint] # "unused"
                       /\ status[endpoint] \notin {"Connecting", "Failed"}
    /\ \A c \in Conns : status[c] = "Open" => link[c] = "open"

\* Once QLC+ is back the first output finds its way: the connection that was closed or
\* had failed is replaced before the output is sent ("Ensure WebSocket connection is
\* open before processing the output", QlcplusOutputProcessor.cpp:39).
Delivered ==
    \A m \in 1..MaxOutputs :
        (asked = m /\ (pc = "connect" \/ (pc = "check" /\ IsOpen)) /\ []Answers) ~> got >= m
=============================================================================
