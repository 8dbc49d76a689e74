------------------------ MODULE QlcConnectionProofs ------------------------
(***************************************************************************)
(* Proofs about QlcConnection, for any number of outputs and connections:  *)
(* what is under way is under way over one connection only, and outputs    *)
(* arrive in order and at most once.                                       *)
(***************************************************************************)
EXTENDS QlcConnection, TLAPS

\* The output in hand has not been sent.
Unsent == pc \in {"connect", "sleep", "check", "send"}

\* Outputs are under way only over the connection processor and endpoint agree on.
OneUsed ==
    \A c \in Conns : queue[c] # <<>> =>
        /\ c = endpoint /\ c = metadata
        /\ link[c] = "open" /\ pc \notin {"connect", "sleep"}

\* When they disagree, what the endpoint has was never started (connect threw), or will
\* be the processor's too once the sleep is over.
Agreed ==
    endpoint # metadata /\ ~(pc = "sleep" /\ started)
      => endpoint = NoConn \/ link[endpoint] = "unused"

\* No connection is open that was not reported open.
Reported == \A c \in Conns : link[c] = "open" => status[c] = "Open"

\* What is under way is newer than what has arrived, and in order.
Ordered ==
    /\ got <= asked /\ (Unsent => got < asked)
    /\ \A c \in Conns :
         /\ \A i \in 1..Len(queue[c]) :
              /\ got < queue[c][i] /\ queue[c][i] <= asked
              /\ Unsent => queue[c][i] < asked
         /\ \A i, j \in 1..Len(queue[c]) : i < j => queue[c][i] < queue[c][j]

CarryInv == OneUsed /\ Agreed /\ Reported

(***************************************************************************)
(* The types.                                                              *)
(***************************************************************************)
LEMMA TypeStep == TypeOK /\ [Next]_vars => TypeOK'
<1> SUFFICES ASSUME TypeOK, [Next]_vars PROVE TypeOK'
  OBVIOUS
<1> USE ConnsAssumption DEF TypeOK
<1>1. ASSUME NEW c \in Conns, NEW as \in {"unused", "connecting"}, Renew(c, as)
      PROVE  /\ endpoint' \in Conns
             /\ link' \in [Conns -> {"unused", "connecting", "open", "closed"}]
             /\ status' \in [Conns -> {"Connecting", "Open", "Failed", "Closed"}]
             /\ queue' \in [Conns -> Seq(Nat)]
  <2>1. endpoint' \in Conns
    BY <1>1 DEF Renew
  <2>2. link' \in [Conns -> {"unused", "connecting", "open", "closed"}]
    BY <1>1 DEF Renew
  <2>3. status' \in [Conns -> {"Connecting", "Open", "Failed", "Closed"}]
    BY <1>1 DEF Renew
  <2>4. <<>> \in Seq(Nat)
    OBVIOUS
  <2>5. queue' \in [Conns -> Seq(Nat)]
    BY <1>1, <2>4 DEF Renew
  <2> QED BY <2>1, <2>2, <2>3, <2>5
<1>2. ASSUME NEW broken \in SUBSET Conns, Break(broken)
      PROVE  /\ link' \in [Conns -> {"unused", "connecting", "open", "closed"}]
             /\ queue' \in [Conns -> Seq(Nat)]
  BY <1>2 DEF Break
<1>3. CASE UNCHANGED vars
  BY <1>3 DEF vars, processVars, linkVars
<1>4. CASE Main
  <2>1. CASE Process
    BY <2>1 DEF Process, linkVars
  <2>2. CASE Connect
    BY <2>2, <1>1 DEF Connect
  <2>3. CASE ConnectFails
    BY <2>3 DEF ConnectFails, linkVars
  <2>4. CASE ConnectThrows
    BY <2>4, <1>1 DEF ConnectThrows
  <2>5. CASE WakeUp
    BY <2>5 DEF WakeUp, linkVars
  <2>6. CASE Check
    BY <2>6 DEF Check, IsOpen, linkVars
  <2>7. CASE Send
    BY <2>7 DEF Send
  <2>8. CASE SendFails
    BY <2>8 DEF SendFails, linkVars
  <2>9. CASE Record
    BY <2>9 DEF Record, linkVars
  <2> QED BY <1>4, <2>1, <2>2, <2>3, <2>4, <2>5, <2>6, <2>7, <2>8, <2>9 DEF Main
<1>5. CASE Handlers
  <2>1. ASSUME NEW c \in Conns, OnOpen(c) PROVE TypeOK'
    BY <2>1 DEF OnOpen, processVars
  <2>2. ASSUME NEW c \in Conns, OnFail(c) PROVE TypeOK'
    BY <2>2 DEF OnFail, processVars
  <2>3. ASSUME NEW c \in Conns, OnClose(c) PROVE TypeOK'
    BY <2>3 DEF OnClose, processVars
  <2>4. ASSUME NEW c \in Conns, OnMessage(c) PROVE TypeOK'
    BY <2>4 DEF OnMessage, processVars, linkVars
  <2>5. CASE OnMessageReturns
    BY <2>5 DEF OnMessageReturns, processVars, linkVars
  <2> QED BY <1>5, <2>1, <2>2, <2>3, <2>4, <2>5 DEF Handlers
<1>6. CASE Qlc
  <2>1. ASSUME NEW c \in Conns, BreakOff(c) PROVE TypeOK'
    BY <2>1, <1>2 DEF BreakOff, processVars
  <2>2. ASSUME NEW c \in Conns, Read(c) PROVE TypeOK'
    BY <2>2 DEF Read, processVars
  <2>3. CASE TurnQlc
    <3>1. CASE up
      BY <2>3, <3>1, <1>2 DEF TurnQlc, processVars
    <3>2. CASE ~up
      BY <2>3, <3>2 DEF TurnQlc, processVars
    <3> QED BY <3>1, <3>2
  <2> QED BY <1>6, <2>1, <2>2, <2>3 DEF Qlc
<1> QED BY <1>3, <1>4, <1>5, <1>6 DEF Next

THEOREM TypeCorrect == Spec => []TypeOK
<1>1. Init => TypeOK
  <2> SUFFICES ASSUME Init PROVE TypeOK
    OBVIOUS
  <2>1. <<>> \in Seq(Nat)
    OBVIOUS
  <2>2. queue \in [Conns -> Seq(Nat)]
    BY <2>1 DEF Init
  <2>3. /\ link \in [Conns -> {"unused", "connecting", "open", "closed"}]
        /\ status \in [Conns -> {"Connecting", "Open", "Failed", "Closed"}]
    BY DEF Init
  <2> QED BY <2>2, <2>3 DEF Init, TypeOK
<1> QED BY <1>1, TypeStep, PTL DEF Spec

(***************************************************************************)
(* Outputs are under way over one connection.                              *)
(***************************************************************************)
LEMMA CarryStep == TypeOK /\ CarryInv /\ [Next]_vars => CarryInv'
<1> SUFFICES ASSUME TypeOK, CarryInv, [Next]_vars PROVE CarryInv'
  OBVIOUS
<1> USE ConnsAssumption DEF TypeOK, CarryInv, OneUsed, Agreed, Reported
\* While a connection is made nothing is under way.
<1>1. pc \in {"connect", "sleep"} => \A c \in Conns : queue[c] = <<>>
  OBVIOUS
<1>2. CASE UNCHANGED vars
  BY <1>2 DEF vars, processVars, linkVars
<1>3. CASE Main
  <2>1. CASE Process
    <3>1. ~IsOpen => \A c \in Conns : queue[c] = <<>>
      BY DEF IsOpen
    <3> QED BY <2>1, <3>1 DEF Process, linkVars
  <2>2. CASE Connect
    BY <2>2, <1>1 DEF Connect, Renew
  <2>3. CASE ConnectFails
    BY <2>3, <1>1 DEF ConnectFails, linkVars
  <2>4. CASE ConnectThrows
    BY <2>4, <1>1 DEF ConnectThrows, Renew
  <2>5. CASE WakeUp
    BY <2>5, <1>1 DEF WakeUp, linkVars
  <2>6. CASE Check
    BY <2>6 DEF Check, linkVars
  <2>7. CASE Send
    <3>1. endpoint \in Conns /\ metadata = endpoint
      BY <2>7 DEF Send
    <3> QED BY <2>7, <3>1 DEF Send
  <2>8. CASE SendFails
    BY <2>8 DEF SendFails, linkVars
  <2>9. CASE Record
    BY <2>9 DEF Record, linkVars
  <2> QED BY <1>3, <2>1, <2>2, <2>3, <2>4, <2>5, <2>6, <2>7, <2>8, <2>9 DEF Main
<1>4. CASE Handlers
  <2>1. ASSUME NEW c \in Conns, OnOpen(c) PROVE CarryInv'
    BY <2>1 DEF OnOpen, processVars
  <2>2. ASSUME NEW c \in Conns, OnFail(c) PROVE CarryInv'
    BY <2>2 DEF OnFail, processVars
  <2>3. ASSUME NEW c \in Conns, OnClose(c) PROVE CarryInv'
    BY <2>3 DEF OnClose, processVars
  <2>4. ASSUME NEW c \in Conns, OnMessage(c) PROVE CarryInv'
    BY <2>4 DEF OnMessage, processVars, linkVars
  <2>5. CASE OnMessageReturns
    BY <2>5 DEF OnMessageReturns, processVars, linkVars
  <2> QED BY <1>4, <2>1, <2>2, <2>3, <2>4, <2>5 DEF Handlers
<1>5. CASE Qlc
  <2>1. ASSUME NEW c \in Conns, BreakOff(c) PROVE CarryInv'
    BY <2>1 DEF BreakOff, Break, processVars
  <2>2. ASSUME NEW c \in Conns, Read(c) PROVE CarryInv'
    BY <2>2 DEF Read, processVars
  <2>3. CASE TurnQlc
    BY <2>3 DEF TurnQlc, Break, processVars
  <2> QED BY <1>5, <2>1, <2>2, <2>3 DEF Qlc
<1> QED BY <1>2, <1>3, <1>4, <1>5 DEF Next

THEOREM OneConnectionCarries == Spec => []OneCarries
<1>1. Init => CarryInv
  BY ConnsAssumption DEF Init, CarryInv, OneUsed, Agreed, Reported
<1>2. CarryInv => OneCarries
  BY DEF CarryInv, OneUsed, Reported, OneCarries
<1> QED BY <1>1, <1>2, CarryStep, TypeCorrect, PTL DEF Spec

(***************************************************************************)
(* Outputs arrive in order and at most once.                               *)
(***************************************************************************)

\* What a sent output does to the queue of its connection.
LEMMA Appended ==
  ASSUME NEW q \in Seq(Nat), NEW n \in Nat
  PROVE  /\ Len(Append(q, n)) = Len(q) + 1
         /\ \A i \in 1..Len(q) : Append(q, n)[i] = q[i]
         /\ Append(q, n)[Len(q) + 1] = n
OBVIOUS

\* What a read one does.
LEMMA Shortened ==
  ASSUME NEW q \in Seq(Nat), q # <<>>
  PROVE  /\ Len(q) \in Nat \ {0} /\ Head(q) = q[1]
         /\ Len(Tail(q)) = Len(q) - 1
         /\ \A i \in 1..Len(Tail(q)) : Tail(q)[i] = q[i + 1]
OBVIOUS

LEMMA OrderStep == TypeOK /\ OneUsed /\ Ordered /\ [Next]_vars => Ordered'
<1> SUFFICES ASSUME TypeOK, OneUsed, Ordered, [Next]_vars PROVE Ordered'
  OBVIOUS
<1> USE ConnsAssumption DEF Unsent
<1>1. /\ got \in Nat /\ asked \in Nat /\ queue \in [Conns -> Seq(Nat)]
      /\ \A c \in Conns : Len(queue[c]) \in Nat /\ \A i \in 1..Len(queue[c]) : queue[c][i] \in Nat
  BY DEF TypeOK
\* A step that sends nothing and processes no new output can only lose some.
<1>2. ASSUME asked' = asked, got' = got, Unsent' => Unsent,
             \A c \in Conns : queue'[c] = queue[c] \/ queue'[c] = <<>>
      PROVE  Ordered'
  <2>1. Len(<<>>) = 0
    OBVIOUS
  <2>2. ASSUME NEW c \in Conns, queue'[c] = <<>> PROVE 1..Len(queue'[c]) = {}
    BY <2>1, <2>2
  <2> QED BY <1>1, <1>2, <2>2 DEF Ordered
<1>3. CASE UNCHANGED vars
  BY <1>2, <1>3 DEF vars, processVars, linkVars
<1>4. CASE Main
  <2>1. CASE Process
    BY <1>1, <2>1 DEF Process, linkVars, Ordered
  <2>2. CASE Connect
    BY <1>1, <1>2, <2>2 DEF Connect, Renew
  <2>3. CASE ConnectFails
    BY <1>2, <2>3 DEF ConnectFails, linkVars
  <2>4. CASE ConnectThrows
    BY <1>1, <1>2, <2>4 DEF ConnectThrows, Renew
  <2>5. CASE WakeUp
    BY <1>2, <2>5 DEF WakeUp, linkVars
  <2>6. CASE Check
    BY <1>2, <2>6 DEF Check, linkVars
  <2>7. CASE Send
    <3>1. pc = "send" /\ pc' = "record" /\ asked' = asked /\ got' = got
      BY <2>7 DEF Send
    <3>2. ASSUME NEW c \in Conns, c # endpoint PROVE queue'[c] = queue[c]
      BY <1>1, <2>7, <3>2 DEF Send
    <3>3. ASSUME NEW c \in Conns, c = endpoint
          PROVE  /\ Len(queue'[c]) = Len(queue[c]) + 1
                 /\ \A i \in 1..Len(queue[c]) : queue'[c][i] = queue[c][i]
                 /\ queue'[c][Len(queue[c]) + 1] = asked
      <4>1. queue'[c] = Append(queue[c], asked)
        BY <1>1, <2>7, <3>3 DEF Send
      <4>2. queue[c] \in Seq(Nat) /\ asked \in Nat
        BY <1>1
      <4> QED BY <4>1, <4>2, Appended
    <3>4. got' <= asked' /\ (Unsent' => got' < asked')
      BY <1>1, <3>1 DEF Ordered
    <3>5. ASSUME NEW c \in Conns
          PROVE  /\ \A i \in 1..Len(queue'[c]) :
                      /\ got' < queue'[c][i] /\ queue'[c][i] <= asked'
                      /\ Unsent' => queue'[c][i] < asked'
                 /\ \A i, j \in 1..Len(queue'[c]) : i < j => queue'[c][i] < queue'[c][j]
      <4>1. CASE c # endpoint
        BY <1>1, <3>1, <3>2, <4>1 DEF Ordered
      <4>2. CASE c = endpoint
        <5>1. \A i \in 1..Len(queue'[c]) : i \in 1..Len(queue[c]) \/ i = Len(queue[c]) + 1
          BY <1>1, <3>3, <4>2
        <5>2. \A i \in 1..Len(queue[c]) : got < queue[c][i] /\ queue[c][i] < asked
          BY <3>1 DEF Ordered
        <5>3. got < asked
          BY <3>1 DEF Ordered
        <5>4. ASSUME NEW i \in 1..Len(queue'[c]) PROVE got < queue'[c][i] /\ queue'[c][i] <= asked
          <6>1. CASE i \in 1..Len(queue[c])
            BY <1>1, <3>3, <4>2, <5>2, <6>1
          <6>2. CASE i = Len(queue[c]) + 1
            BY <1>1, <3>3, <4>2, <5>3, <6>2
          <6> QED BY <5>1, <6>1, <6>2
        <5>5. ASSUME NEW i \in 1..Len(queue'[c]), NEW j \in 1..Len(queue'[c]), i < j
              PROVE  queue'[c][i] < queue'[c][j]
          <6>1. i \in 1..Len(queue[c])
            BY <1>1, <3>3, <4>2, <5>5
          <6>2. CASE j \in 1..Len(queue[c])
            BY <3>3, <4>2, <5>5, <6>1, <6>2 DEF Ordered
          <6>3. CASE j = Len(queue[c]) + 1
            BY <3>3, <4>2, <5>2, <6>1, <6>3
          <6> QED BY <5>1, <6>2, <6>3
        <5> QED BY <3>1, <5>4, <5>5
      <4> QED BY <4>1, <4>2
    <3> QED BY <3>4, <3>5 DEF Ordered
  <2>8. CASE SendFails
    BY <1>2, <2>8 DEF SendFails, linkVars
  <2>9. CASE Record
    BY <1>2, <2>9 DEF Record, linkVars
  <2> QED BY <1>4, <2>1, <2>2, <2>3, <2>4, <2>5, <2>6, <2>7, <2>8, <2>9 DEF Main
<1>5. CASE Handlers
  BY <1>2, <1>5 DEF Handlers, OnOpen, OnFail, OnClose, OnMessage, OnMessageReturns,
                    processVars, linkVars
<1>6. CASE Qlc
  <2>1. ASSUME NEW c \in Conns, BreakOff(c) PROVE Ordered'
    BY <1>2, <2>1 DEF BreakOff, Break, processVars
  <2>2. ASSUME NEW c \in Conns, Read(c) PROVE Ordered'
    <3>1. /\ queue[c] # <<>> /\ got' = Head(queue[c]) /\ asked' = asked /\ pc' = pc
          /\ queue'[c] = Tail(queue[c])
      BY <1>1, <2>2 DEF Read, processVars
    <3>2. \A d \in Conns : d # c => queue'[d] = queue[d] /\ queue[d] = <<>>
      BY <1>1, <2>2, <3>1 DEF Read, OneUsed
    <3>3. /\ Len(queue[c]) \in Nat \ {0} /\ got' = queue[c][1]
          /\ Len(queue'[c]) = Len(queue[c]) - 1
          /\ \A i \in 1..Len(queue'[c]) : queue'[c][i] = queue[c][i + 1]
      BY <1>1, <3>1, Shortened
    <3>4. \A d \in Conns : d # c => 1..Len(queue'[d]) = {}
      BY <3>2
    <3>5. got' <= asked /\ (Unsent => got' < asked)
      BY <1>1, <3>3 DEF Ordered
    <3>6. ASSUME NEW i \in 1..Len(queue'[c])
          PROVE  /\ got' < queue'[c][i] /\ queue'[c][i] <= asked
                 /\ Unsent => queue'[c][i] < asked
      <4>1. 1 \in 1..Len(queue[c]) /\ i + 1 \in 1..Len(queue[c]) /\ 1 < i + 1
        BY <3>3
      <4>2. queue[c][1] < queue[c][i + 1] /\ queue[c][i + 1] <= asked
            /\ (Unsent => queue[c][i + 1] < asked)
        BY <1>1, <4>1 DEF Ordered
      <4> QED BY <3>3, <4>2
    <3>7. ASSUME NEW i \in 1..Len(queue'[c]), NEW j \in 1..Len(queue'[c]), i < j
          PROVE  queue'[c][i] < queue'[c][j]
      <4> DEFINE m == Len(queue[c])
      <4>0. m \in Nat \ {0} /\ i \in 1..(m - 1) /\ j \in 1..(m - 1)
        BY <3>3
      <4>1. i + 1 \in 1..m /\ j + 1 \in 1..m /\ i + 1 < j + 1
        <5> HIDE DEF m
        <5> QED BY <3>7, <4>0
      <4>2. queue[c][i + 1] < queue[c][j + 1]
        BY <4>1 DEF Ordered
      <4> QED BY <3>3, <4>2
    <3> QED BY <3>1, <3>4, <3>5, <3>6, <3>7 DEF Ordered
  <2>3. CASE TurnQlc
    BY <1>2, <2>3 DEF TurnQlc, Break, processVars
  <2> QED BY <1>6, <2>1, <2>2, <2>3 DEF Qlc
<1> QED BY <1>3, <1>4, <1>5, <1>6 DEF Next

(***************************************************************************)
(* Every step is one of the relay, or none.                                *)
(***************************************************************************)
LEMMA RelayStep ==
  TypeOK /\ OneUsed /\ Agreed /\ Ordered /\ [Next]_vars => [Relay!Next]_Relay!relayVars
<1> DEFINE pending == IF endpoint = NoConn THEN <<>> ELSE queue[endpoint]
<1> SUFFICES ASSUME TypeOK, OneUsed, Agreed, Ordered, [Next]_vars
             PROVE  [Relay!Next]_Relay!relayVars
  OBVIOUS
<1> USE ConnsAssumption
<1>1. /\ endpoint \in Conns \cup {NoConn} /\ asked \in Nat /\ got \in Nat
      /\ queue \in [Conns -> Seq(Nat)]
  BY DEF TypeOK
<1>2. ASSUME UNCHANGED <<asked, got>>, pending' = pending PROVE [Relay!Next]_Relay!relayVars
  BY <1>2 DEF Relay!relayVars
<1>3. ASSUME UNCHANGED <<asked, got>>, pending' = <<>> PROVE [Relay!Next]_Relay!relayVars
  BY <1>3 DEF Relay!Next, Relay!LoseAll
<1>4. CASE UNCHANGED vars
  BY <1>2, <1>4 DEF vars, processVars, linkVars
<1>5. CASE Main
  <2>1. CASE Process
    BY <2>1 DEF Process, linkVars, Relay!Next, Relay!Ask
  <2>2. CASE Connect
    BY <1>1, <1>3, <2>2 DEF Connect, Renew
  <2>3. CASE ConnectFails
    BY <1>2, <2>3 DEF ConnectFails, linkVars
  <2>4. CASE ConnectThrows
    BY <1>1, <1>3, <2>4 DEF ConnectThrows, Renew
  <2>5. CASE WakeUp
    BY <1>2, <2>5 DEF WakeUp, linkVars
  <2>6. CASE Check
    BY <1>2, <2>6 DEF Check, linkVars
  <2>7. CASE Send
    <3>1. endpoint \in Conns
      BY <1>1, <2>7 DEF Send, TypeOK
    <3>2. pending' = Append(pending, asked) /\ UNCHANGED <<asked, got>>
      BY <1>1, <2>7, <3>1 DEF Send
    <3>3. asked > got
      BY <1>1, <2>7 DEF Send, Ordered, Unsent
    <3>4. \A i \in 1..Len(queue[endpoint]) : queue[endpoint][i] < asked
      BY <2>7, <3>1 DEF Send, Ordered, Unsent
    <3>5. \A i \in DOMAIN pending : pending[i] < asked
      BY <1>1, <3>1, <3>4
    <3> QED BY <3>2, <3>3, <3>5 DEF Relay!Next, Relay!Accept
  <2>8. CASE SendFails
    BY <1>2, <2>8 DEF SendFails, linkVars
  <2>9. CASE Record
    BY <1>2, <2>9 DEF Record, linkVars
  <2> QED BY <1>5, <2>1, <2>2, <2>3, <2>4, <2>5, <2>6, <2>7, <2>8, <2>9 DEF Main
<1>6. CASE Handlers
  BY <1>2, <1>6 DEF Handlers, OnOpen, OnFail, OnClose, OnMessage, OnMessageReturns,
                    processVars, linkVars
<1>7. CASE Qlc
  <2>1. ASSUME NEW c \in Conns, BreakOff(c) PROVE [Relay!Next]_Relay!relayVars
    BY <1>1, <1>2, <1>3, <2>1 DEF BreakOff, Break, processVars
  <2>2. ASSUME NEW c \in Conns, Read(c) PROVE [Relay!Next]_Relay!relayVars
    <3>1. c = endpoint /\ queue[c] # <<>>
      BY <2>2 DEF Read, OneUsed
    <3>2. pending # <<>> /\ pending' = Tail(pending) /\ got' = Head(pending) /\ asked' = asked
      BY <1>1, <2>2, <3>1 DEF Read, processVars
    <3>3. Len(queue[c]) \in Nat \ {0} /\ got' = queue[c][1]
      BY <1>1, <3>1, <3>2, Shortened
    <3>4. got' > got
      BY <1>1, <3>3 DEF Ordered
    <3> QED BY <3>2, <3>4 DEF Relay!Next, Relay!Arrive
  <2>3. CASE TurnQlc
    BY <1>1, <1>2, <1>3, <2>3 DEF TurnQlc, Break, processVars
  <2> QED BY <1>7, <2>1, <2>2, <2>3 DEF Qlc
<1> QED BY <1>4, <1>5, <1>6, <1>7 DEF Next

THEOREM RelayImplemented == Spec => InOrder
<1>1. Init => CarryInv /\ Ordered /\ Relay!Init
  <2> SUFFICES ASSUME Init PROVE CarryInv /\ Ordered /\ Relay!Init
    OBVIOUS
  <2>1. CarryInv
    BY ConnsAssumption DEF Init, CarryInv, OneUsed, Agreed, Reported
  <2>2. \A c \in Conns : 1..Len(queue[c]) = {}
    <3>1. 1..Len(<<>>) = {}
      OBVIOUS
    <3>2. \A c \in Conns : queue[c] = <<>>
      BY DEF Init
    <3> QED BY <3>1, <3>2
  <2>3. Ordered
    BY <2>2 DEF Init, Ordered, Unsent
  <2> QED BY <2>1, <2>3 DEF Init, Relay!Init
<1>2. TypeOK /\ CarryInv /\ Ordered /\ [Next]_vars
        => CarryInv' /\ Ordered' /\ [Relay!Next]_Relay!relayVars
  BY CarryStep, OrderStep, RelayStep DEF CarryInv
<1> QED BY <1>1, <1>2, TypeCorrect, PTL DEF Spec, InOrder, Relay!Spec
=============================================================================
