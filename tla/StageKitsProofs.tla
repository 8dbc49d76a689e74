---------------------------- MODULE StageKitsProofs ----------------------------
(***************************************************************************)
(* Proofs about StageKits, for every number of pods, slots, configurations *)
(* and button threads: types, and the manager's table of kits.             *)
(***************************************************************************)
EXTENDS StageKits, FiniteSetTheorems, SequenceTheorems, TLAPS

------------------------------------------------------------------------------
(* The steps of the calls.                                                  *)

LEMMA FourSteps ==
  ASSUME NEW S, NEW a \in S, NEW b \in S, NEW c \in S, NEW d \in S
  PROVE  <<a, b, c, d>> \in [1..4 -> S] /\ <<a, b, c, d>> \in Seq(S)
<1>1. <<a, b, c, d>> \in Seq(S) /\ Len(<<a, b, c, d>>) = 4
  OBVIOUS
<1> QED BY <1>1, LenProperties

LEMMA OneMore ==
  ASSUME NEW S, NEW s \in Seq(S), NEW e \in S
  PROVE  /\ s \o <<e>> \in Seq(S) /\ Len(s \o <<e>>) = Len(s) + 1
         /\ (s \o <<e>>)[Len(s) + 1] = e
         /\ \A i \in 1..Len(s) : (s \o <<e>>)[i] = s[i]
OBVIOUS

LEMMA Division == \A i \in Nat : /\ i % 4 \in 0..3 /\ i \div 4 \in Nat
                                 /\ i = 4 * (i \div 4) + (i % 4)
OBVIOUS

LEMMA Numbers == /\ MaxKits \in Nat \ {0} /\ NoDataLimit \in Nat /\ TimeCap \in Nat
                 /\ LastConfig \in Nat \ {0} /\ Garbage \subseteq Int
BY KitsAssumption

LEMMA KitsAreFrom0 == 0 \in Kits /\ \A i \in 1..MaxKits : i - 1 \in Kits
BY KitsAssumption DEF Kits

LEMMA StepTyped ==
  ASSUME NEW do \in Reports \cup {"close", "exit", "unlock", "total", "settle"}, NEW k \in Kits,
         NEW lamp \in Lamps \cup {"status", "none"}, NEW on \in BOOLEAN
  PROVE  Step(do, k, lamp, on) \in Steps
BY DEF Step, Steps

LEMMA JustTyped ==
  ASSUME NEW do \in {"close", "exit", "unlock", "total", "settle"}
  PROVE  Just(do) \in Steps
BY KitsAreFrom0, StepTyped DEF Just

LEMMA LoopTyped ==
  ASSUME NEW lamp \in Lamps, NEW on \in BOOLEAN
  PROVE  Loop(lamp, on) \in Seq(Steps)
<1>1. \A i \in 1..MaxKits : Step("loop", i - 1, lamp, on) \in Steps
  BY KitsAreFrom0, StepTyped DEF Reports
<1> QED BY <1>1, KitsAssumption DEF Loop

LEMMA CallsTyped == \A command : Calls(command) \in Seq(Steps)
<1>1. \A lamp \in Lamps, on \in BOOLEAN : Loop(lamp, on) \in Seq(Steps)
  BY LoopTyped
<1>2. Loop("leds", FALSE) \o Loop("strobe", FALSE) \o Loop("fog", FALSE) \in Seq(Steps)
  <2>1. /\ Loop("leds", FALSE) \in Seq(Steps) /\ Loop("strobe", FALSE) \in Seq(Steps)
        /\ Loop("fog", FALSE) \in Seq(Steps)
    BY <1>1 DEF Lamps
  <2>2. Loop("leds", FALSE) \o Loop("strobe", FALSE) \in Seq(Steps)
    BY <2>1, ConcatProperties
  <2> QED BY <2>1, <2>2, ConcatProperties
<1>3. \A lamp \in {"leds", "strobe", "fog"}, on \in {TRUE, FALSE} : Loop(lamp, on) \in Seq(Steps)
  BY <1>1 DEF Lamps
<1>4. TAKE command
<1>5. CASE command \in {"SK_LED_RED", "SK_STROBE_SPEED_1", "SK_STROBE_OFF", "SK_FOG_ON",
                       "SK_FOG_OFF"}
  BY <1>3, <1>5 DEF Calls
<1>6. CASE command = "SK_ALL_OFF"
  BY <1>2, <1>6 DEF Calls
<1>7. CASE command \notin {"SK_LED_RED", "SK_STROBE_SPEED_1", "SK_STROBE_OFF", "SK_FOG_ON",
                       "SK_FOG_OFF", "SK_ALL_OFF"}
  <2>1. Calls(command) = <<>>
    BY <1>7 DEF Calls
  <2> QED BY <2>1, EmptySeq
<1> QED BY <1>5, <1>6, <1>7

LEMMA LimitStepsTyped ==
  ASSUME NEW limit \in Limits, NEW max, NEW time
  PROVE  LimitSteps(limit, max, time) \in Seq(Steps)
<1>1. \A i \in 1..MaxKits : Step(limit, i - 1, "fog", FALSE) \in Steps
  BY KitsAreFrom0, StepTyped DEF Reports, Lamps
<1>2. [i \in 1..MaxKits |-> Step(limit, i - 1, "fog", FALSE)] \in Seq(Steps)
  BY <1>1, KitsAssumption DEF Step
<1>3. <<>> \in Seq(Steps)
  OBVIOUS
<1> QED BY <1>2, <1>3 DEF LimitSteps

\* Four steps for each of the first n kits.
LEMMA ForKitsTyped ==
  ASSUME NEW n \in 0..MaxKits, NEW call \in [Kits -> [1..4 -> Steps]]
  PROVE  /\ ForKits(n, call) \in Seq(Steps)
         /\ Len(ForKits(n, call)) = 4 * n
         /\ \A i \in 1..(4 * n) :
              /\ (i - 1) \div 4 \in Kits /\ (i - 1) \div 4 < n
              /\ ((i - 1) % 4) + 1 \in 1..4
              /\ ForKits(n, call)[i] = call[(i - 1) \div 4][((i - 1) % 4) + 1]
<1>1. \A i \in 1..(4 * n) : /\ (i - 1) \div 4 \in Kits /\ (i - 1) \div 4 < n
                            /\ ((i - 1) % 4) + 1 \in 1..4
  <2>1. TAKE i \in 1..(4 * n)
  <2>2. i - 1 \in Nat /\ i - 1 < 4 * n
    BY KitsAssumption
  <2> QED BY <2>2, Division, KitsAssumption DEF Kits
<1>2. \A i \in 1..(4 * n) : call[(i - 1) \div 4][((i - 1) % 4) + 1] \in Steps
  BY <1>1
<1>3. 4 * n \in Nat
  BY KitsAssumption
<1> QED BY <1>1, <1>2, <1>3 DEF ForKits

LEMMA SetConfigTyped ==
  ASSUME NEW k \in Kits, NEW c
  PROVE  SetConfigSteps(k, c) \in [1..4 -> Steps] /\ SetConfigSteps(k, c) \in Seq(Steps)
<1>1. /\ Step("disable", k, "leds", FALSE) \in Steps /\ Step("disable", k, "strobe", FALSE) \in Steps
      /\ Step("disable", k, "fog", FALSE) \in Steps
  BY StepTyped DEF Reports, Lamps
<1>2. Step("set", k, "status", c # 0) \in Steps
  <2>1. (c # 0) \in BOOLEAN
    OBVIOUS
  <2> QED BY <2>1, StepTyped DEF Reports
<1> QED BY <1>1, <1>2, FourSteps, Zenon DEF SetConfigSteps

LEMMA EndKitTyped ==
  ASSUME NEW k \in Kits
  PROVE  EndKit(k) \in [1..4 -> Steps]
<1>1. /\ Step("set", k, "fog", FALSE) \in Steps /\ Step("set", k, "strobe", FALSE) \in Steps
      /\ Step("set", k, "leds", FALSE) \in Steps
  BY StepTyped DEF Reports, Lamps
<1>2. Step("close", k, "none", FALSE) \in Steps
  BY StepTyped
<1> QED BY <1>1, <1>2, FourSteps, Zenon DEF EndKit

LEMMA EndStepsTyped ==
  ASSUME amount \in 0..MaxKits
  PROVE  /\ EndSteps \in Seq(Steps) /\ Len(EndSteps) = 4 * amount + 1
         /\ EndSteps[4 * amount + 1] = Just("exit")
         /\ \A i \in 1..(4 * amount) :
              /\ (i - 1) \div 4 \in Kits /\ (i - 1) \div 4 < amount
              /\ ((i - 1) % 4) + 1 \in 1..4
              /\ EndSteps[i] = EndKit((i - 1) \div 4)[((i - 1) % 4) + 1]
<1> DEFINE ends == [k \in Kits |-> EndKit(k)]
<1>1. ends \in [Kits -> [1..4 -> Steps]]
  BY EndKitTyped
<1> HIDE DEF ends
<1>2. /\ ForKits(amount, ends) \in Seq(Steps) /\ Len(ForKits(amount, ends)) = 4 * amount
      /\ \A i \in 1..(4 * amount) :
              /\ (i - 1) \div 4 \in Kits /\ (i - 1) \div 4 < amount
              /\ ((i - 1) % 4) + 1 \in 1..4
              /\ ForKits(amount, ends)[i] = ends[(i - 1) \div 4][((i - 1) % 4) + 1]
  BY <1>1, ForKitsTyped
<1>3. \A k \in Kits : ends[k] = EndKit(k)
  BY DEF ends
<1>4. EndSteps = ForKits(amount, ends) \o <<Just("exit")>>
  BY DEF EndSteps, ends
<1>5. Just("exit") \in Steps /\ 4 * amount \in Nat
  BY JustTyped, KitsAssumption
<1>6. EndSteps \in Seq(Steps) /\ Len(EndSteps) = 4 * amount + 1 /\ EndSteps[4 * amount + 1] = Just("exit")
  <2>1. Len(ForKits(amount, ends)) + 1 = 4 * amount + 1
    BY <1>2
  <2> QED BY <1>2, <1>4, <1>5, <2>1, OneMore
<1>7. \A i \in 1..(4 * amount) : EndSteps[i] = ForKits(amount, ends)[i]
  BY <1>2, <1>4, <1>5, OneMore
<1> QED BY <1>2, <1>3, <1>6, <1>7

------------------------------------------------------------------------------
(* The types.                                                               *)

Tasks ==
  /\ todo \in [Threads -> Seq(Steps)]
  /\ filled \in [Threads -> BOOLEAN]
  /\ engine \in Threads \cup {None}

Table ==
  /\ context \in BOOLEAN /\ amount \in 0..MaxKits
  /\ handle \in [Kits -> Pods \cup {None, Gone}]
  /\ config \in [Kits -> Configs \cup {NoConfig}]
  /\ report \in [Kits -> [lamp : Lamps \cup {"status", "none"}, on : BOOLEAN]]

Clock ==
  /\ fogOn \in BOOLEAN /\ justOff \in BOOLEAN
  /\ instanceTime \in Int /\ totalTime \in Int
  /\ noData \in 0..NoDataLimit

World ==
  /\ at \in {"start", "time", "poll", "nodata", "buttons", "connect"}
  /\ plugged \in SUBSET Pods
  /\ lamps \in [Pods -> SUBSET Lamps]
  /\ fogFor \in [Pods -> 0..FogCap]
  /\ sender \in Senders

LEMMA TypeParts == TypeOK <=> Tasks /\ Table /\ Clock /\ World
BY DEF TypeOK, Tasks, Table, Clock, World

\* What a scan is given.
LEMMA OrderIs ==
  ASSUME World, NEW opened \in SUBSET plugged, NEW order \in SetToSeqs(opened)
  PROVE  /\ Len(order) \in Nat
         /\ \A i \in 1..Len(order) : order[i] \in Pods
         /\ \A i, j \in 1..Len(order) : order[i] = order[j] => i = j
<1>1. opened \subseteq Pods /\ IsFiniteSet(opened)
  BY KitsAssumption, FS_Subset DEF World
<1>2. Cardinality(opened) \in Nat
  BY <1>1, FS_CardinalityType
<1>3. /\ order \in [1..Cardinality(opened) -> opened]
      /\ \A i, j \in 1..Cardinality(opened) : i # j => order[i] # order[j]
  BY DEF SetToSeqs
<1>4. Len(order) = Cardinality(opened)
  BY <1>2, <1>3
<1> QED BY <1>1, <1>2, <1>3, <1>4

LEMMA CurrentTyped ==
  ASSUME Tasks, NEW t \in Threads, todo[t] # <<>>
  PROVE  /\ Current(t) \in Steps /\ Current(t).kit \in Kits
         /\ Current(t).lamp \in Lamps \cup {"status", "none"} /\ Current(t).on \in BOOLEAN
         /\ Tail(todo[t]) \in Seq(Steps)
         /\ Len(Tail(todo[t])) = Len(todo[t]) - 1
         /\ \A i \in 1..Len(Tail(todo[t])) : Tail(todo[t])[i] = todo[t][i + 1]
<1>1. todo[t] \in Seq(Steps)
  BY DEF Tasks
<1>2. Current(t) \in Steps
  BY <1>1, HeadTailProperties DEF Current
<1>3. Current(t).kit \in Kits /\ Current(t).lamp \in Lamps \cup {"status", "none"} /\ Current(t).on \in BOOLEAN
  BY <1>2 DEF Steps
<1> QED BY <1>1, <1>2, <1>3, HeadTailProperties

LEMMA DoneTyped ==
  ASSUME Tasks, NEW t \in Threads, todo[t] # <<>>, Done(t)
  PROVE  todo' \in [Threads -> Seq(Steps)]
BY CurrentTyped DEF Tasks, Done

\* The report a thread has filled is that of its first step.
FilledHasStep == \A t \in Threads : filled[t] => todo[t] # <<>> /\ Current(t).do \in Reports

\* A scan, by what it was given.
LEMMA ConnectTasks ==
  ASSUME Tasks, FilledHasStep, NEW order, NEW bad, NEW n \in 0..MaxKits, Connect(order, bad, n)
  PROVE  Tasks' /\ FilledHasStep'
<1> DEFINE given == IF DefaultConfig = 0 THEN 1 ELSE DefaultConfig
           calls == [k \in Kits |-> SetConfigSteps(k, given)]
           count == IF DefaultConfig # 0 THEN MaxKits ELSE IF n = 1 THEN 1 ELSE 0
<1>1. calls \in [Kits -> [1..4 -> Steps]]
  BY SetConfigTyped
<1>2. count \in 0..MaxKits
  BY KitsAssumption
<1>3. ForKits(count, calls) \in Seq(Steps)
  <2> HIDE DEF calls, count
  <2> QED BY <1>1, <1>2, ForKitsTyped
<1>4. todo' = todo \/ todo' = [todo EXCEPT ![Main] = ForKits(count, calls)]
  BY DEF Connect
<1>5. todo' \in [Threads -> Seq(Steps)]
  BY <1>3, <1>4 DEF Tasks
<1>6. filled' = filled /\ engine' = engine /\ todo[Main] = <<>>
  BY DEF Connect
<1>7. \A t \in Threads : t # Main => todo'[t] = todo[t]
  BY <1>4 DEF Tasks
<1>8. FilledHasStep'
  BY <1>6, <1>7 DEF FilledHasStep, Current
<1> QED BY <1>5, <1>6, <1>8 DEF Tasks

LEMMA RestartTyped ==
  ASSUME amount \in 0..MaxKits
  PROVE  /\ Calls("SK_ALL_OFF") \o <<Just("unlock")>> \o EndSteps \in Seq(Steps)
         /\ Loop("strobe", FALSE) \o Loop("fog", FALSE) \o Loop("leds", FALSE) \o EndSteps \in Seq(Steps)
<1>1. EndSteps \in Seq(Steps)
  BY EndStepsTyped
<1>2. Calls("SK_ALL_OFF") \o <<Just("unlock")>> \in Seq(Steps)
  BY CallsTyped, JustTyped, OneMore
<1>3. /\ Loop("strobe", FALSE) \in Seq(Steps) /\ Loop("fog", FALSE) \in Seq(Steps)
      /\ Loop("leds", FALSE) \in Seq(Steps)
  BY LoopTyped, Zenon DEF Lamps
<1>4. Loop("strobe", FALSE) \o Loop("fog", FALSE) \in Seq(Steps)
  BY <1>3, ConcatProperties
<1>5. Loop("strobe", FALSE) \o Loop("fog", FALSE) \o Loop("leds", FALSE) \in Seq(Steps)
  BY <1>3, <1>4, ConcatProperties
<1> QED BY <1>1, <1>2, <1>5, ConcatProperties

LEMMA TasksStep == Tasks /\ FilledHasStep /\ Table /\ [Next]_vars => Tasks' /\ FilledHasStep'
<1> SUFFICES ASSUME Tasks, FilledHasStep, Table, [Next]_vars PROVE Tasks' /\ FilledHasStep'
  OBVIOUS
<1>1. Main \in Threads
  BY DEF Threads
<1>2. ASSUME NEW t \in Threads, SkipReport(t) PROVE Tasks' /\ FilledHasStep'
  <2>1. Tasks'
    BY <1>2, DoneTyped DEF SkipReport, Tasks
  <2>2. \A u \in Threads : u # t => todo'[u] = todo[u]
    BY <1>2 DEF SkipReport, Done, Tasks
  <2> QED BY <1>2, <2>1, <2>2 DEF SkipReport, FilledHasStep, Current
<1>3. ASSUME NEW t \in Threads, FillReport(t) PROVE Tasks' /\ FilledHasStep'
  BY <1>3 DEF FillReport, Tasks, FilledHasStep, Current
<1>4. ASSUME NEW t \in Threads, TransferReport(t) PROVE Tasks' /\ FilledHasStep'
  <2>1. /\ todo[t] # <<>> /\ Done(t) /\ engine' = engine
        /\ filled' = [filled EXCEPT ![t] = FALSE]
    BY <1>4 DEF TransferReport, FilledHasStep
  <2>2. Tasks'
    BY <2>1, DoneTyped DEF Tasks
  <2>3. \A u \in Threads : u # t => todo'[u] = todo[u]
    BY <2>1 DEF Done, Tasks
  <2> QED BY <2>1, <2>2, <2>3 DEF FilledHasStep, Current, Tasks
<1>5. ASSUME NEW t \in Threads, Unlock(t) PROVE Tasks' /\ FilledHasStep'
  <2>1. Tasks'
    BY <1>5, DoneTyped DEF Unlock, Tasks
  <2>2. \A u \in Threads : u # t => todo'[u] = todo[u]
    BY <1>5 DEF Unlock, Done, Tasks
  <2> QED BY <1>5, <2>1, <2>2 DEF Unlock, FilledHasStep, Current, Reports, Limits
<1>6. CASE CloseKit \/ ExitContext \/ Settle
  <2>1. /\ todo[Main] # <<>> /\ Done(Main) /\ engine' = engine /\ filled' = filled
        /\ Current(Main).do \notin Reports
    BY <1>6 DEF CloseKit, ExitContext, Settle, Reports, Limits
  <2>2. Tasks'
    BY <1>1, <2>1, DoneTyped DEF Tasks
  <2>3. \A u \in Threads : u # Main => todo'[u] = todo[u]
    BY <2>1 DEF Done, Tasks
  <2> QED BY <1>1, <2>1, <2>2, <2>3 DEF FilledHasStep, Current
<1>7. CASE CountTotal
  <2>1. \E s \in Seq(Steps) : todo' = [todo EXCEPT ![Main] = s \o Tail(@)]
    <3>1. LimitSteps("totalLimit", TotalMax, totalTime') \in Seq(Steps) /\ <<>> \in Seq(Steps)
      BY LimitStepsTyped DEF Limits
    <3> QED BY <1>7, <3>1 DEF CountTotal
  <2>2. PICK s \in Seq(Steps) : todo' = [todo EXCEPT ![Main] = s \o Tail(@)]
    BY <2>1
  <2>3. s \o Tail(todo[Main]) \in Seq(Steps)
    BY <1>1, <1>7, CurrentTyped, ConcatProperties DEF CountTotal
  <2>4. todo' \in [Threads -> Seq(Steps)] /\ \A u \in Threads : u # Main => todo'[u] = todo[u]
    BY <2>2, <2>3 DEF Tasks
  <2>5. filled' = filled /\ engine' = engine /\ ~filled[Main]
    BY <1>1, <1>7 DEF CountTotal, FilledHasStep, Reports, Limits
  <2> QED BY <2>4, <2>5 DEF Tasks, FilledHasStep, Current
<1>8. ASSUME NEW opened \in SUBSET plugged, NEW order \in SetToSeqs(opened),
             NEW bad \in SUBSET opened, NEW n \in 0..MaxKits, Connect(order, bad, n)
      PROVE Tasks' /\ FilledHasStep'
  BY <1>8, ConnectTasks
<1>9. ASSUME NEW s \in Seq(Steps), NEW t \in Threads, todo[t] = <<>>, todo' = [todo EXCEPT ![t] = s],
             filled' = filled, engine' \in {engine, t}
      PROVE Tasks' /\ FilledHasStep'
  BY <1>9 DEF Tasks, FilledHasStep, Current
<1>10. CASE TimeUpdate
  <2>1. \E s \in Seq(Steps) : todo' = [todo EXCEPT ![Main] = s \o <<Just("total"), Just("settle")>>]
    <3>1. LimitSteps("instanceLimit", InstanceMax, instanceTime') \in Seq(Steps) /\ <<>> \in Seq(Steps)
      BY LimitStepsTyped DEF Limits
    <3> QED BY <1>10, <3>1 DEF TimeUpdate
  <2>2. PICK s \in Seq(Steps) : todo' = [todo EXCEPT ![Main] = s \o <<Just("total"), Just("settle")>>]
    BY <2>1
  <2>3. <<Just("total"), Just("settle")>> \in Seq(Steps)
    BY JustTyped
  <2>4. s \o <<Just("total"), Just("settle")>> \in Seq(Steps)
    BY <2>3, ConcatProperties
  <2> QED BY <1>1, <1>9, <1>10, <2>2, <2>4 DEF TimeUpdate, MainAt
<1>11. ASSUME NEW t \in Threads, NEW command, Rumble(t, command), todo[t] = <<>>, filled' = filled
       PROVE Tasks' /\ FilledHasStep'
  <2>1. Calls(command) \o <<Just("unlock")>> \in Seq(Steps)
    BY CallsTyped, JustTyped, OneMore
  <2> QED BY <1>9, <1>11, <2>1 DEF Rumble
<1>12. CASE PollNothing \/ CountNoData \/ PressNothing \/ \E p \in Pods : Unplug(p) \/ Plug(p)
  BY <1>12 DEF PollNothing, CountNoData, PressNothing, Unplug, Plug, Tasks, FilledHasStep, Current
<1>13. CASE Restart
  <2>1. /\ Calls("SK_ALL_OFF") \o <<Just("unlock")>> \o EndSteps \in Seq(Steps)
        /\ EndSteps \in Seq(Steps)
    BY RestartTyped, EndStepsTyped DEF Table
  <2> QED BY <1>1, <1>9, <1>13, <2>1 DEF Restart, MainAt
<1>14. CASE RestartSender
  <2>1. /\ Loop("strobe", FALSE) \o Loop("fog", FALSE) \o Loop("leds", FALSE) \o EndSteps \in Seq(Steps)
        /\ <<>> \in Seq(Steps)
    BY RestartTyped, EmptySeq, Zenon DEF Table
  <2> QED BY <1>1, <1>9, <1>14, <2>1 DEF RestartSender, MainAt
<1>15. ASSUME NEW command \in Commands, PollCommand(command) PROVE Tasks' /\ FilledHasStep'
  BY <1>1, <1>11, <1>15 DEF PollCommand, MainAt
<1>16. ASSUME NEW k \in Kits, PressXbox(k) PROVE Tasks' /\ FilledHasStep'
  <2>1. \E c : todo' = [todo EXCEPT ![Main] = SetConfigSteps(k, c)]
    BY <1>16 DEF PressXbox
  <2> QED BY <1>1, <1>9, <1>16, <2>1, SetConfigTyped DEF PressXbox, MainAt
<1>17. ASSUME NEW w \in Watchers, NEW command \in Commands, PressFileButton(w, command)
       PROVE Tasks' /\ FilledHasStep'
  BY <1>11, <1>17 DEF PressFileButton, Threads
<1>18. CASE UNCHANGED vars
  BY <1>18 DEF vars, Tasks, FilledHasStep, Current
<1> QED BY <1>2, <1>3, <1>4, <1>5, <1>6, <1>7, <1>8, <1>10, <1>12, <1>13, <1>14, <1>15, <1>16,
           <1>17, <1>18 DEF Next

\* What a scan does to the table and the pods.
LEMMA ConnectTable ==
  ASSUME Table, World, NEW opened \in SUBSET plugged, NEW order \in SetToSeqs(opened), NEW bad,
         NEW n \in 0..MaxKits, Connect(order, bad, n)
  PROVE  Table' /\ World'
<1>1. /\ Len(order) \in Nat /\ n <= Len(order)
      /\ \A i \in 1..Len(order) : order[i] \in Pods
  BY OrderIs DEF Connect, Connects
<1>2. \A k \in Kits : k < n \/ (k = n /\ n < Len(order)) => order[k + 1] \in Pods
  BY <1>1, KitsAssumption DEF Kits
<1>3. handle' \in [Kits -> Pods \cup {None, Gone}]
  BY <1>2 DEF Connect, Table
<1>4. DefaultConfig \in Configs /\ 1 \in Configs
  BY KitsAssumption DEF Configs
<1>5. config' \in [Kits -> Configs \cup {NoConfig}]
  <2>1. CASE n = 0
    BY <2>1 DEF Connect, Table
  <2>2. CASE n # 0
    BY <1>4, <2>2 DEF Connect, Table
  <2> QED BY <2>1, <2>2
<1>6. amount' = n /\ context' = (n > 0) /\ report' = report
  BY DEF Connect
<1>7. Table'
  BY <1>3, <1>5, <1>6 DEF Table
<1>8. lamps' \in [Pods -> SUBSET Lamps]
  BY DEF Connect, World
<1>9. at' \in {"start", "time", "nodata"}
  BY DEF Connect
<1> QED BY <1>7, <1>8, <1>9 DEF Connect, World

LEMMA TableStep ==
  Tasks /\ FilledHasStep /\ Table /\ World /\ [Next]_vars => Table' /\ World'
<1> SUFFICES ASSUME Tasks, FilledHasStep, Table, World, [Next]_vars PROVE Table' /\ World'
  OBVIOUS
<1>1. Main \in Threads
  BY DEF Threads
<1>2. ASSUME UNCHANGED <<kitVars, report, plugged, lamps, fogFor, sender>>,
             at' \in {"start", "time", "poll", "nodata", "buttons", "connect"}
      PROVE  Table' /\ World'
  BY <1>2 DEF Table, World, kitVars
<1>3. ASSUME NEW t \in Threads, SkipReport(t) \/ Unlock(t) PROVE Table' /\ World'
  BY <1>2, <1>3 DEF SkipReport, Unlock, podVars, World
<1>4. ASSUME NEW t \in Threads, FillReport(t) PROVE Table' /\ World'
  <2>1. report' \in [Kits -> [lamp : Lamps \cup {"status", "none"}, on : BOOLEAN]]
    BY <1>4, CurrentTyped DEF FillReport, Table
  <2> QED BY <1>4, <2>1 DEF FillReport, Table, World, kitVars, podVars
<1>5. ASSUME NEW t \in Threads, TransferReport(t) PROVE Table' /\ World'
  <2>1. \A on \in SUBSET Lamps : \A r : Obey(on, r) \in SUBSET Lamps
    BY DEF Obey
  <2>2. lamps' \in [Pods -> SUBSET Lamps]
    BY <1>5, <2>1 DEF TransferReport, World
  <2>3. fogFor' \in [Pods -> 0..FogCap]
    BY <1>5, KitsAssumption DEF TransferReport, World
  <2> QED BY <1>5, <2>2, <2>3 DEF TransferReport, Table, World, kitVars
<1>6. CASE CloseKit
  BY <1>1, <1>6, CurrentTyped DEF CloseKit, Table, World, podVars
<1>7. CASE ExitContext
  <2>1. amount' \in 0..MaxKits /\ context' \in BOOLEAN
    <3>1. amount' = 0 /\ context' = FALSE
      BY <1>7 DEF ExitContext
    <3>2. 0 \in 0..MaxKits
      BY Numbers
    <3> QED BY <3>1, <3>2
  <2>2. handle' \in [Kits -> Pods \cup {None, Gone}]
    BY <1>7 DEF ExitContext
  <2> QED BY <1>7, <2>1, <2>2 DEF ExitContext, Table, World, podVars
<1>8. CASE CountTotal \/ Settle \/ PollNothing \/ Restart \/ RestartSender \/ CountNoData \/ PressNothing
  BY <1>2, <1>8 DEF CountTotal, Settle, PollNothing, Restart, RestartSender, CountNoData,
                    PressNothing, podVars, World
<1>9. ASSUME NEW opened \in SUBSET plugged, NEW order \in SetToSeqs(opened),
             NEW bad \in SUBSET opened, NEW n \in 0..MaxKits, Connect(order, bad, n)
      PROVE Table' /\ World'
  BY <1>9, ConnectTable
<1>10. CASE TimeUpdate
  <2>1. \A f \in 0..FogCap : Later(f, FogCap) \in 0..FogCap
    BY KitsAssumption DEF Later
  <2>2. fogFor' \in [Pods -> 0..FogCap]
    BY <1>10, <2>1, KitsAssumption DEF TimeUpdate, World
  <2> QED BY <1>10, <2>2 DEF TimeUpdate, Table, World, kitVars
<1>11. ASSUME NEW command \in Commands, PollCommand(command) PROVE Table' /\ World'
  BY <1>2, <1>11 DEF PollCommand, podVars, World
<1>12. ASSUME NEW k \in Kits, PressXbox(k) PROVE Table' /\ World'
  <2>1. Number(k) \in Nat
    BY KitsAssumption DEF Number, Table, Configs
  <2>2. (Number(k) + 1) % (LastConfig + 1) \in Configs
    <3>1. LastConfig + 1 \in Nat \ {0} /\ Number(k) + 1 \in Nat
      BY <2>1, KitsAssumption
    <3>2. \A i \in Nat, m \in Nat \ {0} : i % m \in 0..(m - 1)
      OBVIOUS
    <3>3. PICK m \in Nat \ {0} : m = LastConfig + 1
      BY <3>1
    <3>4. (Number(k) + 1) % m \in 0..(m - 1)
      BY <3>1, <3>2
    <3> QED BY <3>3, <3>4, KitsAssumption DEF Configs
  <2>3. config' \in [Kits -> Configs \cup {NoConfig}]
    BY <1>12, <2>2 DEF PressXbox, Table
  <2>4. fogFor' \in [Pods -> 0..FogCap]
    BY <1>12, KitsAssumption DEF PressXbox, World
  <2> QED BY <1>12, <2>3, <2>4 DEF PressXbox, Table, World
<1>13. ASSUME NEW w \in Watchers, NEW command \in Commands, PressFileButton(w, command)
       PROVE Table' /\ World'
  BY <1>2, <1>13 DEF PressFileButton, podVars, World
<1>14. ASSUME NEW p \in Pods, Unplug(p) PROVE Table' /\ World'
  <2>1. fogFor' \in [Pods -> 0..FogCap]
    BY <1>14, KitsAssumption DEF Unplug, World
  <2> QED BY <1>14, <2>1 DEF Unplug, Table, World
<1>15. ASSUME NEW p \in Pods, Plug(p) PROVE Table' /\ World'
  BY <1>15 DEF Plug, Table, World, kitVars
<1>16. CASE UNCHANGED vars
  BY <1>16 DEF vars, kitVars, podVars, Table, World
<1> QED BY <1>3, <1>4, <1>5, <1>6, <1>7, <1>8, <1>9, <1>10, <1>11, <1>12, <1>13, <1>14, <1>15,
           <1>16 DEF Next

LEMMA ClockStep == Tasks /\ FilledHasStep /\ Clock /\ [Next]_vars => Clock'
<1> SUFFICES ASSUME Tasks, FilledHasStep, Clock, [Next]_vars PROVE Clock'
  OBVIOUS
<1>1. /\ NoDataLimit \in Nat /\ TimeCap \in Nat
      /\ \A time \in Int : Later(time, TimeCap) \in Int
  BY KitsAssumption DEF Later
<1>2. ASSUME NEW s, NoteFog(s), UNCHANGED <<totalTime, noData>>, s.on \in BOOLEAN PROVE Clock'
  BY <1>2 DEF NoteFog, Clock
<1>3. ASSUME NEW t \in Threads, SkipReport(t) \/ FillReport(t) \/ TransferReport(t) \/ Unlock(t)
      PROVE  Clock'
  <2>1. CASE FillReport(t) \/ Unlock(t)
    BY <2>1 DEF FillReport, Unlock, clockVars, Clock
  <2>2. CASE SkipReport(t) \/ TransferReport(t)
    <3>1. Current(t).on \in BOOLEAN
      BY <1>3, <2>2, CurrentTyped DEF SkipReport, TransferReport, FilledHasStep
    <3>2. NoteFog(Current(t)) /\ UNCHANGED <<totalTime, noData>>
      BY <2>2 DEF SkipReport, TransferReport
    <3> QED BY <1>2, <3>1, <3>2
  <2> QED BY <1>3, <2>1, <2>2
<1>4. CASE CloseKit \/ ExitContext \/ PollNothing \/ Restart \/ RestartSender \/ PressNothing
  BY <1>4 DEF CloseKit, ExitContext, PollNothing, Restart, RestartSender, PressNothing, clockVars, Clock
<1>5. CASE CountTotal \/ Settle \/ TimeUpdate
  <2>1. instanceTime' \in Int /\ totalTime' \in Int
    <3>1. CASE CountTotal
      BY <1>1, <3>1 DEF CountTotal, Clock
    <3>2. CASE TimeUpdate
      BY <1>1, <3>2 DEF TimeUpdate, Clock
    <3>3. CASE Settle
      BY <3>3 DEF Settle, Clock
    <3> QED BY <1>5, <3>1, <3>2, <3>3
  <2>2. noData' = noData /\ fogOn' = fogOn /\ justOff' \in {justOff, FALSE}
    BY <1>5 DEF CountTotal, Settle, TimeUpdate
  <2> QED BY <2>1, <2>2 DEF Clock
<1>6. CASE CountNoData
  BY <1>1, <1>6 DEF CountNoData, Clock
<1>7. ASSUME NEW order, NEW bad, NEW n, Connect(order, bad, n) PROVE Clock'
  BY <1>7 DEF Connect, clockVars, Clock
<1>8. ASSUME NEW t \in Threads, NEW command, Rumble(t, command),
             UNCHANGED <<fogOn, justOff, instanceTime, totalTime>>
      PROVE  Clock'
  BY <1>1, <1>8 DEF Rumble, Clock
<1>9. ASSUME NEW command \in Commands, PollCommand(command) PROVE Clock'
  BY <1>8, <1>9 DEF PollCommand, Threads
<1>10. ASSUME NEW w \in Watchers, NEW command \in Commands, PressFileButton(w, command) PROVE Clock'
  BY <1>8, <1>10 DEF PressFileButton, Threads
<1>11. ASSUME NEW k \in Kits, PressXbox(k) PROVE Clock'
  BY <1>11 DEF PressXbox, clockVars, Clock
<1>12. ASSUME NEW p \in Pods, Unplug(p) \/ Plug(p) PROVE Clock'
  BY <1>12 DEF Unplug, Plug, clockVars, Clock
<1>13. CASE UNCHANGED vars
  BY <1>13 DEF vars, clockVars, Clock
<1> QED BY <1>3, <1>4, <1>5, <1>6, <1>7, <1>9, <1>10, <1>11, <1>12, <1>13 DEF Next

LEMMA TypesStart == Init => Tasks /\ FilledHasStep /\ Table /\ Clock /\ World
<1> SUFFICES ASSUME Init PROVE Tasks /\ FilledHasStep /\ Table /\ Clock /\ World
  OBVIOUS
<1>1. Tasks /\ FilledHasStep
  <2>1. <<>> \in Seq(Steps)
    BY EmptySeq
  <2> QED BY <2>1 DEF Init, Tasks, FilledHasStep
<1>2. Table
  <2>1. 0 \in 0..MaxKits
    BY Numbers
  <2>2. NoReport \in [lamp : Lamps \cup {"status", "none"}, on : BOOLEAN]
    BY DEF NoReport
  <2>3. context \in BOOLEAN
    BY DEF Init
  <2> QED BY <2>1, <2>2, <2>3 DEF Init, Table
<1>3. Clock
  <2>1. 0 \in 0..NoDataLimit
    BY Numbers
  <2>2. instanceTime \in Int /\ totalTime \in Int
    BY Numbers DEF Init
  <2>3. fogOn \in BOOLEAN /\ justOff \in BOOLEAN
    BY DEF Init
  <2> QED BY <2>1, <2>2, <2>3 DEF Init, Clock
<1>4. World
  BY KitsAssumption DEF Init, World
<1> QED BY <1>1, <1>2, <1>3, <1>4

Typed == Tasks /\ FilledHasStep /\ Table /\ Clock /\ World

LEMMA TypedStep == Typed /\ [Next]_vars => Typed'
BY TasksStep, TableStep, ClockStep DEF Typed

\* The variables keep their types for every number of pods, slots and configurations and
\* whatever the button threads do; the count of ticks without data stays within its limit.
THEOREM TypeCorrect == Spec => []TypeOK
<1>1. Init => Typed
  BY TypesStart DEF Typed
<1>2. Typed => TypeOK
  BY TypeParts DEF Typed
<1> QED BY <1>1, <1>2, TypedStep, PTL DEF Spec

------------------------------------------------------------------------------
(* What the sequences of steps hold.                                        *)

\* Commands and configurations close nothing, and only commands light a lamp.
Plain(s) ==
  \A i \in 1..Len(s) : /\ s[i].do \notin {"close", "exit"}
                       /\ s[i].on => s[i].do = "loop" \/ s[i].lamp = "status"

Darkens(s) == \A i \in 1..Len(s) : ~s[i].on

LEMMA PlainJoined ==
  ASSUME NEW s \in Seq(Steps), NEW u \in Seq(Steps)
  PROVE  /\ Plain(s) /\ Plain(u) => Plain(s \o u)
         /\ Darkens(s) /\ Darkens(u) => Darkens(s \o u)
<1> DEFINE w == s \o u
<1>1. /\ Len(s) \in Nat /\ Len(u) \in Nat /\ Len(w) = Len(s) + Len(u)
      /\ \A i \in 1..Len(w) : w[i] = IF i <= Len(s) THEN s[i] ELSE u[i - Len(s)]
  BY ConcatProperties
<1> HIDE DEF w
<1>2. ASSUME NEW i \in 1..Len(w)
      PROVE  \/ i \in 1..Len(s) /\ w[i] = s[i]
             \/ i - Len(s) \in 1..Len(u) /\ w[i] = u[i - Len(s)]
  BY <1>1
<1>3. Plain(s) /\ Plain(u) => Plain(w)
  BY <1>2 DEF Plain
<1>4. Darkens(s) /\ Darkens(u) => Darkens(w)
  BY <1>2 DEF Darkens
<1> QED BY <1>3, <1>4 DEF w

LEMMA PlainTail ==
  ASSUME NEW s \in Seq(Steps), s # <<>>, Plain(s)
  PROVE  Plain(Tail(s))
<1>1. Len(s) \in Nat
  OBVIOUS
<1> QED BY <1>1, HeadTailProperties DEF Plain

LEMMA OneIsPlain ==
  ASSUME NEW do \in {"unlock", "total", "settle"}
  PROVE  Plain(<<Just(do)>>) /\ Darkens(<<Just(do)>>)
BY DEF Plain, Darkens, Just, Step

LEMMA LoopIsPlain ==
  ASSUME NEW lamp \in Lamps, NEW on \in BOOLEAN
  PROVE  Plain(Loop(lamp, on)) /\ (~on => Darkens(Loop(lamp, on)))
<1>1. Len(Loop(lamp, on)) = MaxKits
  BY Numbers DEF Loop
<1>2. \A i \in 1..MaxKits : Loop(lamp, on)[i].do = "loop" /\ Loop(lamp, on)[i].on = on
  BY DEF Loop, Step
<1> QED BY <1>1, <1>2 DEF Plain, Darkens

LEMMA LimitsArePlain ==
  ASSUME NEW limit \in Limits, NEW max, NEW time
  PROVE  Plain(LimitSteps(limit, max, time)) /\ Darkens(LimitSteps(limit, max, time))
<1> DEFINE s == [i \in 1..MaxKits |-> Step(limit, i - 1, "fog", FALSE)]
<1>1. Len(s) = MaxKits
  BY Numbers
<1>2. \A i \in 1..MaxKits : s[i].do \in Limits /\ ~s[i].on
  BY DEF Step
<1>3. Plain(s) /\ Darkens(s)
  BY <1>1, <1>2 DEF Plain, Darkens, Limits
<1>4. Plain(<<>>) /\ Darkens(<<>>)
  BY DEF Plain, Darkens
<1> QED BY <1>3, <1>4 DEF LimitSteps

LEMMA OffLoops == \A lamp \in Lamps, on \in BOOLEAN :
    Loop(lamp, on) \in Seq(Steps) /\ Plain(Loop(lamp, on)) /\ (~on => Darkens(Loop(lamp, on)))
BY LoopTyped, LoopIsPlain

LEMMA ThreeOff ==
  ASSUME NEW a \in Lamps, NEW b \in Lamps, NEW c \in Lamps, NEW off \in BOOLEAN, ~off
  PROVE  /\ Loop(a, off) \o Loop(b, off) \o Loop(c, off) \in Seq(Steps)
         /\ Plain(Loop(a, off) \o Loop(b, off) \o Loop(c, off))
         /\ Darkens(Loop(a, off) \o Loop(b, off) \o Loop(c, off))
<1>1. /\ Loop(a, off) \in Seq(Steps) /\ Loop(b, off) \in Seq(Steps) /\ Loop(c, off) \in Seq(Steps)
      /\ Plain(Loop(a, off)) /\ Plain(Loop(b, off)) /\ Plain(Loop(c, off))
      /\ Darkens(Loop(a, off)) /\ Darkens(Loop(b, off)) /\ Darkens(Loop(c, off))
  BY OffLoops
<1>2. /\ Loop(a, off) \o Loop(b, off) \in Seq(Steps) /\ Plain(Loop(a, off) \o Loop(b, off))
      /\ Darkens(Loop(a, off) \o Loop(b, off))
  BY <1>1, ConcatProperties, PlainJoined
<1> QED BY <1>1, <1>2, ConcatProperties, PlainJoined

LEMMA CallsArePlain == \A command : Plain(Calls(command))
<1>1. TAKE command
<1>2. \A lamp \in {"leds", "strobe", "fog"}, on \in {TRUE, FALSE} : Plain(Loop(lamp, on))
  BY LoopIsPlain DEF Lamps
<1>3. CASE command \in {"SK_LED_RED", "SK_STROBE_SPEED_1", "SK_STROBE_OFF", "SK_FOG_ON",
                       "SK_FOG_OFF"}
  BY <1>2, <1>3 DEF Calls
<1>4. CASE command = "SK_ALL_OFF"
  <2>1. Plain(Loop("leds", FALSE) \o Loop("strobe", FALSE) \o Loop("fog", FALSE))
    BY ThreeOff, Zenon DEF Lamps
  <2> QED BY <1>4, <2>1 DEF Calls
<1>5. CASE command \notin {"SK_LED_RED", "SK_STROBE_SPEED_1", "SK_STROBE_OFF", "SK_FOG_ON",
                       "SK_FOG_OFF", "SK_ALL_OFF"}
  <2>1. Calls(command) = <<>>
    BY <1>5 DEF Calls
  <2>2. Plain(<<>>)
    BY DEF Plain
  <2> QED BY <2>1, <2>2
<1> QED BY <1>3, <1>4, <1>5

\* What Restart has done before it ends the kits.
LEMMA BeforeTheEnd ==
  LET s == Calls("SK_ALL_OFF") \o <<Just("unlock")>>
      u == Loop("strobe", FALSE) \o Loop("fog", FALSE) \o Loop("leds", FALSE)
  IN  /\ s \in Seq(Steps) /\ Plain(s) /\ Darkens(s)
      /\ u \in Seq(Steps) /\ Plain(u) /\ Darkens(u)
<1>1. /\ Plain(Calls("SK_ALL_OFF")) /\ Calls("SK_ALL_OFF") \in Seq(Steps)
  BY CallsArePlain, CallsTyped
<1>2. Darkens(Calls("SK_ALL_OFF"))
  <2>1. Darkens(Loop("leds", FALSE) \o Loop("strobe", FALSE) \o Loop("fog", FALSE))
    BY ThreeOff, Zenon DEF Lamps
  <2> QED BY <2>1 DEF Calls
<1>3. <<Just("unlock")>> \in Seq(Steps) /\ Plain(<<Just("unlock")>>) /\ Darkens(<<Just("unlock")>>)
  BY JustTyped, OneIsPlain
<1>4. LET u == Loop("strobe", FALSE) \o Loop("fog", FALSE) \o Loop("leds", FALSE)
      IN  u \in Seq(Steps) /\ Plain(u) /\ Darkens(u)
  BY ThreeOff, Zenon DEF Lamps
<1> QED BY <1>1, <1>2, <1>3, <1>4, ConcatProperties, PlainJoined

LEMMA ConfigsArePlain ==
  ASSUME NEW k \in Kits, NEW c
  PROVE  /\ Len(SetConfigSteps(k, c)) = 4
         /\ \A i \in 1..4 :
              /\ SetConfigSteps(k, c)[i].do \in {"disable", "set"}
              /\ SetConfigSteps(k, c)[i].on => SetConfigSteps(k, c)[i].lamp = "status"
         /\ Plain(SetConfigSteps(k, c))
         /\ SetConfigSteps(k, c)[1] = Step("disable", k, "leds", FALSE)
         /\ SetConfigSteps(k, c)[2] = Step("disable", k, "strobe", FALSE)
<1>1. /\ Len(SetConfigSteps(k, c)) = 4
      /\ \A i \in 1..4 :
           /\ SetConfigSteps(k, c)[i].do \in {"disable", "set"}
           /\ SetConfigSteps(k, c)[i].on => SetConfigSteps(k, c)[i].lamp = "status"
  BY DEF SetConfigSteps, Step
<1>2. /\ SetConfigSteps(k, c)[1] = Step("disable", k, "leds", FALSE)
      /\ SetConfigSteps(k, c)[2] = Step("disable", k, "strobe", FALSE)
  BY DEF SetConfigSteps, Step
<1>3. Plain(SetConfigSteps(k, c))
  BY <1>1 DEF Plain
<1> QED BY <1>1, <1>2, <1>3, Zenon

\* EndSteps, kit by kit.
LEMMA EndStepsAre ==
  ASSUME amount \in 0..MaxKits
  PROVE  /\ \A k \in Kits : k < amount =>
              /\ EndSteps[4 * k + 1] = Step("set", k, "fog", FALSE)
              /\ EndSteps[4 * k + 2] = Step("set", k, "strobe", FALSE)
              /\ EndSteps[4 * k + 3] = Step("set", k, "leds", FALSE)
              /\ EndSteps[4 * k + 4] = Step("close", k, "none", FALSE)
         /\ \A i \in 1..(4 * amount) : \E k \in Kits : k < amount /\ i \in {4 * k + 1, 4 * k + 2, 4 * k + 3, 4 * k + 4}
<1>1. \A k \in Kits, r \in 1..4 : k < amount => EndSteps[4 * k + r] = EndKit(k)[r]
  <2>1. TAKE k \in Kits, r \in 1..4
  <2>2. HAVE k < amount
  <2>3. k \in Nat /\ 4 * k + r \in 1..(4 * amount)
    BY <2>2, Numbers DEF Kits
  <2>4. PICK i \in 1..(4 * amount) : i = 4 * k + r
    BY <2>3
  <2>5. (i - 1) \div 4 = k /\ ((i - 1) % 4) + 1 = r
    BY <2>3, <2>4
  <2>6. EndSteps[i] = EndKit((i - 1) \div 4)[((i - 1) % 4) + 1]
    BY EndStepsTyped
  <2> QED BY <2>4, <2>5, <2>6
<1>2. \A k : /\ EndKit(k)[1] = Step("set", k, "fog", FALSE)
             /\ EndKit(k)[2] = Step("set", k, "strobe", FALSE)
             /\ EndKit(k)[3] = Step("set", k, "leds", FALSE)
             /\ EndKit(k)[4] = Step("close", k, "none", FALSE)
  BY DEF EndKit, Step
<1>3. \A i \in 1..(4 * amount) : \E k \in Kits : k < amount /\ i \in {4 * k + 1, 4 * k + 2, 4 * k + 3, 4 * k + 4}
  <2>1. TAKE i \in 1..(4 * amount)
  <2>2. (i - 1) \div 4 \in Kits /\ (i - 1) \div 4 < amount
    BY EndStepsTyped
  <2>3. i - 1 \in Nat
    BY Numbers
  <2>4. i \in {4 * ((i - 1) \div 4) + 1, 4 * ((i - 1) \div 4) + 2, 4 * ((i - 1) \div 4) + 3, 4 * ((i - 1) \div 4) + 4}
    BY <2>3, Division
  <2> QED BY <2>2, <2>4
<1>4. \A k \in Kits : k < amount =>
        /\ EndSteps[4 * k + 1] = EndKit(k)[1] /\ EndSteps[4 * k + 2] = EndKit(k)[2]
        /\ EndSteps[4 * k + 3] = EndKit(k)[3] /\ EndSteps[4 * k + 4] = EndKit(k)[4]
  BY <1>1
<1> QED BY <1>2, <1>3, <1>4, Zenon

------------------------------------------------------------------------------
(* The table.  While main ends the kits there are slots without a handle    *)
(* below the count; the exit that will reset the count is still to come.    *)

HasExit(s) == \E i \in 1..Len(s) : s[i].do = "exit"
ExitFollows(s) ==
  \A i \in 1..Len(s) : s[i].do = "close" => \E j \in (i + 1)..Len(s) : s[j].do = "exit"

Sound ==
  /\ context <=> amount > 0
  /\ ExitFollows(todo[Main])
  /\ \A k \in Kits : k < amount /\ handle[k] = None => HasExit(todo[Main])
  /\ \A j, k \in Kits : j < amount /\ k < amount /\ handle[j] \in Pods /\ handle[j] = handle[k] => j = k

LEMMA ExitInTail ==
  ASSUME NEW s \in Seq(Steps), s # <<>>
  PROVE  /\ ExitFollows(s) => ExitFollows(Tail(s))
         /\ HasExit(s) /\ Head(s).do # "exit" => HasExit(Tail(s))
         /\ ExitFollows(s) /\ Head(s).do = "close" => HasExit(Tail(s))
<1> DEFINE u == Tail(s)
<1>1. /\ Len(s) \in Nat /\ Len(u) = Len(s) - 1 /\ Len(s) >= 1 /\ Head(s) = s[1]
      /\ \A i \in 1..Len(u) : u[i] = s[i + 1]
  BY HeadTailProperties
<1> HIDE DEF u
<1>2. ASSUME HasExit(s), Head(s).do # "exit" PROVE HasExit(u)
  <2>1. PICK i \in 1..Len(s) : s[i].do = "exit"
    BY <1>2 DEF HasExit
  <2>2. i # 1
    BY <1>1, <1>2, <2>1
  <2>3. i - 1 \in 1..Len(u) /\ u[i - 1] = s[i]
    BY <1>1, <2>2
  <2> QED BY <2>1, <2>3 DEF HasExit
<1>3. ASSUME ExitFollows(s) PROVE ExitFollows(u)
  <2> SUFFICES ASSUME NEW i \in 1..Len(u), u[i].do = "close"
               PROVE  \E j \in (i + 1)..Len(u) : u[j].do = "exit"
    BY DEF ExitFollows
  <2>1. i + 1 \in 1..Len(s) /\ s[i + 1].do = "close"
    BY <1>1
  <2>2. PICK j \in (i + 2)..Len(s) : s[j].do = "exit"
    BY <1>1, <1>3, <2>1 DEF ExitFollows
  <2>3. j - 1 \in (i + 1)..Len(u) /\ u[j - 1] = s[j]
    BY <1>1, <2>2
  <2> QED BY <2>2, <2>3
<1>4. ASSUME ExitFollows(s), Head(s).do = "close" PROVE HasExit(u)
  <2>1. PICK j \in 2..Len(s) : s[j].do = "exit"
    BY <1>1, <1>4 DEF ExitFollows
  <2>2. j - 1 \in 1..Len(u) /\ u[j - 1] = s[j]
    BY <1>1, <2>1
  <2> QED BY <2>1, <2>2 DEF HasExit
<1> QED BY <1>2, <1>3, <1>4 DEF u

LEMMA ExitJoined ==
  ASSUME NEW s \in Seq(Steps), NEW u \in Seq(Steps), Plain(s)
  PROVE  /\ ExitFollows(u) => ExitFollows(s \o u)
         /\ HasExit(u) => HasExit(s \o u)
<1> DEFINE w == s \o u
<1>1. /\ Len(s) \in Nat /\ Len(u) \in Nat /\ Len(w) = Len(s) + Len(u)
      /\ \A i \in 1..Len(w) : w[i] = IF i <= Len(s) THEN s[i] ELSE u[i - Len(s)]
  BY ConcatProperties
<1> HIDE DEF w
<1>2. ASSUME NEW j \in 1..Len(u) PROVE j + Len(s) \in 1..Len(w) /\ w[j + Len(s)] = u[j]
  BY <1>1
<1>3. HasExit(u) => HasExit(w)
  BY <1>2 DEF HasExit
<1>4. ASSUME ExitFollows(u) PROVE ExitFollows(w)
  <2> SUFFICES ASSUME NEW i \in 1..Len(w), w[i].do = "close"
               PROVE  \E j \in (i + 1)..Len(w) : w[j].do = "exit"
    BY DEF ExitFollows
  <2>1. ~(i <= Len(s))
    <3>1. SUFFICES ASSUME i <= Len(s) PROVE FALSE
      OBVIOUS
    <3>2. i \in 1..Len(s) /\ w[i] = s[i]
      BY <1>1, <3>1
    <3> QED BY <3>2 DEF Plain
  <2>2. i - Len(s) \in 1..Len(u) /\ u[i - Len(s)].do = "close"
    BY <1>1, <2>1
  <2>3. PICK j \in (i - Len(s) + 1)..Len(u) : u[j].do = "exit"
    BY <1>4, <2>2 DEF ExitFollows
  <2>4. j \in 1..Len(u) /\ j + Len(s) \in (i + 1)..Len(w)
    BY <1>1, <2>2, <2>3
  <2> QED BY <1>2, <2>3, <2>4
<1> QED BY <1>3, <1>4 DEF w

LEMMA PlainFollows == \A s : Plain(s) => ExitFollows(s)
BY DEF Plain, ExitFollows

LEMMA EndStepsFollow ==
  ASSUME amount \in 0..MaxKits
  PROVE  ExitFollows(EndSteps) /\ HasExit(EndSteps)
<1>1. /\ 4 * amount + 1 \in Nat /\ Len(EndSteps) = 4 * amount + 1
      /\ EndSteps[4 * amount + 1].do = "exit"
  BY EndStepsTyped, Numbers DEF Just, Step
<1>2. 4 * amount + 1 \in 1..Len(EndSteps)
  BY <1>1
<1>3. HasExit(EndSteps)
  BY <1>1, <1>2 DEF HasExit
<1>4. ASSUME NEW i \in 1..Len(EndSteps), EndSteps[i].do = "close"
      PROVE  4 * amount + 1 \in (i + 1)..Len(EndSteps)
  <2>1. i # 4 * amount + 1
    BY <1>1, <1>4
  <2> QED BY <1>1, <2>1
<1> QED BY <1>1, <1>3, <1>4 DEF ExitFollows

LEMMA SoundStart == Init => Sound
<1> SUFFICES ASSUME Init PROVE Sound
  OBVIOUS
<1>1. amount = 0 /\ context = FALSE /\ todo[Main] = <<>>
  BY DEF Init, Threads
<1>2. ExitFollows(<<>>)
  BY DEF ExitFollows
<1> QED BY <1>1, <1>2, Numbers DEF Sound, Kits

\* What becomes of main's steps when it takes one.
LEMMA MainTakes ==
  ASSUME Typed, todo[Main] # <<>>, todo' = [todo EXCEPT ![Main] = Tail(@)]
  PROVE  /\ todo[Main] \in Seq(Steps) /\ todo'[Main] = Tail(todo[Main])
         /\ ExitFollows(todo[Main]) => ExitFollows(todo'[Main])
         /\ HasExit(todo[Main]) /\ Current(Main).do # "exit" => HasExit(todo'[Main])
         /\ ExitFollows(todo[Main]) /\ Current(Main).do = "close" => HasExit(todo'[Main])
<1>1. todo[Main] \in Seq(Steps) /\ todo'[Main] = Tail(todo[Main])
  BY DEF Typed, Tasks, Threads
<1> QED BY <1>1, ExitInTail DEF Current

\* A scan.
LEMMA ConnectSound ==
  ASSUME Typed, Sound, NEW opened \in SUBSET plugged, NEW order \in SetToSeqs(opened), NEW bad,
         NEW n \in 0..MaxKits, Connect(order, bad, n)
  PROVE  Sound'
<1> DEFINE given == IF DefaultConfig = 0 THEN 1 ELSE DefaultConfig
           calls == [k \in Kits |-> SetConfigSteps(k, given)]
           count == IF DefaultConfig # 0 THEN MaxKits ELSE IF n = 1 THEN 1 ELSE 0
<1>1. /\ n \in Nat /\ n <= Len(order)
      /\ Len(order) \in Nat
      /\ \A i \in 1..Len(order) : order[i] \in Pods
      /\ \A i, j \in 1..Len(order) : order[i] = order[j] => i = j
  BY OrderIs, Numbers DEF Connect, Connects, Typed
<1>2. \A k \in Kits : k < n => k + 1 \in 1..Len(order) /\ handle'[k] = order[k + 1]
  BY <1>1, Numbers DEF Connect, Kits
<1>3. amount' = n /\ context' = (n > 0)
  BY DEF Connect
<1>4. \A k \in Kits : k < n => handle'[k] \in Pods /\ handle'[k] # None
  BY <1>1, <1>2, KitsAssumption
<1>5. \A j, k \in Kits : j < n /\ k < n /\ handle'[j] = handle'[k] => j = k
  <2>1. \A k \in Kits : k \in Nat
    BY DEF Kits
  <2> QED BY <1>1, <1>2, <2>1
<1>6. ExitFollows(todo'[Main])
  <2>1. CASE todo' = todo
    BY <2>1 DEF Sound
  <2>2. CASE todo' = [todo EXCEPT ![Main] = ForKits(count, calls)]
    <3>1. calls \in [Kits -> [1..4 -> Steps]] /\ count \in 0..MaxKits
      BY SetConfigTyped, Numbers
    <3>2. \A k \in Kits, i \in 1..4 : calls[k][i].do # "close"
      BY ConfigsArePlain
    <3> HIDE DEF calls, count
    <3>3. \A i \in 1..Len(ForKits(count, calls)) : ForKits(count, calls)[i].do # "close"
      <4>1. TAKE i \in 1..Len(ForKits(count, calls))
      <4>2. i \in 1..(4 * count)
        BY <3>1, ForKitsTyped
      <4>3. PICK k \in Kits, j \in 1..4 : ForKits(count, calls)[i] = calls[k][j]
        BY <3>1, <4>2, ForKitsTyped
      <4> QED BY <3>2, <4>3
    <3>4. todo'[Main] = ForKits(count, calls)
      BY <2>2 DEF Typed, Tasks, Threads
    <3> QED BY <3>3, <3>4 DEF ExitFollows
  <2> QED BY <2>1, <2>2 DEF Connect
<1> QED BY <1>3, <1>4, <1>5, <1>6 DEF Sound

LEMMA SoundStep == Typed /\ Sound /\ [Next]_vars => Sound'
<1> SUFFICES ASSUME Typed, Sound, [Next]_vars PROVE Sound'
  OBVIOUS
<1>1. Main \in Threads /\ amount \in 0..MaxKits /\ todo \in [Threads -> Seq(Steps)]
  BY DEF Threads, Typed, Table, Tasks
<1>2. ASSUME UNCHANGED <<context, amount, handle>>, ExitFollows(todo'[Main]),
             HasExit(todo[Main]) => HasExit(todo'[Main])
      PROVE  Sound'
  BY <1>2 DEF Sound
<1>3. ASSUME UNCHANGED <<context, amount, handle>>, todo[Main] # <<>>, Current(Main).do # "exit", Done(Main)
      PROVE  Sound'
  BY <1>2, <1>3, MainTakes DEF Sound, Done
<1>4. ASSUME UNCHANGED <<context, amount, handle>>, todo[Main] = <<>>, ExitFollows(todo'[Main]) PROVE Sound'
  <2>1. ~HasExit(todo[Main])
    BY <1>4 DEF HasExit
  <2> QED BY <1>2, <1>4, <2>1
<1>5. ASSUME UNCHANGED <<context, amount, handle>>, todo'[Main] = todo[Main] PROVE Sound'
  BY <1>2, <1>5 DEF Sound
<1>6. ASSUME NEW t \in Threads, SkipReport(t) \/ TransferReport(t) \/ Unlock(t) PROVE Sound'
  <2>1. /\ todo[t] # <<>> /\ Current(t).do # "exit" /\ Done(t)
        /\ UNCHANGED <<context, amount, handle>>
    BY <1>6 DEF SkipReport, TransferReport, Unlock, kitVars, Typed, FilledHasStep, Reports, Limits
  <2>2. CASE t = Main
    BY <1>3, <2>1, <2>2
  <2>3. CASE t # Main
    <3>1. todo'[Main] = todo[Main]
      BY <1>1, <2>1, <2>3 DEF Done
    <3> QED BY <1>5, <2>1, <3>1
  <2> QED BY <2>2, <2>3
<1>7. CASE Settle
  BY <1>3, <1>7 DEF Settle, kitVars
<1>8. CASE CloseKit
  <2>1. /\ todo[Main] # <<>> /\ Current(Main).do = "close" /\ Done(Main)
        /\ UNCHANGED <<context, amount>> /\ handle' = [handle EXCEPT ![Current(Main).kit] = None]
    BY <1>8 DEF CloseKit
  <2>2. HasExit(todo'[Main]) /\ ExitFollows(todo'[Main])
    BY <2>1, MainTakes DEF Sound, Done
  <2>3. \A k \in Kits : handle'[k] \in {handle[k], None}
    BY <2>1 DEF Typed, Table
  <2>4. None \notin Pods
    BY KitsAssumption
  <2> QED BY <2>1, <2>2, <2>3, <2>4 DEF Sound
<1>9. CASE ExitContext
  <2>1. todo[Main] # <<>> /\ Done(Main) /\ amount' = 0 /\ context' = FALSE
    BY <1>9 DEF ExitContext
  <2>2. ExitFollows(todo'[Main])
    BY <2>1, MainTakes DEF Sound, Done
  <2>3. \A k \in Kits : ~(k < 0)
    BY DEF Kits
  <2> QED BY <2>1, <2>2, <2>3 DEF Sound
<1>10. ASSUME NEW s \in Seq(Steps), Plain(s), todo' = [todo EXCEPT ![Main] = s \o Tail(@)],
              todo[Main] # <<>>, Current(Main).do # "exit", UNCHANGED <<context, amount, handle>>
       PROVE  Sound'
  <2>1. /\ Tail(todo[Main]) \in Seq(Steps) /\ ExitFollows(Tail(todo[Main]))
        /\ HasExit(todo[Main]) => HasExit(Tail(todo[Main]))
    BY <1>1, <1>10, ExitInTail, HeadTailProperties DEF Sound, Current
  <2>2. todo'[Main] = s \o Tail(todo[Main])
    BY <1>1, <1>10
  <2> QED BY <1>2, <1>10, <2>1, <2>2, ExitJoined
<1>11. CASE CountTotal
  <2>1. PICK s \in Seq(Steps) : Plain(s) /\ todo' = [todo EXCEPT ![Main] = s \o Tail(@)]
    <3>1. /\ LimitSteps("totalLimit", TotalMax, totalTime') \in Seq(Steps) /\ <<>> \in Seq(Steps)
          /\ Plain(LimitSteps("totalLimit", TotalMax, totalTime'))
      BY LimitStepsTyped, LimitsArePlain DEF Limits
    <3>2. Plain(<<>>)
      BY DEF Plain
    <3> QED BY <1>11, <3>1, <3>2 DEF CountTotal
  <2> QED BY <1>10, <1>11, <2>1 DEF CountTotal, kitVars
<1>12. ASSUME NEW s \in Seq(Steps), ExitFollows(s), todo[Main] = <<>>, todo' = [todo EXCEPT ![Main] = s],
              UNCHANGED <<context, amount, handle>>
       PROVE  Sound'
  BY <1>1, <1>4, <1>12
<1>13. CASE TimeUpdate
  <2>1. PICK s \in Seq(Steps) : Plain(s) /\ todo' = [todo EXCEPT ![Main] = s \o <<Just("total"), Just("settle")>>]
    <3>1. /\ LimitSteps("instanceLimit", InstanceMax, instanceTime') \in Seq(Steps) /\ <<>> \in Seq(Steps)
          /\ Plain(LimitSteps("instanceLimit", InstanceMax, instanceTime'))
      BY LimitStepsTyped, LimitsArePlain DEF Limits
    <3>2. Plain(<<>>)
      BY DEF Plain
    <3> QED BY <1>13, <3>1, <3>2 DEF TimeUpdate
  <2>2. <<Just("total"), Just("settle")>> \in Seq(Steps) /\ Plain(<<Just("total"), Just("settle")>>)
    <3>1. <<Just("total"), Just("settle")>> \in Seq(Steps)
      BY JustTyped
    <3>2. Plain(<<Just("total"), Just("settle")>>)
      BY DEF Plain, Just, Step
    <3> QED BY <3>1, <3>2
  <2>3. /\ s \o <<Just("total"), Just("settle")>> \in Seq(Steps)
        /\ ExitFollows(s \o <<Just("total"), Just("settle")>>)
    BY <2>1, <2>2, ConcatProperties, PlainJoined, PlainFollows
  <2> QED BY <1>12, <1>13, <2>1, <2>3 DEF TimeUpdate, MainAt, kitVars
<1>14. ASSUME NEW command
       PROVE  /\ Calls(command) \o <<Just("unlock")>> \in Seq(Steps)
              /\ Plain(Calls(command) \o <<Just("unlock")>>)
  <2>1. <<Just("unlock")>> \in Seq(Steps) /\ Plain(<<Just("unlock")>>)
    BY JustTyped, OneIsPlain
  <2> QED BY <2>1, CallsTyped, CallsArePlain, ConcatProperties, PlainJoined
<1>15. ASSUME NEW command \in Commands, PollCommand(command) PROVE Sound'
  BY <1>12, <1>14, <1>15, PlainFollows DEF PollCommand, Rumble, MainAt, kitVars
<1>16. ASSUME NEW w \in Watchers, NEW command \in Commands, PressFileButton(w, command) PROVE Sound'
  <2>1. w # Main
    BY KitsAssumption
  <2>2. todo'[Main] = todo[Main]
    BY <1>1, <1>16, <2>1 DEF PressFileButton, Rumble
  <2> QED BY <1>5, <1>16, <2>2 DEF PressFileButton, kitVars
<1>17. CASE Restart
  <2>1. EndSteps \in Seq(Steps) /\ ExitFollows(EndSteps)
    BY <1>1, EndStepsTyped, EndStepsFollow
  <2>2. /\ Calls("SK_ALL_OFF") \o <<Just("unlock")>> \o EndSteps \in Seq(Steps)
        /\ ExitFollows(Calls("SK_ALL_OFF") \o <<Just("unlock")>> \o EndSteps)
    BY <1>14, <2>1, ConcatProperties, ExitJoined
  <2> QED BY <1>12, <1>17, <2>1, <2>2 DEF Restart, MainAt, kitVars
<1>18. CASE RestartSender
  <2>1. PICK s \in Seq(Steps) : ExitFollows(s) /\ todo' = [todo EXCEPT ![Main] = s]
    <3>1. EndSteps \in Seq(Steps) /\ ExitFollows(EndSteps)
      BY <1>1, EndStepsTyped, EndStepsFollow
    <3>2. /\ Loop("strobe", FALSE) \o Loop("fog", FALSE) \o Loop("leds", FALSE) \in Seq(Steps)
          /\ Plain(Loop("strobe", FALSE) \o Loop("fog", FALSE) \o Loop("leds", FALSE))
      BY BeforeTheEnd
    <3>3. /\ Loop("strobe", FALSE) \o Loop("fog", FALSE) \o Loop("leds", FALSE) \o EndSteps \in Seq(Steps)
          /\ ExitFollows(Loop("strobe", FALSE) \o Loop("fog", FALSE) \o Loop("leds", FALSE) \o EndSteps)
      BY <3>1, <3>2, ConcatProperties, ExitJoined, Zenon
    <3>4. <<>> \in Seq(Steps) /\ ExitFollows(<<>>)
      BY DEF ExitFollows
    <3> QED BY <1>18, <3>3, <3>4 DEF RestartSender
  <2> QED BY <1>12, <1>18, <2>1 DEF RestartSender, MainAt, kitVars
<1>19. ASSUME NEW k \in Kits, PressXbox(k) PROVE Sound'
  <2>1. PICK c : todo' = [todo EXCEPT ![Main] = SetConfigSteps(k, c)]
    BY <1>19 DEF PressXbox
  <2>2. SetConfigSteps(k, c) \in Seq(Steps) /\ ExitFollows(SetConfigSteps(k, c))
    BY SetConfigTyped, ConfigsArePlain, PlainFollows
  <2> QED BY <1>12, <1>19, <2>1, <2>2 DEF PressXbox, MainAt
<1>20. ASSUME NEW opened \in SUBSET plugged, NEW order \in SetToSeqs(opened),
              NEW bad \in SUBSET opened, NEW n \in 0..MaxKits, Connect(order, bad, n)
       PROVE  Sound'
  BY <1>20, ConnectSound
<1>21. ASSUME NEW p \in Pods, Unplug(p) PROVE Sound'
  <2>1. \A k \in Kits : handle'[k] = IF handle[k] = p THEN Gone ELSE handle[k]
    BY <1>21 DEF Unplug
  <2>2. Gone \notin Pods /\ Gone # None
    BY KitsAssumption
  <2> QED BY <1>21, <2>1, <2>2 DEF Unplug, Sound
<1>22. CASE PollNothing \/ CountNoData \/ PressNothing \/ (\E t \in Threads : FillReport(t))
            \/ (\E p \in Pods : Plug(p))
  BY <1>5, <1>22 DEF PollNothing, CountNoData, PressNothing, FillReport, Plug, kitVars
<1>23. CASE UNCHANGED vars
  BY <1>5, <1>23 DEF vars, kitVars
<1> QED BY <1>6, <1>7, <1>8, <1>9, <1>11, <1>13, <1>15, <1>16, <1>17, <1>18, <1>19, <1>20, <1>21,
           <1>22, <1>23 DEF Next

LEMMA Invariant == Spec => [](Typed /\ Sound)
<1>1. Init => Typed /\ Sound
  BY TypesStart, SoundStart DEF Typed
<1> QED BY <1>1, TypedStep, SoundStep, PTL DEF Spec

\* Whatever is plugged in, fails to come up or is restarted, and whatever the button threads
\* do meanwhile: when main has no step left, every kit it counts has a handle, and no pod
\* has two kits.
THEOREM TableAlwaysSound == Spec => []TableSound
<1>1. Sound => TableSound
  BY DEF Sound, TableSound, Connected, HasExit
<1> QED BY <1>1, Invariant, PTL
==============================================================================
