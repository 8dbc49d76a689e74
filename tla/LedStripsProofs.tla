--------------------------- MODULE LedStripsProofs ---------------------------
(***************************************************************************)
(* Proofs about LedStrips, for every strip, every set of groups, rates and *)
(* any number of button threads: no LED is left flashing, an LED shows     *)
(* what the game said of it, and the loop sleeps no longer than it may.    *)
(***************************************************************************)
EXTENDS LedStrips, TLAPS

Steps == [do : {"speed", "zero", "off", "dark"}, arg : Speeds] \cup [do : {"lights"}, arg : Lights]

Shown == Colours \cup {"strobe", "nodata", "off"}

\* Main reads and writes in turn; what it has in hand is a number.
Quantities ==
  /\ pc \in Inside \cup {"timer", "poll", "data", "sleep"}
  /\ speed \in Speeds /\ nextOn \in Int /\ held \in Int
  /\ passed \in Nat /\ asked \in 0..(Word - 1)

Strip ==
  /\ shown \in [Leds -> Shown]
  /\ said \in [Colours -> SUBSET Bits] /\ painted \subseteq Colours

Doing ==
  /\ todo \in [Threads -> Seq(Steps)]
  /\ engine \in Threads \cup {None}
  /\ disturbed \in BOOLEAN

LEMMA TypeParts == TypeOK <=> Quantities /\ Strip /\ Doing
BY DEF TypeOK, Quantities, Strip, Doing, Steps, Shown

LEMMA Remainder == \A n \in Int, w \in Nat \ {0} : n % w \in 0..(w - 1)
OBVIOUS

LEMMA SmallRemainder == \A n \in Nat, w \in Nat \ {0} : n < w => n % w = n
OBVIOUS

LEMMA CommandsTyped == Commands \subseteq Seq(Steps)
<1>1. 0 \in Speeds
  BY StripsAssumption DEF Speeds
<1>2. /\ \A s \in Speeds : Step("speed", s) \in Steps
      /\ Step("zero", 0) \in Steps /\ Step("off", 0) \in Steps /\ Step("dark", 0) \in Steps
      /\ \A l \in Lights : Step("lights", l) \in Steps
  BY <1>1 DEF Step, Steps
<1>3. \A s \in Speeds : StrobeUpdate(s) \in Seq(Steps)
  BY <1>2 DEF StrobeUpdate
<1>4. ResetVariables \in Seq(Steps)
  BY <1>1, <1>2 DEF ResetVariables
<1>5. AllOff \in Seq(Steps)
  BY <1>1, <1>2, <1>3, <1>4 DEF AllOff
<1>6. \A l \in Lights : <<Step("lights", l)>> \in Seq(Steps)
  BY <1>2
<1> QED BY <1>3, <1>5, <1>6 DEF Commands

LEMMA ResetTyped == ResetVariables \in Seq(Steps)
BY StripsAssumption DEF ResetVariables, Step, Steps, Speeds

------------------------------------------------------------------------------
(* The types.                                                               *)

\* What a step of a command does.
LEMMA StepTaken ==
  ASSUME Doing, NEW t \in Threads, TakeStep(t)
  PROVE  /\ todo[t] \in Seq(Steps) /\ todo[t] # <<>>
         /\ Head(todo[t]) \in Steps
         /\ todo' \in [Threads -> Seq(Steps)]
         /\ engine' \in Threads \cup {None}
<1>1. todo[t] \in Seq(Steps) /\ todo[t] # <<>>
  BY DEF Doing, TakeStep
<1>2. Head(todo[t]) \in Steps /\ Tail(todo[t]) \in Seq(Steps)
  BY <1>1
<1>3. todo' \in [Threads -> Seq(Steps)] /\ engine' \in {engine, None}
  BY <1>2 DEF Doing, TakeStep
<1> QED BY <1>1, <1>2, <1>3 DEF Doing

LEMMA StepFields ==
  ASSUME NEW s \in Steps
  PROVE  /\ s.do \in {"speed", "zero", "off", "dark", "lights"}
         /\ s.do # "lights" => s.arg \in Speeds
         /\ s.do = "lights" => s.arg[1] \in Colours /\ s.arg[2] \in SUBSET Bits
BY StripsAssumption DEF Steps

\* Where main may be and what it does there.
LEMMA DoingStep == Doing /\ [Next]_vars => Doing'
<1> SUFFICES ASSUME Doing, [Next]_vars PROVE Doing'
  OBVIOUS
<1>1. CASE Timer
  BY <1>1 DEF Doing, Timer, Test, Compare, CountDown, Flash, EndFlash, Ask, Keep
<1>2. CASE PollNothing \/ ShowNoData \/ Sleep
  BY <1>2 DEF Doing, PollNothing, ShowNoData, Sleep, Keep
<1>3. CASE Reset
  BY <1>3, ResetTyped DEF Doing, Reset
<1>4. ASSUME NEW t \in Threads, TakeStep(t) PROVE Doing'
  <2>1. disturbed' \in BOOLEAN
    BY <1>4 DEF Doing, TakeStep
  <2> QED BY <1>4, <2>1, StepTaken DEF Doing
<1>5. ASSUME NEW t \in Threads, NEW steps \in Commands, Command(t, steps) PROVE Doing'
  BY <1>5, CommandsTyped DEF Doing, Command
<1>6. CASE UNCHANGED vars
  BY <1>6 DEF Doing, vars
<1> QED BY <1>1, <1>2, <1>3, <1>4, <1>5, <1>6 DEF Next

LEMMA QuantitiesStep == Quantities /\ Doing /\ [Next]_vars => Quantities'
<1> SUFFICES ASSUME Quantities, Doing, [Next]_vars PROVE Quantities'
  OBVIOUS
<1> USE DEF Quantities
<1>1. Rates \in Seq(Nat) /\ Floor \in Nat /\ StageSleep \in 0..(Word - 1) /\ Word \in Nat \ {0}
        /\ StrobeSleep \in 0..(Word - 1) /\ Late \subseteq Nat /\ Stray \subseteq Nat
  BY StripsAssumption
<1>2. Floored(nextOn - passed) \in Int
  BY <1>1 DEF Floored
<1>3. CASE Test
  BY <1>1, <1>3 DEF Test, Goto, Inside, Keep
<1>4. CASE Compare \/ EndFlash
  BY <1>4 DEF Compare, EndFlash, Goto, Inside, Keep
<1>5. CASE CountDown
  BY <1>2, <1>5 DEF CountDown, Read, Write, Goto, Inside, Keep
<1>6. CASE Flash
  <2>1. \A r \in RateNow : r \in Nat
    BY <1>1 DEF RateNow, Speeds
  <2>2. CASE MainAt("rate") /\ \E r \in RateNow : Read(nextOn + r, "rated")
    BY <1>6, <2>1, <2>2 DEF Flash, Read, Goto, Inside, Keep
  <2>3. CASE ~(MainAt("rate") /\ \E r \in RateNow : Read(nextOn + r, "rated"))
    BY <1>2, <1>6, <2>3 DEF Flash, Read, Write, Goto, Inside, Keep
  <2> QED BY <2>2, <2>3
<1>7. CASE Ask
  <2>1. nextOn % Word \in 0..(Word - 1)
    BY <1>1, Remainder
  <2>2. asked' \in 0..(Word - 1)
    BY <1>1, <1>7, <2>1 DEF Ask, SleepTimes
  <2> QED BY <1>7, <2>2 DEF Ask, Goto, Inside, Keep
<1>8. CASE PollNothing \/ ShowNoData
  BY <1>8 DEF PollNothing, ShowNoData, Goto, Inside, Keep
<1>9. CASE Reset
  BY <1>9 DEF Reset, strobeVars, Goto
<1>10. CASE Sleep
  <2>1. passed' \in Nat
    BY <1>1, <1>10 DEF Sleep
  <2> QED BY <1>1, <1>10, <2>1 DEF Sleep, Goto, Keep
<1>11. ASSUME NEW t \in Threads, TakeStep(t) PROVE Quantities'
  <2>1. speed' \in Speeds
    BY <1>11, StepTaken, StepFields DEF TakeStep
  <2> QED BY <1>11, <2>1 DEF TakeStep, timerVars
<1>12. ASSUME NEW t \in Threads, NEW steps \in Commands, Command(t, steps) PROVE Quantities'
  BY <1>12 DEF Command, strobeVars
<1>13. CASE UNCHANGED vars
  BY <1>13 DEF vars, timerVars, strobeVars
<1> QED BY <1>3, <1>4, <1>5, <1>6, <1>7, <1>8, <1>9, <1>10, <1>11, <1>12, <1>13 DEF Next, Timer

LEMMA StripStep == Strip /\ Doing /\ [Next]_vars => Strip'
<1> SUFFICES ASSUME Strip, Doing, [Next]_vars PROVE Strip'
  OBVIOUS
<1>1. ASSUME NEW leds, NEW colour \in Shown, SetColour(leds, colour)
      PROVE  shown' \in [Leds -> Shown]
  BY <1>1 DEF Strip, SetColour
<1>2. ASSUME NEW on, Strobe(on) PROVE shown' \in [Leds -> Shown]
  BY <1>1, <1>2 DEF Strobe, Shown
<1>3. ASSUME NEW c \in Colours, NEW bits, SetLEDS(c, bits)
      PROVE  shown' \in [Leds -> Shown]
  BY <1>3 DEF Strip, SetLEDS, Shown
<1>4. CASE Compare \/ EndFlash
  BY <1>2, <1>4 DEF Strip, Compare, EndFlash
<1>5. CASE Test \/ CountDown \/ Flash \/ Ask
  BY <1>5 DEF Strip, Test, CountDown, Flash, Ask, stripVars
<1>6. CASE PollNothing \/ Reset \/ Sleep
  BY <1>6 DEF Strip, PollNothing, Reset, Sleep, stripVars
<1>7. CASE ShowNoData
  <2>1. "nodata" \in Shown
    BY DEF Shown
  <2> QED BY <1>1, <1>7, <2>1 DEF Strip, ShowNoData, stripVars
<1>8. ASSUME NEW t \in Threads, TakeStep(t) PROVE Strip'
  <2> DEFINE s == Head(todo[t])
  <2>1. s \in Steps
    BY <1>8, StepTaken
  <2>2. CASE s.do = "lights"
    <3>1. /\ SetLEDS(s.arg[1], s.arg[2])
          /\ said' = [said EXCEPT ![s.arg[1]] = s.arg[2]]
          /\ painted' = painted \ {s.arg[1]}
      BY <1>8, <2>2 DEF TakeStep
    <3> QED BY <1>3, <2>1, <2>2, <3>1, StepFields DEF Strip
  <2>3. CASE s.do = "off"
    <3>1. SetColour(Leds, "off") /\ said' = [c \in Colours |-> {}] /\ painted' = {}
      BY <1>8, <2>3 DEF TakeStep
    <3>2. "off" \in Shown
      BY DEF Shown
    <3> QED BY <1>1, <3>1, <3>2 DEF Strip
  <2>4. CASE s.do = "dark"
    <3>1. Strobe(FALSE) /\ UNCHANGED <<said, painted>>
      BY <1>8, <2>4 DEF TakeStep
    <3> QED BY <1>2, <3>1 DEF Strip
  <2>5. CASE s.do \notin {"lights", "off", "dark"}
    <3>1. UNCHANGED stripVars
      BY <1>8, <2>5 DEF TakeStep
    <3> QED BY <3>1 DEF Strip, stripVars
  <2> QED BY <2>2, <2>3, <2>4, <2>5
<1>9. ASSUME NEW t \in Threads, NEW steps \in Commands, Command(t, steps) PROVE Strip'
  BY <1>9 DEF Strip, Command, stripVars
<1>10. CASE UNCHANGED vars
  BY <1>10 DEF Strip, vars, stripVars
<1> QED BY <1>4, <1>5, <1>6, <1>7, <1>8, <1>9, <1>10 DEF Next, Timer

LEMMA TypeStart == Init => Quantities /\ Strip /\ Doing
<1> SUFFICES ASSUME Init PROVE Quantities /\ Strip /\ Doing
  OBVIOUS
<1>1. Quantities
  BY StripsAssumption DEF Init, Quantities, Speeds
<1>2. Strip
  BY DEF Init, Strip, Shown
<1>3. Doing
  <2>1. <<>> \in Seq(Steps)
    OBVIOUS
  <2> QED BY <2>1 DEF Init, Doing
<1> QED BY <1>1, <1>2, <1>3

LEMMA Typed == Spec => [](Quantities /\ Strip /\ Doing)
BY TypeStart, QuantitiesStep, StripStep, DoingStep, PTL DEF Spec

\* The variables keep their types for every strip and every table of rates; the sleep
\* asked for always fits into a uint16_t.
THEOREM TypeCorrect == Spec => []TypeOK
BY Typed, TypeParts, PTL

------------------------------------------------------------------------------
(* What the LEDs show.                                                      *)

Flashing == {"rate", "rated", "subtract", "subtracted", "dark"}

\* The strobe's colour is on the strobe's LEDs, and only while a flash is under way.
Flashes == \A l \in Leds : shown[l] = "strobe" => l \in StrobeLeds /\ pc \in Flashing

LEMMA FlashesStep == Flashes /\ Quantities /\ Strip /\ Doing /\ [Next]_vars => Flashes'
<1> SUFFICES ASSUME Flashes, Quantities, Strip, Doing, [Next]_vars PROVE Flashes'
  OBVIOUS
<1>1. \A l \in Leds : l \in StrobeLeds <=> (l \in StrobeLeds)'
  BY DEF StrobeLeds, AutoLeds
<1>2. ASSUME \A l \in Leds : shown'[l] = "strobe" => shown[l] = "strobe",
             pc \in Flashing => pc' \in Flashing
      PROVE  Flashes'
  BY <1>1, <1>2 DEF Flashes
<1>3. CASE Compare
  <2>1. CASE passed < nextOn
    <3>1. shown' = shown /\ pc \notin Flashing
      BY <1>3, <2>1 DEF Compare, MainAt, Flashing
    <3> QED BY <1>2, <3>1
  <2>2. CASE ~(passed < nextOn)
    <3>1. pc' = "rate" /\ shown' = [l \in Leds |-> IF l \in StrobeLeds THEN "strobe" ELSE shown[l]]
      BY <1>3, <2>2 DEF Compare, Goto, Strobe, SetColour
    <3> QED BY <1>1, <3>1 DEF Flashes, Flashing
  <2> QED BY <2>1, <2>2
<1>4. CASE EndFlash
  <2>1. shown' = [l \in Leds |-> IF l \in StrobeLeds THEN "off" ELSE shown[l]]
    BY <1>4 DEF EndFlash, Strobe, SetColour
  <2> QED BY <2>1 DEF Flashes
<1>5. CASE Test \/ CountDown \/ Flash \/ Ask
  <2>1. shown' = shown
    BY <1>5 DEF Test, CountDown, Flash, Ask, stripVars
  <2>2. pc \in Flashing => pc' \in Flashing
    BY <1>5 DEF Test, CountDown, Flash, Ask, MainAt, Goto, Read, Write, Flashing
  <2> QED BY <1>2, <2>1, <2>2
<1>6. CASE PollNothing \/ Reset \/ Sleep \/ ShowNoData
  <2>1. pc \notin Flashing
    BY <1>6 DEF PollNothing, Reset, Sleep, ShowNoData, MainAt, Flashing
  <2>2. \A l \in Leds : shown'[l] \in {shown[l], "nodata"}
    BY <1>6 DEF PollNothing, Reset, Sleep, ShowNoData, SetColour, stripVars
  <2> QED BY <1>2, <2>1, <2>2
<1>7. ASSUME NEW t \in Threads, TakeStep(t) PROVE Flashes'
  <2> DEFINE s == Head(todo[t])
  <2>1. s \in Steps /\ pc' = pc
    BY <1>7, StepTaken DEF TakeStep, timerVars
  <2>2. CASE s.do = "lights"
    <3>1. SetLEDS(s.arg[1], s.arg[2]) /\ s.arg[1] # "strobe"
      BY <1>7, <2>1, <2>2, StepFields, StripsAssumption DEF TakeStep
    <3>2. \A l \in Leds : shown'[l] \in {shown[l], s.arg[1], "off"}
      BY <3>1 DEF SetLEDS
    <3> QED BY <1>2, <2>1, <3>1, <3>2
  <2>3. CASE s.do = "off" \/ s.do = "dark"
    <3>1. \E leds : SetColour(leds, "off")
      BY <1>7, <2>3 DEF TakeStep, Strobe
    <3>2. \A l \in Leds : shown'[l] \in {shown[l], "off"}
      BY <3>1 DEF SetColour
    <3> QED BY <1>2, <2>1, <3>2
  <2>4. CASE s.do \notin {"lights", "off", "dark"}
    <3>1. shown' = shown
      BY <1>7, <2>4 DEF TakeStep, stripVars
    <3> QED BY <1>2, <2>1, <3>1
  <2> QED BY <2>2, <2>3, <2>4
<1>8. ASSUME NEW t \in Threads, NEW steps \in Commands, Command(t, steps) PROVE Flashes'
  <2>1. shown' = shown /\ (pc \in Flashing => pc' = pc)
    BY <1>8 DEF Command, stripVars, Flashing
  <2> QED BY <1>2, <2>1
<1>9. CASE UNCHANGED vars
  BY <1>2, <1>9 DEF vars, timerVars, stripVars
<1> QED BY <1>3, <1>4, <1>5, <1>6, <1>7, <1>8, <1>9 DEF Next, Timer

\* Wherever in a flash a button changes or stops the strobe, and whichever LEDs are the
\* strobe's: between two turns of the timer none shows its colour.
THEOREM NoneLeftFlashing == Spec => []StrobeEnds
<1>1. Init => Flashes
  BY DEF Init, Flashes
<1>2. Flashes => StrobeEnds
  BY DEF Flashes, Flashing, StrobeEnds, Inside
<1> QED BY <1>1, <1>2, FlashesStep, Typed, PTL DEF Spec

\* An LED of one group only is out of the strobe's reach and of the other groups'.
LEMMA OwnLedApart ==
  ASSUME NEW c \in Colours, NEW b \in Bits, NEW l \in OwnLeds(c, b)
  PROVE  /\ l \in Leds /\ l \in Groups[c][b] /\ l \notin StrobeLeds
         /\ \A d \in Colours, a \in Bits : l \in Groups[d][a] => d = c /\ a = b
BY DEF OwnLeds, StrobeLeds, AutoLeds

LEMMA GroupsSet ==
  ASSUME NEW c \in Colours, NEW b \in Bits, NEW l \in OwnLeds(c, b),
         NEW d \in Colours, NEW bits \in SUBSET Bits, SetLEDS(d, bits)
  PROVE  shown'[l] = IF d # c THEN shown[l] ELSE IF b \in bits THEN c ELSE "off"
<1> DEFINE mine == {a \in Bits : l \in Groups[d][a]}
<1>1. shown'[l] = IF mine = {} THEN shown[l]
                  ELSE IF (CHOOSE e \in mine : \A a \in mine : a <= e) \in bits THEN d ELSE "off"
  BY OwnLedApart DEF SetLEDS
<1>2. CASE d # c
  <2>1. mine = {}
    BY <1>2, OwnLedApart
  <2> QED BY <1>1, <1>2, <2>1
<1>3. CASE d = c
  <2>1. mine = {b}
    BY <1>3, OwnLedApart
  <2>2. b \in Nat
    BY StripsAssumption
  <2>3. (CHOOSE e \in mine : \A a \in mine : a <= e) = b
    BY <2>1, <2>2
  <2> QED BY <1>1, <1>3, <2>1, <2>3
<1> QED BY <1>2, <1>3

LEMMA ShowsStep == StripShows /\ Strip /\ Doing /\ [Next]_vars => StripShows'
<1> SUFFICES ASSUME StripShows, Strip, Doing, [Next]_vars PROVE StripShows'
  OBVIOUS
<1> DEFINE Right(c, b, l) == shown[l] = IF b \in said[c] THEN c ELSE "off"
<1>1. SUFFICES ASSUME NEW c \in Colours, NEW b \in Bits, NEW l \in OwnLeds(c, b), c \notin painted'
               PROVE  Right(c, b, l)'
  BY DEF StripShows, OwnLeds
<1>2. l \in Leds /\ l \notin StrobeLeds
  BY OwnLedApart
<1>3. c \notin painted => Right(c, b, l)
  BY <1>2 DEF StripShows
<1>4. ASSUME UNCHANGED <<said, painted>>, shown'[l] = shown[l] PROVE Right(c, b, l)'
  BY <1>1, <1>3, <1>4
<1>5. ASSUME NEW on, Strobe(on) PROVE shown'[l] = shown[l]
  BY <1>2, <1>5 DEF Strobe, SetColour
<1>6. CASE Compare \/ EndFlash
  BY <1>4, <1>5, <1>6 DEF Compare, EndFlash
<1>7. CASE Test \/ CountDown \/ Flash \/ Ask \/ PollNothing \/ Reset \/ Sleep
  BY <1>4, <1>7 DEF Test, CountDown, Flash, Ask, PollNothing, Reset, Sleep, stripVars
<1>8. CASE ShowNoData
  <2>1. painted' = Colours \/ UNCHANGED stripVars
    BY <1>8 DEF ShowNoData
  <2> QED BY <1>1, <1>4, <2>1 DEF stripVars
<1>9. ASSUME NEW t \in Threads, TakeStep(t) PROVE Right(c, b, l)'
  <2> DEFINE s == Head(todo[t])
  <2>1. s \in Steps
    BY <1>9, StepTaken
  <2>2. CASE s.do = "lights"
    <3>1. /\ SetLEDS(s.arg[1], s.arg[2])
          /\ said' = [said EXCEPT ![s.arg[1]] = s.arg[2]]
          /\ painted' = painted \ {s.arg[1]}
      BY <1>9, <2>2 DEF TakeStep
    <3>2. s.arg[1] \in Colours /\ s.arg[2] \in SUBSET Bits
      BY <2>1, <2>2, StepFields
    <3>3. shown'[l] = IF s.arg[1] # c THEN shown[l] ELSE IF b \in s.arg[2] THEN c ELSE "off"
      BY <3>1, <3>2, GroupsSet
    <3>4. said'[c] = IF s.arg[1] = c THEN s.arg[2] ELSE said[c]
      BY <3>1, <3>2 DEF Strip
    <3>5. s.arg[1] # c => c \notin painted
      BY <1>1, <3>1
    <3> QED BY <1>3, <3>3, <3>4, <3>5
  <2>3. CASE s.do = "off"
    <3>1. SetColour(Leds, "off") /\ said' = [d \in Colours |-> {}]
      BY <1>9, <2>3 DEF TakeStep
    <3> QED BY <1>2, <3>1 DEF SetColour
  <2>4. CASE s.do = "dark"
    <3>1. Strobe(FALSE) /\ UNCHANGED <<said, painted>>
      BY <1>9, <2>4 DEF TakeStep
    <3> QED BY <1>4, <1>5, <3>1
  <2>5. CASE s.do \notin {"lights", "off", "dark"}
    <3>1. UNCHANGED stripVars
      BY <1>9, <2>5 DEF TakeStep
    <3> QED BY <1>4, <3>1 DEF stripVars
  <2> QED BY <2>2, <2>3, <2>4, <2>5
<1>10. ASSUME NEW t \in Threads, NEW steps \in Commands, Command(t, steps) PROVE Right(c, b, l)'
  BY <1>4, <1>10 DEF Command, stripVars
<1>11. CASE UNCHANGED vars
  BY <1>4, <1>11 DEF vars, stripVars
<1> QED BY <1>6, <1>7, <1>8, <1>9, <1>10, <1>11 DEF Next, Timer

\* Through flashes, commands of any number of threads and changes of the strobe, an LED
\* of one group shows what the game last said of it.
THEOREM ShowsWhatWasSaid == Spec => []StripShows
<1>1. Init => StripShows
  BY OwnLedApart DEF Init, StripShows
<1> QED BY <1>1, ShowsStep, Typed, PTL DEF Spec

------------------------------------------------------------------------------
(* How long the loop sleeps.                                                *)

\* No turn is longer than the strobe's shortest period.
Short(time) == \A s \in 1..Len(Rates) : time <= Rates[s]

\* As long as no command changed the strobe within a turn of the timer, the time of the
\* next flash is not in the past when the turn ends, and main's half-done assignments
\* to it keep that.
Timed ==
  ~disturbed =>
    /\ pc \in Inside => speed > 0 /\ Short(passed)
    /\ pc = "timer" => Short(passed)
    /\ pc \notin {"rated", "subtracted", "counted"} => nextOn >= 0
    /\ pc = "count" => passed < nextOn
    /\ pc = "rated" => held >= passed
    /\ pc = "subtract" => nextOn >= passed
    /\ pc \in {"counted", "subtracted"} => held >= 0
    /\ asked <= SleepMax

LEMMA TimedStep ==
  ASSUME TurnsInTime, Floor > 0, Timed, Quantities, Doing, [Next]_vars
  PROVE  Timed'
<1>0. SUFFICES ASSUME ~disturbed' PROVE Timed'
  BY DEF Timed
<1>1. /\ Rates \in Seq(Nat) /\ Floor \in Nat \ {0} /\ Word \in Nat \ {0} /\ Late \subseteq Nat
      /\ StageSleep \in 0..(Word - 1) /\ StrobeSleep \in 0..(Word - 1)
  BY StripsAssumption
<1>2. SleepMax \in Nat /\ StageSleep <= SleepMax /\ StrobeSleep <= SleepMax
  BY <1>1 DEF SleepMax
<1>3. Short(0)
  BY <1>1 DEF Short
<1>4. Speeds \subseteq Nat /\ \A s \in Speeds : s > 0 => s \in 1..Len(Rates)
  BY <1>1 DEF Speeds
<1>5. /\ pc \in Inside \cup {"timer", "poll", "data", "sleep"}
      /\ speed \in Speeds /\ nextOn \in Int /\ held \in Int
      /\ passed \in Nat /\ asked \in Nat
  BY <1>1 DEF Quantities
<1>6. CASE Test
  <2>1. ~disturbed /\ nextOn' = nextOn /\ speed' = speed /\ pc = "timer"
    BY <1>0, <1>6 DEF Test, Keep, MainAt
  <2>2. CASE speed > 0
    <3>1. pc' = "compare" /\ passed' = passed /\ asked' = asked
      BY <1>6, <2>2 DEF Test, Goto
    <3> QED BY <2>1, <2>2, <3>1 DEF Timed, Short
  <2>3. CASE ~(speed > 0)
    <3>1. pc' = "poll" /\ asked' = StageSleep
      BY <1>6, <2>3 DEF Test, Goto
    <3> QED BY <1>2, <2>1, <3>1 DEF Timed, Inside, SleepMax
  <2> QED BY <2>2, <2>3
<1>7. CASE Compare
  <2>1. ~disturbed /\ UNCHANGED <<nextOn, speed, passed, held, asked>> /\ pc = "compare"
    BY <1>0, <1>7 DEF Compare, Keep, MainAt
  <2>2. pc' = IF passed < nextOn THEN "count" ELSE "rate"
    BY <1>7 DEF Compare, Goto
  <2> QED BY <2>1, <2>2 DEF Timed, Inside, Short, SleepMax
<1>8. CASE CountDown
  <2>1. ~disturbed /\ UNCHANGED <<speed, passed, asked>>
    BY <1>0, <1>8 DEF CountDown, Keep
  <2>2. CASE MainAt("count") /\ Read(Floored(nextOn - passed), "counted")
    <3>1. pc = "count" /\ pc' = "counted" /\ passed < nextOn
      BY <2>1, <2>2 DEF Timed, MainAt, Read, Goto
    <3>2. held' >= 0
      BY <1>1, <1>5, <2>2, <3>1 DEF Read, Floored
    <3> QED BY <2>1, <3>1, <3>2 DEF Timed, Inside, Short, SleepMax
  <2>3. CASE MainAt("counted") /\ Write("ask")
    <3>1. pc = "counted" /\ pc' = "ask" /\ nextOn' = held
      BY <2>3 DEF MainAt, Write, Goto
    <3> QED BY <2>1, <3>1 DEF Timed, Inside, Short, SleepMax
  <2> QED BY <1>8, <2>2, <2>3 DEF CountDown
<1>9. CASE Flash
  <2>1. ~disturbed /\ UNCHANGED <<speed, passed, asked>>
    BY <1>0, <1>9 DEF Flash, Keep
  <2>2. CASE MainAt("rate") /\ \E r \in RateNow : Read(nextOn + r, "rated")
    <3>1. pc = "rate" /\ pc' = "rated" /\ speed > 0 /\ nextOn >= 0 /\ Short(passed)
      BY <2>1, <2>2 DEF Timed, MainAt, Read, Goto, Inside
    <3>2. held' = nextOn + Rates[speed]
      BY <1>4, <1>5, <2>2, <3>1 DEF Read, RateNow
    <3>3. Rates[speed] \in Nat /\ passed <= Rates[speed]
      BY <1>1, <1>4, <1>5, <3>1 DEF Short
    <3>4. held' >= passed
      BY <1>5, <3>1, <3>2, <3>3
    <3> QED BY <2>1, <3>1, <3>4 DEF Timed, Inside, Short, SleepMax
  <2>3. CASE MainAt("rated") /\ Write("subtract")
    <3>1. pc = "rated" /\ pc' = "subtract" /\ nextOn' = held
      BY <2>3 DEF MainAt, Write, Goto
    <3>2. nextOn' >= passed /\ nextOn' >= 0
      BY <1>5, <2>1, <3>1 DEF Timed
    <3> QED BY <2>1, <3>1, <3>2 DEF Timed, Inside, Short, SleepMax
  <2>4. CASE MainAt("subtract") /\ Read(Floored(nextOn - passed), "subtracted")
    <3>1. pc = "subtract" /\ pc' = "subtracted" /\ nextOn >= passed
      BY <2>1, <2>4 DEF Timed, MainAt, Read, Goto
    <3>2. held' >= 0
      BY <1>1, <1>5, <2>4, <3>1 DEF Read, Floored
    <3> QED BY <2>1, <3>1, <3>2 DEF Timed, Inside, Short, SleepMax
  <2>5. CASE MainAt("subtracted") /\ Write("dark")
    <3>1. pc = "subtracted" /\ pc' = "dark" /\ nextOn' = held
      BY <2>5 DEF MainAt, Write, Goto
    <3> QED BY <2>1, <3>1 DEF Timed, Inside, Short, SleepMax
  <2> QED BY <1>9, <2>2, <2>3, <2>4, <2>5 DEF Flash
<1>10. CASE EndFlash
  <2>1. ~disturbed /\ UNCHANGED <<nextOn, speed, passed, asked>> /\ pc = "dark" /\ pc' = "ask"
    BY <1>0, <1>10 DEF EndFlash, Keep, MainAt, Goto
  <2> QED BY <2>1 DEF Timed, Inside, Short, SleepMax
<1>11. CASE Ask
  <2>1. ~disturbed /\ nextOn' = nextOn /\ pc = "ask" /\ pc' = "poll"
    BY <1>0, <1>11 DEF Ask, Keep, MainAt, Goto
  <2>2. nextOn \in Nat
    BY <1>5, <2>1 DEF Timed
  <2>3. nextOn < StageSleep => nextOn % Word = nextOn
    BY <1>1, <2>2, SmallRemainder
  <2>4. asked' = IF nextOn < StageSleep THEN nextOn ELSE StrobeSleep
    BY <1>1, <1>11, <2>2, <2>3 DEF Ask, SleepTimes
  <2>5. asked' <= SleepMax
    BY <1>1, <1>2, <2>2, <2>4
  <2> QED BY <2>1, <2>2, <2>5 DEF Timed, Inside, SleepMax
<1>12. CASE PollNothing \/ Reset \/ ShowNoData
  <2>1. ~disturbed /\ UNCHANGED <<nextOn, asked>> /\ pc \in {"poll", "data"} /\ pc' \in {"data", "sleep"}
    BY <1>0, <1>12 DEF PollNothing, Reset, ShowNoData, Keep, MainAt, Goto, strobeVars
  <2> QED BY <2>1 DEF Timed, Inside, SleepMax
<1>13. CASE Sleep
  <2>1. ~disturbed /\ nextOn' = nextOn /\ pc = "sleep" /\ pc' = "timer" /\ asked' = 0
    BY <1>0, <1>13 DEF Sleep, Keep, MainAt, Goto
  <2>2. PICK d \in Late : passed' = asked + d
    BY <1>13 DEF Sleep
  <2>3. asked <= SleepMax
    BY <2>1 DEF Timed
  <2>4. ASSUME NEW s \in 1..Len(Rates) PROVE passed' <= Rates[s]
    <3>1. SleepMax + d <= Rates[s] /\ Rates[s] \in Nat /\ d \in Nat
      BY <1>1 DEF TurnsInTime
    <3> QED BY <1>2, <1>5, <2>2, <2>3, <3>1
  <2>5. Short(passed)'
    BY <2>4 DEF Short
  <2> QED BY <1>2, <2>1, <2>5 DEF Timed, Inside, SleepMax
<1>14. ASSUME NEW t \in Threads, TakeStep(t) PROVE Timed'
  <2> DEFINE s == Head(todo[t])
  <2>1. s \in Steps /\ UNCHANGED timerVars
    BY <1>14, StepTaken DEF TakeStep
  <2>2. ~disturbed /\ (pc \in Inside => s.do \notin {"speed", "zero"})
    BY <1>0, <1>14 DEF TakeStep
  <2>3. /\ s.do # "speed" => speed' = speed
        /\ nextOn' = IF s.do = "zero" THEN 0 ELSE nextOn
    BY <1>14 DEF TakeStep
  <2>4. CASE pc \in Inside
    BY <2>1, <2>2, <2>3, <2>4 DEF Timed, timerVars, Short, SleepMax
  <2>5. CASE pc \notin Inside
    BY <1>5, <2>1, <2>2, <2>3, <2>5 DEF Timed, timerVars, Inside, Short, SleepMax
  <2> QED BY <2>4, <2>5
<1>15. ASSUME NEW t \in Threads, NEW steps \in Commands, Command(t, steps) PROVE Timed'
  <2>1. ~disturbed /\ UNCHANGED <<nextOn, asked, passed, held, speed>>
    BY <1>0, <1>15 DEF Command, strobeVars
  <2>2. pc' = pc \/ (pc = "poll" /\ pc' = "data")
    BY <1>15 DEF Command
  <2> QED BY <2>1, <2>2 DEF Timed, Inside, Short, SleepMax
<1>16. CASE UNCHANGED vars
  BY <1>0, <1>16 DEF vars, timerVars, strobeVars, Timed, Short, SleepMax
<1> QED BY <1>6, <1>7, <1>8, <1>9, <1>10, <1>11, <1>12, <1>13, <1>14, <1>15, <1>16 DEF Next, Timer

\* If no turn of the loop takes longer than the strobe's shortest period, the loop is
\* never asked to sleep for longer than SLEEP_TIMES says, unless a command changed the
\* strobe within a turn.
THEOREM SleepsInTime == TurnsInTime /\ Floor > 0 => (Spec => []SleepSound)
<1> SUFFICES ASSUME TurnsInTime, Floor > 0 PROVE Spec => []SleepSound
  OBVIOUS
<1>1. Init => Timed
  <2> SUFFICES ASSUME Init PROVE Timed
    OBVIOUS
  <2>1. StageSleep \in Nat /\ StrobeSleep \in Nat /\ Rates \in Seq(Nat)
    BY StripsAssumption
  <2>2. SleepMax \in Nat /\ StageSleep <= SleepMax
    BY <2>1 DEF SleepMax
  <2>3. ASSUME NEW s \in 1..Len(Rates) PROVE StageSleep <= Rates[s]
    <3>1. SleepMax + 0 <= Rates[s] /\ Rates[s] \in Nat
      BY <2>1 DEF TurnsInTime
    <3> QED BY <2>1, <2>2, <3>1
  <2> QED BY <2>2, <2>3 DEF Init, Timed, Short, Inside
<1>2. Timed => SleepSound
  BY DEF Timed, SleepSound
<1>3. Timed /\ Quantities /\ Doing /\ [Next]_vars => Timed'
  BY TimedStep
<1> QED BY <1>1, <1>2, <1>3, Typed, PTL DEF Spec
==============================================================================
