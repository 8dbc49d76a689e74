------------------------------ MODULE LedStrips ------------------------------
(***************************************************************************)
(* The LED strips and their strobe: LEDArray and SK9822 (leds/), driven by *)
(* the rumble commands and the strobe timer of RpiLightsController, which  *)
(* also decides how long the program's loop sleeps.                        *)
(*                                                                         *)
(* Threads.  Commands are carried out under the engine's mutex, by main's  *)
(* loop or a button thread.  The timer is main's and takes no lock, so a   *)
(* command may fall between any two of its accesses to the speed and the   *)
(* time of the next flash (nothing is atomic or optimized: makefile:39).   *)
(*                                                                         *)
(* Data.  An LED shows a colour of the game, the strobe's, the one for "no *)
(* data", or is off; every operation ends with the strip updated.  Times   *)
(* are in ticks, of which Word stands for the 65536 ms of a uint16_t.      *)
(***************************************************************************)
EXTENDS Integers, Sequences

CONSTANTS
  Main,           \* the main thread
  Watchers,       \* the button threads
  Colours, Bits,  \* the game's colours, and the eight LEDs of a pod it names
  LastLed,        \* LED_AMOUNT
  Groups,         \* Groups[c][b]: the LED numbers of section c_GROUP_b
  StrobeMode,     \* "all" (LEDS_ALL), "auto" (LEDS_AUTO) or "list"
  StrobeList,     \* LEDS of section STROBE
  Rates,          \* STROBE_RATE_.._MS
  Stray,          \* what the bytes before m_leds_strobe_rate may hold
  StageSleep, StrobeSleep,  \* SLEEP_TIMES: STAGEKIT, STROBE
  Word,           \* 2^16
  Late,           \* how much longer than asked a turn of the loop may take
  Lights,         \* LED commands: <<colour, set of bits>>
  Floor,          \* bound of the model: a time below -Floor is counted as -Floor
  None

Threads == Watchers \cup {Main}
Leds == 1..LastLed
Speeds == 0..Len(Rates)

ASSUME StripsAssumption ==
  /\ Main \notin Watchers /\ None \notin Threads
  /\ LastLed \in Nat /\ Bits \subseteq Nat
  /\ Groups \in [Colours -> [Bits -> SUBSET Nat]]
  /\ StrobeMode \in {"all", "auto", "list"} /\ StrobeList \subseteq Nat
  /\ Rates \in Seq(Nat) /\ Stray \subseteq Nat
  /\ {StageSleep, StrobeSleep, Floor} \subseteq Nat /\ Late \subseteq Nat
  /\ Word \in Nat \ {0} /\ {StageSleep, StrobeSleep} \subseteq 0..(Word - 1)
  /\ Lights \subseteq Colours \X SUBSET Bits
  /\ Colours \cap {"strobe", "nodata", "off"} = {}

VARIABLES
  pc,        \* where main is in its turn of the loop
  todo,      \* todo[t]: the steps of the command thread t carries out
  engine,    \* the holder of the engine's mutex, or None
  speed,     \* m_leds_strobe_speed_current
  nextOn,    \* m_leds_strobe_next_on_ms
  held,      \* what main has read for a += or -= and not yet written
  passed,    \* time_passed_ms
  asked,     \* the time the loop is asked to sleep
  shown,     \* shown[l]: what LED l shows
  said,      \* history: said[c], the bits of the game's last command for colour c
  painted,   \* history: colours not commanded since "no data" was shown
  disturbed  \* history: has a command changed the strobe within a turn of the timer?

timerVars == <<pc, held, passed, asked>>
strobeVars == <<speed, nextOn>>
stripVars == <<shown, said, painted>>
vars == <<timerVars, strobeVars, stripVars, todo, engine, disturbed>>

Init ==
  /\ pc = "timer"
  /\ todo = [t \in Threads |-> <<>>] /\ engine = None
  /\ speed = 0 /\ nextOn = 0 /\ held = 0
  /\ passed = StageSleep /\ asked = 0
  /\ shown = [l \in Leds |-> "off"]
  /\ said = [c \in Colours |-> {}] /\ painted = {}
  /\ disturbed = FALSE

------------------------------------------------------------------------------
(* The strip.                                                               *)

\* (mutated: only one colour's groups are looked through)
AutoLedsOfOne ==
  LET c == CHOOSE d \in Colours : TRUE
  IN  {l \in Leds : \A b \in Bits : l \notin Groups[c][b]}

\* LEDS_AUTO: the LEDs of no group.
AutoLeds == {l \in Leds : \A c \in Colours : \A b \in Bits : l \notin Groups[c][b]}

StrobeLeds ==
  CASE StrobeMode = "all" -> Leds
    [] StrobeMode = "auto" -> AutoLeds
    [] StrobeMode = "list" -> StrobeList

\* SetColour of each of leds; numbers out of range are ignored.
SetColour(leds, colour) ==
  shown' = [l \in Leds |-> IF l \in leds THEN colour ELSE shown[l]]

\* SetLEDS goes through the eight groups; where they share an LED the last one counts.
SetLEDS(c, bits) ==
  shown' = [l \in Leds |->
    LET mine == {b \in Bits : l \in Groups[c][b]}
    IN  IF mine = {} THEN shown[l]
        ELSE IF (CHOOSE b \in mine : \A a \in mine : a <= b) \in bits THEN c ELSE "off"]

Strobe(on) == SetColour(StrobeLeds, IF on THEN "strobe" ELSE "off")

------------------------------------------------------------------------------
(* Commands.                                                                *)

Step(do, arg) == [do |-> do, arg |-> arg]

\* Handle_StrobeUpdate.
StrobeUpdate(s) ==
  <<Step("speed", s)>> \o (IF s = 0 THEN <<Step("zero", 0), Step("dark", 0)>> ELSE <<>>)

\* Stagekit_ResetVariables: of what it resets, the timer is all that is ever read.
ResetVariables == <<Step("speed", 0), Step("zero", 0)>>

AllOff == ResetVariables \o <<Step("off", 0)>> \o StrobeUpdate(0)

Commands ==
  {<<Step("lights", l)>> : l \in Lights} \cup {StrobeUpdate(s) : s \in Speeds} \cup {AllOff}

Inside == {"compare", "count", "counted", "rate", "rated", "subtract", "subtracted", "dark", "ask"}

\* Thread t takes the next step of its command.
TakeStep(t) ==
  /\ todo[t] # <<>>
  /\ todo' = [todo EXCEPT ![t] = Tail(@)]
  /\ engine' = IF engine = t /\ todo'[t] = <<>> THEN None ELSE engine
  /\ LET s == Head(todo[t])
     IN  /\ speed' = IF s.do = "speed" THEN s.arg ELSE speed
         /\ nextOn' = IF s.do = "zero" THEN 0 ELSE nextOn
         /\ disturbed' = (disturbed \/ (s.do \in {"speed", "zero"} /\ pc \in Inside))
         /\ CASE s.do = "lights" -> /\ SetLEDS(s.arg[1], s.arg[2])
                                    /\ said' = [said EXCEPT ![s.arg[1]] = s.arg[2]]
                                    /\ painted' = painted \ {s.arg[1]}
              [] s.do = "off" -> /\ SetColour(Leds, "off")
                                 /\ said' = [c \in Colours |-> {}] /\ painted' = {}
              [] s.do = "dark" -> Strobe(FALSE) /\ UNCHANGED <<said, painted>>
              [] OTHER -> UNCHANGED stripVars
  /\ UNCHANGED timerVars

\* A button's command, or one of a rumble event in main's loop.
Command(t, steps) ==
  /\ todo[t] = <<>> /\ engine = None
  /\ t = Main => pc = "poll"
  /\ pc' = IF t = Main THEN "data" ELSE pc
  /\ engine' = t
  /\ todo' = [todo EXCEPT ![t] = steps]
  /\ UNCHANGED <<held, passed, asked, strobeVars, stripVars, disturbed>>

------------------------------------------------------------------------------
(* The strobe timer: Handle_TimeUpdate.                                     *)

MainAt(label) == pc = label /\ todo[Main] = <<>>
Goto(label) == pc' = label

Floored(time) == IF time < 0 - Floor THEN 0 - Floor ELSE time

\* Read for an assignment to m_leds_strobe_next_on_ms, and write.
Read(value, label) == held' = value /\ Goto(label) /\ UNCHANGED nextOn
Write(label) == nextOn' = held /\ held' = 0 /\ Goto(label)

Keep == UNCHANGED <<todo, engine, speed, disturbed>>

\* Line 797.
Test ==
  /\ MainAt("timer")
  /\ IF speed > 0 THEN Goto("compare") /\ UNCHANGED <<asked, passed>>
     ELSE Goto("poll") /\ asked' = StageSleep /\ passed' = 0
  /\ UNCHANGED <<held, nextOn, stripVars>> /\ Keep

\* Line 800; a flash begins if its time has come.
Compare ==
  /\ MainAt("compare")
  /\ IF passed < nextOn THEN Goto("count") /\ UNCHANGED shown
     ELSE Goto("rate") /\ Strobe(TRUE)
  /\ UNCHANGED <<held, passed, asked, nextOn, said, painted>> /\ Keep

\* (mutated: the time that passed is not counted down)
CountDownNot ==
  /\ \/ MainAt("count") /\ Read(nextOn, "counted")
     \/ MainAt("counted") /\ Write("ask")
  /\ UNCHANGED <<passed, asked, stripVars>> /\ Keep

\* Line 801.
CountDown ==
  /\ \/ MainAt("count") /\ Read(Floored(nextOn - passed), "counted")
     \/ MainAt("counted") /\ Write("ask")
  /\ UNCHANGED <<passed, asked, stripVars>> /\ Keep

\* m_leds_strobe_rate[ speed - 1 ], and what lies before it.
RateNow == IF speed = 0 THEN Stray ELSE {Rates[speed]}

\* (mutated: the next flash is timed before the rate is added)
FlashUnrated ==
  /\ \/ MainAt("rate") /\ Read(nextOn, "rated")
     \/ MainAt("rated") /\ Write("subtract")
     \/ MainAt("subtract") /\ Read(Floored(nextOn - passed), "subtracted")
     \/ MainAt("subtracted") /\ Write("dark")
  /\ UNCHANGED <<passed, asked, stripVars>> /\ Keep

\* Lines 804 and 805.
Flash ==
  /\ \/ MainAt("rate") /\ \E r \in RateNow : Read(nextOn + r, "rated")
     \/ MainAt("rated") /\ Write("subtract")
     \/ MainAt("subtract") /\ Read(Floored(nextOn - passed), "subtracted")
     \/ MainAt("subtracted") /\ Write("dark")
  /\ UNCHANGED <<passed, asked, stripVars>> /\ Keep

\* (mutated: a strobe that was stopped meanwhile is left to the one who stopped it)
EndFlashIfOn ==
  /\ MainAt("dark")
  /\ IF speed > 0 THEN Strobe(FALSE) ELSE UNCHANGED shown
  /\ Goto("ask")
  /\ UNCHANGED <<held, passed, asked, nextOn, said, painted>> /\ Keep

\* Line 806.
EndFlash ==
  /\ MainAt("dark")
  /\ Strobe(FALSE)
  /\ Goto("ask")
  /\ UNCHANGED <<held, passed, asked, nextOn, said, painted>> /\ Keep

\* (mutated: the time of the next flash is not cut to 16 bits)
SleepTimesWide ==
  IF nextOn < StageSleep THEN {nextOn} ELSE {StrobeSleep}

\* Lines 810-814: a time in a uint16_t.  Below -Floor it is any.
SleepTimes ==
  IF nextOn <= 0 - Floor THEN 0..(Word - 1)
  ELSE IF nextOn < StageSleep THEN {nextOn % Word}
  ELSE {StrobeSleep}

Ask ==
  /\ MainAt("ask")
  /\ asked' \in SleepTimes
  /\ passed' = 0
  /\ Goto("poll")
  /\ UNCHANGED <<held, nextOn, stripVars>> /\ Keep

------------------------------------------------------------------------------
(* The rest of main's loop.                                                 *)

PollNothing ==
  /\ MainAt("poll") /\ Goto("data")
  /\ UNCHANGED <<held, passed, asked, nextOn, stripVars>> /\ Keep

\* Handle_SerialConnect at the end of a restart: Stagekit_ResetVariables, no lock taken.
Reset ==
  /\ MainAt("poll") /\ Goto("data")
  /\ todo' = [todo EXCEPT ![Main] = ResetVariables]
  /\ UNCHANGED <<held, passed, asked, engine, strobeVars, stripVars, disturbed>>

\* Update: the colour for "no data", when the count is up or not.
ShowNoData ==
  /\ MainAt("data") /\ Goto("sleep")
  /\ \/ SetColour(Leds, "nodata") /\ painted' = Colours /\ UNCHANGED said
     \/ UNCHANGED stripVars
  /\ UNCHANGED <<held, passed, asked, nextOn>> /\ Keep

\* SleepTimer::Sleep: the next turn begins after the time asked or, if this one took
\* longer, late.
Sleep ==
  /\ MainAt("sleep") /\ Goto("timer")
  /\ \E d \in Late : passed' = asked + d
  /\ asked' = 0
  /\ UNCHANGED <<held, nextOn, stripVars>> /\ Keep

Timer == Test \/ Compare \/ CountDown \/ Flash \/ EndFlash \/ Ask

Next ==
  \/ Timer \/ PollNothing \/ Reset \/ ShowNoData \/ Sleep
  \/ \E t \in Threads : TakeStep(t)
  \/ \E t \in Threads, steps \in Commands : Command(t, steps)

\* The loop runs, and who carries out a command gets on with it.
Fairness ==
  /\ WF_vars(Timer) /\ WF_vars(PollNothing) /\ WF_vars(ShowNoData) /\ WF_vars(Sleep)
  /\ \A t \in Threads : WF_vars(TakeStep(t))

Spec == Init /\ [][Next]_vars
FairSpec == Spec /\ Fairness

------------------------------------------------------------------------------
(* Properties.                                                              *)

TypeOK ==
  /\ pc \in Inside \cup {"timer", "poll", "data", "sleep"}
  /\ todo \in [Threads -> Seq([do : {"speed", "zero", "off", "dark"}, arg : Speeds]
                              \cup [do : {"lights"}, arg : Lights])]
  /\ engine \in Threads \cup {None}
  /\ speed \in Speeds /\ nextOn \in Int /\ held \in Int
  /\ passed \in Nat /\ asked \in 0..(Word - 1)
  /\ shown \in [Leds -> Colours \cup {"strobe", "nodata", "off"}]
  /\ said \in [Colours -> SUBSET Bits] /\ painted \subseteq Colours
  /\ disturbed \in BOOLEAN

\* The LEDs of this group only; with "list" the strobe's are taken out.
OwnLeds(c, b) ==
  {l \in Leds \cap Groups[c][b] :
     /\ StrobeMode = "auto" \/ l \notin StrobeLeds
     /\ \A d \in Colours, a \in Bits : l \in Groups[d][a] => <<d, a>> = <<c, b>>}

\* An LED of one group only, and not the strobe's, shows what the game last said of its
\* colour, through flashes, commands of several threads and changes of the strobe
\* (LEDArray.cpp:241-318); with LEDS_AUTO no LED of a group is the strobe's.
StripShows ==
  \A l \in Leds, c \in Colours \ painted, b \in Bits :
    l \in OwnLeds(c, b) => shown[l] = IF b \in said[c] THEN c ELSE "off"

\* No LED is left flashing: between two turns of the timer none shows the strobe's
\* colour, although a button may stop the strobe in the middle of a flash
\* (RpiLightsController.cpp:803-806).
StrobeEnds == pc \notin Inside => \A l \in Leds : shown[l] # "strobe"

SleepMax == IF StageSleep < StrobeSleep THEN StrobeSleep ELSE StageSleep

\* The loop is never asked to sleep for longer than SLEEP_TIMES says: if no turn takes
\* longer than a period of the strobe, the next flash is never in the past
\* (RpiLightsController.cpp:804-811), unless a button stopped the strobe within the turn.
SleepSound == ~disturbed => asked <= SleepMax

\* Without a late turn nothing comes later than a period: even the slowest turn is
\* shorter than the fastest strobe's.
TurnsInTime == \A s \in 1..Len(Rates), d \in Late \cup {0} : SleepMax + d <= Rates[s]

\* The same of any turn (lights.ini:134).  It fails when one takes longer than a
\* period: the time of the next flash is negative, and a uint16_t makes a minute of it.
SleepBounded == asked <= SleepMax

\* A strobe that stays on flashes again and again, at whatever speeds.
StrobeFlashes == (<>[](speed > 0)) => []<>(\E l \in Leds : shown[l] = "strobe")
==============================================================================
