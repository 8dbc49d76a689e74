----------------------------- MODULE EventEngine -----------------------------
(***************************************************************************)
(* The DMXified event engine (dmxified/engine/EventEngine.cpp): it takes   *)
(* the rumble events of the game from the main loop and the press and      *)
(* release events of the FileExistsInputWatcher threads, decides by        *)
(* priority which configured outputs are overridden, drives the others,    *)
(* keeps the override list, and turns a long quiet spell into the internal *)
(* events IDLE_ON and IDLE_OFF.                                            *)
(*                                                                         *)
(* Threads.  Main is the program's loop (RpiLightsController::Update); one *)
(* watcher per button polls a file.  doHandleInputEvent runs under one     *)
(* mutex, so each call is one atomic step taken by the thread inside; the  *)
(* queued internal event is a second step of the same critical section.    *)
(* The one unlocked access to shared data is handleTimeUpdate's            *)
(* time_passed_ms += ..., which is therefore a read and a write.           *)
(*                                                                         *)
(* Data.  An output is a slot (its type and subtype, all an override can   *)
(* name) with the rumble command its <value> asks for; the mapping file is *)
(* the constants.  SK_LED_RED stands for the four colours and              *)
(* SK_STROBE_SPEED_1 for the four speeds.  Time is counted in ticks.       *)
(***************************************************************************)
EXTENDS Naturals, Sequences, FiniteSets

CONSTANTS
  Main,           \* the main thread
  Buttons,        \* fileExistsInput ids with a file: one watcher thread each
  OffOf,          \* OffOf[b]: the id b + "Off"
  Inputs,         \* the ids the mapping file has an <input> for
  GameEvents,     \* rumble events the main loop may receive, mapped or not
  Slots,          \* the type/subtype pairs of the mapping's outputs
  StageKitSlots,  \* those of type stageKitOutput
  Priority,       \* Priority[i]: the priority of input i
  Outputs,        \* Outputs[i]: sequence of [slot, value]
  Overrides,      \* Overrides[i]: slots of i's <outputOverrideList>
  Bad,            \* a <value> the engine cannot convert
  IdleTime,       \* m_idletime_ms in ticks; 0 disables idle detection
  ClockCap        \* bound of the model: time is counted up to here

SK_NONE == "SK_NONE"
Threads == Buttons \cup {Main}
Prios == {Priority[i] : i \in Inputs}
IdleEvents == {"SK_FOG_OFF", "SERIAL_RESTART", "IDLE_ON", "IDLE_OFF"}

ASSUME ThreadsAssumption ==
  /\ Main \notin Buttons
  /\ Buttons \subseteq Inputs
  /\ \A b, c \in Buttons : OffOf[b] = OffOf[c] => b = c
  /\ \A b, c \in Buttons : OffOf[b] # c
  /\ \A b \in Buttons : {b, OffOf[b]} \cap (GameEvents \cup IdleEvents \cup {SK_NONE}) = {}

ASSUME MappingAssumption ==
  /\ "SK_FOG_OFF" \in GameEvents
  /\ StageKitSlots \subseteq Slots
  /\ Priority \in [Inputs -> Nat]
  /\ Overrides \in [Inputs -> SUBSET Slots]
  /\ \A i \in Inputs :
       /\ Len(Outputs[i]) \in Nat
       /\ DOMAIN Outputs[i] = 1..Len(Outputs[i])
       /\ \A k \in DOMAIN Outputs[i] : Outputs[i][k].slot \in Slots

ASSUME ClockAssumption ==
  /\ IdleTime \in Nat
  /\ ClockCap \in Nat
  /\ IdleTime > 0 => ClockCap > IdleTime

VARIABLES
  pc,           \* pc[t]: where thread t is
  file,         \* file[b]: does button b's file exist?
  known,        \* known[b]: the watcher's previousExistence
  event,        \* the rumble event main is about to have handled
  addend,       \* time_passed_ms as main's += has read it
  lastInputId,
  queuedEvent,  \* the one-slot queue of internal events
  timePassed,   \* time_passed_ms
  idleCount,    \* m_idletime_ms_count
  idleCleared,  \* m_idle_status_cleared
  overrides,    \* outputOverrideList as a bag: overrides[s][p] entries
  lit, strobe, fog,  \* what the controller was last told: LEDs, strobe, fog
  dmx,          \* the input that last drove the QLC+ widgets
  quiet         \* history: ticks since a non-idle event was handled

threadVars == <<file, known, event, addend>>
clockVars == <<timePassed, idleCount, idleCleared>>
lampVars == <<lit, strobe, fog, dmx>>
vars == <<pc, threadVars, lastInputId, queuedEvent, clockVars, overrides,
          lampVars, quiet>>

\* Holding the engine's mutex: "drain" is at processQueuedEvent, "unlock" is
\* past it (an exception goes there directly).
Inside == {"drain", "unlock"}
EngineFree == \A t \in Threads : pc[t] \notin Inside

Goto(t, label) == pc' = [pc EXCEPT ![t] = label]

Init ==
  /\ pc = [t \in Threads |-> IF t = Main THEN "time" ELSE "poll"]
  /\ file \in [Buttons -> BOOLEAN]
  /\ known = [b \in Buttons |-> FALSE]
  /\ event = SK_NONE
  /\ addend = 0
  /\ lastInputId = "SK_ALL_OFF"
  /\ queuedEvent = SK_NONE
  /\ timePassed = 0
  /\ idleCount = 0
  /\ idleCleared = TRUE
  /\ overrides = [s \in Slots |-> [p \in Prios |-> 0]]
  /\ lit = FALSE /\ strobe = FALSE /\ fog = FALSE
  /\ dmx = SK_NONE
  /\ quiet = 0

------------------------------------------------------------------------------
(* Handling one event.  raw: the event carries a right_weight, which then is *)
(* the command whatever <value> says.                                       *)

IsIdle(id) == id \in IdleEvents

IsNegation(id) == \E b \in Buttons : id = OffOf[b]
Negated(id) == CHOOSE b \in Buttons : id = OffOf[b]
OverrideListOf(id) == IF IsNegation(id) THEN Overrides[Negated(id)] ELSE Overrides[id]

\* (mutated: the comparison of the priorities swapped)
IsOverriddenSwapped(s, p) == \E q \in Prios : q < p /\ overrides[s][q] > 0

IsOverridden(s, p) == \E q \in Prios : q > p /\ overrides[s][q] > 0

\* (mutated: outputs are not checked against the override list)
OutputsUnchecked(id) == DOMAIN Outputs[id]

OutputsToProcess(id) ==
  {k \in DOMAIN Outputs[id] : ~IsOverridden(Outputs[id][k].slot, Priority[id])}

IsStageKit(id, k) == Outputs[id][k].slot \in StageKitSlots

\* stageKitOutputSubtypeToSkRumbleData throws on a value it cannot convert.
Throws(id, raw, k) == ~raw /\ IsStageKit(id, k) /\ Outputs[id][k].value = Bad

\* The outputs reached before the first that throws.
Processed(id, raw) ==
  {k \in OutputsToProcess(id) :
     \A j \in OutputsToProcess(id) : j <= k => ~Throws(id, raw, j)}

Failed(id, raw) == Processed(id, raw) # OutputsToProcess(id)

\* The rumble command output k passes to Do_Handle_RumbleData.
Command(id, raw, k) ==
  IF ~IsStageKit(id, k) THEN SK_NONE ELSE IF raw THEN id ELSE Outputs[id][k].value

\* A lamp that commands in on switch on and those in off switch off; the last
\* one sent wins.  A lamp no command names keeps its state.
Lamp(was, on, off, id, raw) ==
  LET naming == {k \in Processed(id, raw) : Command(id, raw, k) \in on \cup off}
  IN  IF naming = {} THEN was
      ELSE \E k \in naming : Command(id, raw, k) \in on /\ \A j \in naming : j <= k

DriveLamps(id, raw) ==
  /\ lit' = Lamp(lit, {"SK_LED_RED"}, {"SK_ALL_OFF"}, id, raw)
  /\ strobe' = Lamp(strobe, {"SK_STROBE_SPEED_1"}, {"SK_STROBE_OFF", "SK_ALL_OFF"}, id, raw)
  /\ fog' = Lamp(fog, {"SK_FOG_ON"}, {"SK_FOG_OFF", "SK_ALL_OFF"}, id, raw)
  /\ dmx' = IF \E k \in Processed(id, raw) : ~IsStageKit(id, k) THEN id ELSE dmx

\* (mutated: a negation clears only the entries of its own priority)
ClearOwnPriority(id, raw) ==
  LET rounds == Cardinality(Processed(id, raw))
  IN  overrides' = [s \in Slots |-> [p \in Prios |->
        IF s \notin OverrideListOf(id) \/ rounds = 0 \/ p # Priority[id] THEN overrides[s][p]
        ELSE IF IsNegation(id) THEN 0 ELSE overrides[s][p] + rounds]]

\* (mutated: a negation erases one entry instead of all that remove_if moved)
ClearOneEntry(id, raw) ==
  LET rounds == Cardinality(Processed(id, raw))
  IN  overrides' = [s \in Slots |-> [p \in Prios |->
        IF s \notin OverrideListOf(id) \/ rounds = 0 THEN overrides[s][p]
        ELSE IF IsNegation(id) THEN IF overrides[s][p] = 0 THEN 0 ELSE overrides[s][p] - 1
        ELSE overrides[s][p] + IF p = Priority[id] THEN rounds ELSE 0]]

\* Once per processed output, every override of the list is pushed again, or,
\* for a negation, every entry of the slot is removed whatever its priority.
UpdateOverrides(id, raw) ==
  LET rounds == Cardinality(Processed(id, raw))
  IN  overrides' = [s \in Slots |-> [p \in Prios |->
        IF s \notin OverrideListOf(id) \/ rounds = 0 THEN overrides[s][p]
        ELSE IF IsNegation(id) THEN 0
        ELSE overrides[s][p] + IF p = Priority[id] THEN rounds ELSE 0]]

\* The time counted since the last non-idle event is more than the limit.
IdleTimeout == idleCleared /\ IdleTime > 0 /\ idleCount + timePassed > IdleTime

\* (mutated: the status stays "cleared" when IDLE_ON is queued)
IdleClockStatusKept(id, left) ==
  IF IsIdle(id)
  THEN /\ IF idleCleared /\ IdleTime > 0
          THEN idleCount' = idleCount + timePassed /\ timePassed' = 0
          ELSE UNCHANGED <<idleCount, timePassed>>
       /\ queuedEvent' = IF IdleTimeout THEN "IDLE_ON" ELSE left
       /\ UNCHANGED <<idleCleared, quiet>>
  ELSE /\ timePassed' = 0 /\ idleCount' = 0 /\ idleCleared' = TRUE
       /\ queuedEvent' = IF idleCleared THEN left ELSE "IDLE_OFF"
       /\ quiet' = 0

\* (mutated: a non-idle event does not restart the count)
IdleClockNotRestarted(id, left) ==
  IF IsIdle(id)
  THEN /\ IF idleCleared /\ IdleTime > 0
          THEN idleCount' = idleCount + timePassed /\ timePassed' = 0
          ELSE UNCHANGED <<idleCount, timePassed>>
       /\ idleCleared' = (idleCleared /\ ~IdleTimeout)
       /\ queuedEvent' = IF IdleTimeout THEN "IDLE_ON" ELSE left
       /\ UNCHANGED quiet
  ELSE /\ timePassed' = 0 /\ idleCleared' = TRUE
       /\ queuedEvent' = IF idleCleared THEN left ELSE "IDLE_OFF"
       /\ quiet' = 0
       /\ UNCHANGED idleCount

\* (mutated: the interval is assigned to the count, not added to it)
IdleClockAssigned(id, left) ==
  IF IsIdle(id)
  THEN /\ IF idleCleared /\ IdleTime > 0
          THEN idleCount' = timePassed /\ timePassed' = 0
          ELSE UNCHANGED <<idleCount, timePassed>>
       /\ idleCleared' = (idleCleared /\ ~IdleTimeout)
       /\ queuedEvent' = IF IdleTimeout THEN "IDLE_ON" ELSE left
       /\ UNCHANGED quiet
  ELSE /\ timePassed' = 0 /\ idleCount' = 0 /\ idleCleared' = TRUE
       /\ queuedEvent' = IF idleCleared THEN left ELSE "IDLE_OFF"
       /\ quiet' = 0

\* An idle event counts the time towards IDLE_ON, any other restarts the count and
\* ends an idle spell.  left is what the queue holds on entry.
IdleClock(id, left) ==
  IF IsIdle(id)
  THEN /\ IF idleCleared /\ IdleTime > 0
          THEN idleCount' = idleCount + timePassed /\ timePassed' = 0
          ELSE UNCHANGED <<idleCount, timePassed>>
       /\ idleCleared' = (idleCleared /\ ~IdleTimeout)
       /\ queuedEvent' = IF IdleTimeout THEN "IDLE_ON" ELSE left
       /\ UNCHANGED quiet
  ELSE /\ timePassed' = 0 /\ idleCount' = 0 /\ idleCleared' = TRUE
       /\ queuedEvent' = IF idleCleared THEN left ELSE "IDLE_OFF"
       /\ quiet' = 0

\* (mutated: after an idle event every idle event is spam)
IsSpamAnyIdle(id) == IsIdle(id) /\ IsIdle(lastInputId)

IsSpam(id) ==
  IsIdle(id) /\ IsIdle(lastInputId) /\ (id = lastInputId \/ id = "SK_FOG_OFF")

\* (mutated: an unmapped event is remembered as the last one)
RejectRemembered(t, id, left) ==
  /\ id \notin Inputs
  /\ queuedEvent' = left
  /\ Goto(t, "unlock")
  /\ lastInputId' = id
  /\ UNCHANGED <<clockVars, overrides, lampVars, quiet>>

\* doHandleInputEvent for an id the mapping lacks: getInputById throws.
RejectUnmapped(t, id, left) ==
  /\ id \notin Inputs
  /\ queuedEvent' = left
  /\ Goto(t, "unlock")
  /\ UNCHANGED <<lastInputId, clockVars, overrides, lampVars, quiet>>

\* (mutated: returns without processQueuedEvent)
IgnoreSpamUndrained(t, id, left) ==
  /\ id \in Inputs
  /\ IsSpam(id)
  /\ IdleClock(id, left)
  /\ lastInputId' = id
  /\ Goto(t, "unlock")
  /\ UNCHANGED <<overrides, lampVars>>

IgnoreSpam(t, id, left) ==
  /\ id \in Inputs
  /\ IsSpam(id)
  /\ IdleClock(id, left)
  /\ lastInputId' = id
  /\ Goto(t, "drain")
  /\ UNCHANGED <<overrides, lampVars>>

ProcessOutputs(t, id, raw, left) ==
  /\ id \in Inputs
  /\ ~IsSpam(id)
  /\ IdleClock(id, left)
  /\ DriveLamps(id, raw)
  /\ UpdateOverrides(id, raw)
  /\ IF Failed(id, raw)
     THEN Goto(t, "unlock") /\ UNCHANGED lastInputId
     ELSE Goto(t, "drain") /\ lastInputId' = id

DoHandleInputEvent(t, id, raw, left) ==
  \/ RejectUnmapped(t, id, left)
  \/ IgnoreSpam(t, id, left)
  \/ ProcessOutputs(t, id, raw, left)

------------------------------------------------------------------------------
(* The threads.                                                             *)

\* The event thread t has taken to the engine; only main's carries a weight.
Pending(t) ==
  IF t = Main THEN event ELSE IF known[t] THEN OffOf[t] ELSE t

\* handleInputEvent: get the mutex and handle the event.
HandleInputEvent(t) ==
  /\ pc[t] = "wait"
  /\ EngineFree
  /\ DoHandleInputEvent(t, Pending(t), t = Main, queuedEvent)
  /\ UNCHANGED threadVars

\* processQueuedEvent with an event in the queue; its weight is the event.
ProcessQueuedEvent(t) ==
  /\ pc[t] = "drain"
  /\ queuedEvent # SK_NONE
  /\ DoHandleInputEvent(t, queuedEvent, TRUE, SK_NONE)
  /\ UNCHANGED threadVars

\* handleInputEvent returns; a watcher then sets previousExistence.
Return(t) ==
  /\ pc[t] = "unlock" \/ (pc[t] = "drain" /\ queuedEvent = SK_NONE)
  /\ IF t = Main
     THEN Goto(t, "time") /\ event' = SK_NONE /\ UNCHANGED known
     ELSE Goto(t, "poll") /\ known' = [known EXCEPT ![t] = ~@] /\ UNCHANGED event
  /\ UNCHANGED <<file, addend, lastInputId, queuedEvent, clockVars, overrides,
                 lampVars, quiet>>

\* (mutated: only a file that appears is noticed)
WatchCreation(b) ==
  /\ pc[b] = "poll"
  /\ file[b] /\ ~known[b]
  /\ Goto(b, "wait")
  /\ UNCHANGED <<threadVars, lastInputId, queuedEvent, clockVars, overrides,
                 lampVars, quiet>>

\* watchFile sees that the file came or went.
WatchFile(b) ==
  /\ pc[b] = "poll"
  /\ file[b] # known[b]
  /\ Goto(b, "wait")
  /\ UNCHANGED <<threadVars, lastInputId, queuedEvent, clockVars, overrides,
                 lampVars, quiet>>

\* Someone presses the button: a script creates or deletes its file.
ToggleFile(b) ==
  /\ file' = [file EXCEPT ![b] = ~@]
  /\ UNCHANGED <<pc, known, event, addend, lastInputId, queuedEvent, clockVars,
                 overrides, lampVars, quiet>>

\* handleTimeUpdate, without the mutex: time_passed_ms is read ...
ReadTimePassed ==
  /\ pc[Main] = "time"
  /\ addend' = timePassed
  /\ quiet' = IF quiet < ClockCap THEN quiet + 1 ELSE ClockCap
  /\ Goto(Main, "add")
  /\ UNCHANGED <<file, known, event, lastInputId, queuedEvent, clockVars,
                 overrides, lampVars>>

\* ... and written back a tick longer.
WriteTimePassed ==
  /\ pc[Main] = "add"
  /\ timePassed' = IF addend < ClockCap THEN addend + 1 ELSE ClockCap
  /\ addend' = 0
  /\ Goto(Main, "poll")
  /\ UNCHANGED <<file, known, event, lastInputId, queuedEvent, idleCount,
                 idleCleared, overrides, lampVars, quiet>>

\* The loop polls its inputs: a rumble event, or nothing this time.
PollEvent(e) ==
  /\ pc[Main] = "poll"
  /\ event' = e
  /\ Goto(Main, "wait")
  /\ UNCHANGED <<file, known, addend, lastInputId, queuedEvent, clockVars,
                 overrides, lampVars, quiet>>

PollNothing ==
  /\ pc[Main] = "poll"
  /\ Goto(Main, "time")
  /\ UNCHANGED <<threadVars, lastInputId, queuedEvent, clockVars, overrides,
                 lampVars, quiet>>

Next ==
  \/ \E t \in Threads : HandleInputEvent(t) \/ ProcessQueuedEvent(t) \/ Return(t)
  \/ \E b \in Buttons : WatchFile(b) \/ ToggleFile(b)
  \/ ReadTimePassed \/ WriteTimePassed
  \/ \E e \in GameEvents : PollEvent(e)
  \/ PollNothing

\* Every thread keeps running, the mutex is granted to each thread that keeps
\* asking for it (the holders leave it and sleep), and the console keeps sending
\* SK_FOG_OFF when nothing else happens.
Fairness ==
  /\ \A t \in Threads : SF_vars(HandleInputEvent(t))
  /\ \A t \in Threads : WF_vars(ProcessQueuedEvent(t)) /\ WF_vars(Return(t))
  /\ \A b \in Buttons : WF_vars(WatchFile(b))
  /\ WF_vars(ReadTimePassed) /\ WF_vars(WriteTimePassed)
  /\ SF_vars(PollEvent("SK_FOG_OFF"))

Spec == Init /\ [][Next]_vars
FairSpec == Spec /\ Fairness

------------------------------------------------------------------------------
(* Properties.                                                              *)

TypeOK ==
  /\ pc \in [Threads -> {"time", "add", "poll", "wait"} \cup Inside]
  /\ file \in [Buttons -> BOOLEAN]
  /\ known \in [Buttons -> BOOLEAN]
  /\ event \in GameEvents \cup {SK_NONE}
  /\ addend \in 0..ClockCap
  /\ lastInputId \in Inputs \cup {"SK_ALL_OFF"}
  /\ queuedEvent \in {SK_NONE, "IDLE_ON", "IDLE_OFF"}
  /\ timePassed \in 0..ClockCap
  /\ idleCount \in Nat
  /\ idleCleared \in BOOLEAN
  /\ overrides \in [Slots -> [Prios -> Nat]]
  /\ lit \in BOOLEAN /\ strobe \in BOOLEAN /\ fog \in BOOLEAN
  /\ dmx \in Inputs \cup {SK_NONE}
  /\ quiet \in 0..ClockCap

\* Has the engine last handled a press, not a release, of button b?
Held(b) == known[b] # (pc[b] \in Inside)

Overriding(b, s) == Held(b) /\ s \in Overrides[b]

\* What a mapping must be for overrides to nest: a button that can block
\* another's release overrides all the other does; a release does something, and
\* nothing it does can fail.
ReleaseSlots(b) == {Outputs[OffOf[b]][k].slot : k \in DOMAIN Outputs[OffOf[b]]}

WellNested ==
  \A b \in Buttons :
    /\ OffOf[b] \in Inputs
    /\ Priority[OffOf[b]] = Priority[b]
    /\ DOMAIN Outputs[OffOf[b]] # {}
    /\ \A k \in DOMAIN Outputs[OffOf[b]] : ~Throws(OffOf[b], FALSE, k)
    /\ \A c \in Buttons :
         Priority[c] > Priority[b] /\ Overrides[c] \cap ReleaseSlots(b) # {}
         => Overrides[b] \subseteq Overrides[c]

OnlyButtonsOverride == \A i \in Inputs \ Buttons : Overrides[i] = {}

\* Every entry of the override list is owed to a button that is held and has at
\* least its priority.  Releases that are themselves overridden leave entries
\* behind (EventEngine.cpp:221-247); a later release of the overriding button
\* must take them with it, or an output stays dark with no button held.
NoStaleOverride ==
  \A s \in Slots : \A p \in Prios :
    overrides[s][p] > 0 =>
      \E b \in Buttons : Overriding(b, s) /\ Priority[b] >= p

\* A button nobody outranks: any other either overrides nothing in common with
\* it, or is weaker and can release nothing while this one is held.
Supremes ==
  {b \in Buttons :
     /\ DOMAIN Outputs[b] # {}
     /\ \A k \in DOMAIN Outputs[b] : ~Throws(b, FALSE, k)
     /\ \A c \in Buttons \ {b} :
          /\ Overrides[c] \cap Overrides[b] = {}
             \/ (Priority[c] < Priority[b] /\ ReleaseSlots(c) \subseteq Overrides[b])
          /\ Outputs[b][1].slot \notin Overrides[c] \/ Priority[c] <= Priority[b]}

\* As long as such a button is held all its overrides stand, whatever the others
\* do: a release removes the entries of its slots whatever their priority
\* (PrioritizedOutputOverride.cpp:21-23), so this needs the blocking to work.
SupremeHolds ==
  \A b \in Supremes : Held(b) =>
    \A s \in Overrides[b] : \E p \in Prios : p >= Priority[b] /\ overrides[s][p] > 0

\* While a supreme button that overrides the widgets is held, only inputs of at
\* least its priority reach QLC+, the engine's own IDLE_ON and IDLE_OFF included.
RulesWidgets(b) ==
  Held(b) /\ Slots \ StageKitSlots \subseteq Overrides[b]
  => dmx' = dmx \/ Priority[dmx'] >= Priority[b]

SupremeRulesWidgets == [][\A b \in Supremes : RulesWidgets(b)]_vars

\* The same of every held button: what dmxified/README.md:231-236 says an
\* <outputOverrideList> does.  It fails: see the run scenes_any_button.
HeldRulesWidgets == [][\A b \in Buttons : RulesWidgets(b)]_vars

\* Two buttons do not meddle with each other, or the list of the stronger takes
\* in all the weaker overrides and outputs to, pressed or released.
PressSlots(b) == {Outputs[b][k].slot : k \in DOMAIN Outputs[b]}

Chained ==
  \A b, c \in Buttons :
    b # c /\ Priority[b] <= Priority[c] =>
      \/ Overrides[c] \cap (Overrides[b] \cup PressSlots(b) \cup ReleaseSlots(b)) = {}
      \/ /\ Priority[b] < Priority[c]
         /\ Overrides[b] \cup PressSlots(b) \cup ReleaseSlots(b) \subseteq Overrides[c]

\* The override list does not grow with use: a slot holds at most one press's
\* worth of entries of each button, however often the buttons are pressed, in
\* whatever order (EventEngine.cpp:296-304 pushes them once per output).
OverridesBounded ==
  \A s \in Slots : \A p \in Prios :
    \/ overrides[s][p] = 0
    \/ \E b \in Buttons : Priority[b] = p /\ overrides[s][p] <= Len(Outputs[b])

\* The queue holds IDLE_ON only in an idle spell and IDLE_OFF only outside one:
\* the single slot (EventEngine.cpp:320-322) never announces the wrong change.
QueueAgrees ==
  /\ queuedEvent = "IDLE_ON" => ~idleCleared
  /\ queuedEvent = "IDLE_OFF" => idleCleared

\* No <value> of the mapping is one the engine cannot convert.
NothingThrows == \A i \in Inputs : \A k \in DOMAIN Outputs[i] : ~Throws(i, FALSE, k)

\* No queued event outlives the call that queued it (EventEngine.cpp:311): an
\* IDLE_OFF left behind would put the idle scene out at some later event.
QueueDrained == EngineFree => queuedEvent = SK_NONE

\* What a mapping must be for the widgets to show idle spells: IDLE_ON and
\* IDLE_OFF reach them and are the engine's alone (StageKitConsts.h:82-83), all
\* widgets are overridden together, and a button that bars IDLE_OFF from them, or
\* fails, has driven them itself first.
WidgetSlots == Slots \ StageKitSlots

ShowsIdle ==
  /\ {"IDLE_ON", "IDLE_OFF"} \subseteq Inputs \ GameEvents
  /\ \A i \in {"IDLE_ON", "IDLE_OFF"} : \E k \in DOMAIN Outputs[i] : ~IsStageKit(i, k)
  /\ Priority["IDLE_OFF"] >= Priority["IDLE_ON"]
  /\ \A b \in Buttons : WidgetSlots \subseteq Overrides[b] \/ WidgetSlots \cap Overrides[b] = {}
  /\ \A b \in Buttons :
       \/ /\ Priority[b] <= Priority["IDLE_ON"] \/ WidgetSlots \cap Overrides[b] = {}
          /\ \A k \in DOMAIN Outputs[b] : ~Throws(b, FALSE, k)
       \/ /\ Priority[b] >= Priority["IDLE_ON"]
          /\ \E k \in DOMAIN Outputs[b] :
               ~IsStageKit(b, k) /\ \A j \in 1..k : ~Throws(b, FALSE, j)

\* The idle scene of the QLC+ widgets is gone whenever the room is not idle, and
\* shows in an idle spell unless a held button or a serial restart replaced it.
IdleSceneAgrees ==
  EngineFree =>
    /\ idleCleared => dmx # "IDLE_ON"
    /\ ~idleCleared => \/ dmx \in {"IDLE_ON", "SERIAL_RESTART"}
                       \/ \E b \in Buttons : Held(b) /\ Overrides[b] \ StageKitSlots # {}

\* An internal event the queue still holds after a failed call is handled in the
\* end, by whichever later call does not fail (EventEngine.cpp:313-317).
QueueClears == []<>(EngineFree /\ queuedEvent = SK_NONE)

\* Idle detection as IdleMonitor promises it: never before IdleTime has passed
\* since the last non-idle event, and over with the next one.
IM == INSTANCE IdleMonitor
        WITH Limit <- IdleTime, Cap <- ClockCap, idle <- ~idleCleared, quiet <- quiet

IdleRefined == IM!Spec

\* Why: the time counted so far, in both counters and in main's hands, has passed
\* since the last non-idle event.
IdleCountSound ==
  /\ pc[Main] = "add" => addend = timePassed
  /\ \/ quiet = ClockCap
     \/ idleCount + timePassed + (IF pc[Main] = "add" THEN 1 ELSE 0) <= quiet

\* A room nobody uses goes idle in the end, and stays so (lights.ini:108-110).
GoesIdle == (<>[](quiet > 0)) => (<>[](~idleCleared))

\* A file that stays is noticed in the end, and so is one that stays away: its
\* watcher is starved neither by the main loop nor by the other watchers.
FileNoticed ==
  \A b \in Buttons :
    /\ (<>[]file[b]) => (<>[]Held(b))
    /\ (<>[](~file[b])) => (<>[](~Held(b)))
==============================================================================
