------------------------------ MODULE StageKits ------------------------------
(***************************************************************************)
(* The stage kit pods: StageKitManager's table of USB connections, the     *)
(* configuration of each, the fog limits, and the reports that reach the   *)
(* pods (stagekit/StageKitManager.cpp, stagekit/USB_360StageKit.cpp), with *)
(* the part of RpiLightsController that calls them: connect, restart, time *)
(* updates, rumble commands and the Xbox button on a pod.                  *)
(*                                                                         *)
(* A call is a sequence of steps its thread works off: a report is filled  *)
(* in m_report_out, then transferred; nothing locks either.  Commands of   *)
(* rumble events are taken under the engine's mutex, all else is main's    *)
(* and takes no lock.  A step reads what the code reads when it reaches it.*)
(*                                                                         *)
(* Data.  The pod's lamps are LEDs (one colour), strobe (one speed) and    *)
(* fog.  A pod that is plugged in takes every report.  Time is counted in  *)
(* ticks: one Update of the main loop.                                     *)
(***************************************************************************)
EXTENDS Integers, Sequences, SequencesExt

CONSTANTS
  Main,          \* the main thread
  Watchers,      \* the button threads
  Pods,          \* the pods one can plug in
  MaxKits,       \* MAX_STAGEKITS_IN_EXISTENCE
  LastConfig,    \* configurations are 0..LastConfig, 0 is "off"
  Enabled,       \* Enabled[lamp]: the configurations that enable it
  InstanceMax,   \* InstanceMax[c]: m_fog_instance_time_max_ms, 0 for none
  TotalMax,      \* TotalMax[c]: m_fog_total_time_max_ms, 0 for none
  DefaultConfig, \* DEFAULT_CONFIG
  Senders,       \* may [NETWORK] be disabled, enabled, or both?
  Commands,      \* rumble commands that may arrive
  SongGap,       \* quiet ticks taken for a change of song
  NoDataLimit,   \* m_nodata_ms in ticks; 0 disables the count
  Garbage,       \* what the two fog times may hold before they are first set
  TimeCap,       \* bound of the model: the two fog times are counted up to here
  FogCap,        \* bound of the model: fogFor is counted up to here
  None,          \* no handle
  Gone,          \* a handle whose pod was unplugged or whose context has ended
  NoConfig       \* m_ptr_stagekit_config is NULL

Threads == Watchers \cup {Main}
Kits == 0..(MaxKits - 1)
Lamps == {"leds", "strobe", "fog"}
Configs == 0..LastConfig

ASSUME KitsAssumption ==
  /\ Main \notin Watchers /\ IsFiniteSet(Pods)
  /\ MaxKits \in Nat \ {0}
  /\ LastConfig \in Nat \ {0}
  /\ DefaultConfig \in Configs
  /\ Senders \subseteq BOOLEAN
  /\ Enabled \in [Lamps -> SUBSET (1..LastConfig)]
  /\ InstanceMax \in [Configs -> Nat] /\ InstanceMax[0] = 0
  /\ TotalMax \in [Configs -> Nat] /\ TotalMax[0] = 0
  /\ Garbage \subseteq Int
  /\ {SongGap, NoDataLimit, TimeCap, FogCap} \subseteq Nat
  /\ \A c \in Configs : InstanceMax[c] <= TimeCap /\ TotalMax[c] <= TimeCap
  /\ None # Gone /\ {None, Gone} \cap Pods = {}
  /\ NoConfig \notin Configs

VARIABLES
  at,           \* where main's loop is
  todo,         \* todo[t]: the steps thread t has still to take
  filled,       \* filled[t]: has t filled the report it is about to send?
  engine,       \* the holder of the engine's mutex, or None
  context,      \* is m_usb_context set?
  amount,       \* m_amount_of_stagekits
  handle,       \* handle[k]: m_ptr_usb_device_handle
  config,       \* config[k]: the configuration, by its number
  report,       \* report[k]: m_report_out, the command in it
  fogOn,        \* m_fog_current_state_is_on
  justOff,      \* m_fog_just_changed_to_off
  instanceTime, \* m_fog_instance_time_current
  totalTime,    \* m_fog_total_time_current
  noData,       \* m_nodata_ms_count
  plugged,      \* pods on the USB line
  lamps,        \* lamps[p]: the lamps of pod p that are on
  fogFor,       \* history: fogFor[p] ticks p has produced fog, without a break
                \* and with no change of configuration
  sender        \* is [NETWORK] enabled?  (it never changes)

clockVars == <<fogOn, justOff, instanceTime, totalTime, noData>>
kitVars == <<context, amount, handle, config>>
podVars == <<plugged, lamps, fogFor>>
vars == <<at, todo, filled, engine, kitVars, report, clockVars, podVars, sender>>

NoReport == [lamp |-> "none", on |-> FALSE]

Init ==
  /\ at = "start"
  /\ todo = [t \in Threads |-> <<>>]
  /\ filled = [t \in Threads |-> FALSE]
  /\ engine = None
  /\ context = FALSE /\ amount = 0
  /\ handle = [k \in Kits |-> None]
  /\ config = [k \in Kits |-> NoConfig]
  /\ report = [k \in Kits |-> NoReport]
  /\ fogOn = FALSE /\ justOff = FALSE
  /\ instanceTime \in Garbage /\ totalTime \in Garbage
  /\ noData = 0
  /\ plugged \in SUBSET Pods
  /\ lamps = [p \in Pods |-> {}]
  /\ fogFor = [p \in Pods |-> 0]
  /\ sender \in Senders

Later(time, cap) == IF time < cap THEN time + 1 ELSE cap

------------------------------------------------------------------------------
(* The steps of the calls.                                                  *)

Step(do, k, lamp, on) == [do |-> do, kit |-> k, lamp |-> lamp, on |-> on]
Just(do) == Step(do, 0, "none", FALSE)

\* One of the manager's loops over the connected kits.
Loop(lamp, on) == [i \in 1..MaxKits |-> Step("loop", i - 1, lamp, on)]

\* Do_Handle_RumbleData, and the controller's Handle_..Update it calls.
Calls(command) ==
  CASE command = "SK_LED_RED" -> Loop("leds", TRUE)
    [] command = "SK_STROBE_SPEED_1" -> Loop("strobe", TRUE)
    [] command = "SK_STROBE_OFF" -> Loop("strobe", FALSE)
    [] command = "SK_FOG_ON" -> Loop("fog", TRUE)
    [] command = "SK_FOG_OFF" -> Loop("fog", FALSE)
    [] command = "SK_ALL_OFF" -> Loop("leds", FALSE) \o Loop("strobe", FALSE) \o Loop("fog", FALSE)
    [] OTHER -> <<>>

\* n times the four steps of a call, for kit 0, kit 1, ...
ForKits(n, call) == [i \in 1..(4 * n) |-> call[(i - 1) \div 4][((i - 1) % 4) + 1]]

\* SetConfigIDForStageKit(k, c): all that c does not enable is switched off, then the
\* status LEDs show c.
SetConfigSteps(k, c) ==
  <<Step("disable", k, "leds", FALSE), Step("disable", k, "strobe", FALSE),
    Step("disable", k, "fog", FALSE), Step("set", k, "status", c # 0)>>

\* USB_360StageKit::End of kit k.
EndKit(k) ==
  <<Step("set", k, "fog", FALSE), Step("set", k, "strobe", FALSE),
    Step("set", k, "leds", FALSE), Step("close", k, "none", FALSE)>>

\* (mutated: the context is ended before the kits)
EndStepsExitFirst == <<Just("exit")>> \o ForKits(amount, [k \in Kits |-> EndKit(k)])

\* StageKitManager::End.
EndSteps == ForKits(amount, [k \in Kits |-> EndKit(k)]) \o <<Just("exit")>>

Number(k) == IF config[k] = NoConfig THEN 0 ELSE config[k]

Reached(max, time) == max # 0 /\ time >= max

\* Handle_TimeUpdate's loops over the kits, if the configuration of one has reached its
\* limit; it is tested again at each kit.
LimitSteps(limit, max, time) ==
  IF \E k \in Kits : Reached(max[Number(k)], time)
  THEN [i \in 1..MaxKits |-> Step(limit, i - 1, "fog", FALSE)] ELSE <<>>

------------------------------------------------------------------------------
(* Taking the steps.                                                        *)

Current(t) == Head(todo[t])
Limits == {"instanceLimit", "totalLimit"}
Reports == Limits \cup {"loop", "disable", "set"}

\* (mutated: the test of a disabled strobe is the fog's)
PermitsAsFog(k, lamp, on) ==
  /\ config[k] # NoConfig
  /\ config[k] \in Enabled[lamp] \/ (lamp # "leds" /\ on)

\* UpdateLights, UpdateStrobe and UpdateFog refuse what the configuration of the
\* kit disables.  The fog's test is the other way round.
Permits(k, lamp, on) ==
  /\ config[k] # NoConfig
  /\ \/ config[k] \in Enabled[lamp]
     \/ lamp = "strobe" /\ ~on
     \/ lamp = "fog" /\ on

\* Does step s send a report?
Sends(s) ==
  /\ s.do = "loop" => s.kit < amount
  /\ s.do = "instanceLimit" => Reached(InstanceMax[Number(s.kit)], instanceTime)
  /\ s.do = "totalLimit" => Reached(TotalMax[Number(s.kit)], totalTime)
  /\ s.do = "disable" => Number(s.kit) \notin Enabled[s.lamp]
  /\ s.do \in Limits \cup {"loop"} => Permits(s.kit, s.lamp, s.on)
  /\ handle[s.kit] # None

\* (mutated: every SetFog starts the instance anew)
NoteFogAnew(s) ==
  IF s.do = "loop" /\ s.lamp = "fog" /\ s.kit < amount
  THEN /\ fogOn' = s.on
       /\ justOff' = (justOff \/ (fogOn /\ ~s.on))
       /\ instanceTime' = 0
  ELSE UNCHANGED <<fogOn, justOff, instanceTime>>

\* SetFog's bookkeeping, once per connected kit.
NoteFog(s) ==
  IF s.do = "loop" /\ s.lamp = "fog" /\ s.kit < amount
  THEN /\ fogOn' = s.on
       /\ justOff' = (justOff \/ (fogOn /\ ~s.on))
       /\ instanceTime' = IF fogOn /\ ~s.on THEN 0 ELSE instanceTime
  ELSE UNCHANGED <<fogOn, justOff, instanceTime>>

Done(t) == todo' = [todo EXCEPT ![t] = Tail(@)]

SkipReport(t) ==
  /\ todo[t] # <<>> /\ ~filled[t]
  /\ Current(t).do \in Reports /\ ~Sends(Current(t))
  /\ NoteFog(Current(t))
  /\ Done(t)
  /\ UNCHANGED <<at, filled, engine, kitVars, report, totalTime, noData, podVars, sender>>

FillReport(t) ==
  /\ todo[t] # <<>> /\ ~filled[t]
  /\ Current(t).do \in Reports /\ Sends(Current(t))
  /\ report' = [report EXCEPT ![Current(t).kit] = [lamp |-> Current(t).lamp, on |-> Current(t).on]]
  /\ filled' = [filled EXCEPT ![t] = TRUE]
  /\ UNCHANGED <<at, todo, engine, kitVars, clockVars, podVars, sender>>

\* What the pod does with a report; the status LEDs are none of the lamps.
Obey(on, r) == (IF r.on THEN on \cup {r.lamp} ELSE on \ {r.lamp}) \cap Lamps

\* libusb_control_transfer of whatever the kit's buffer holds by now.
TransferReport(t) ==
  LET s == Current(t)
      p == handle[s.kit]
  IN  /\ filled[t]
      /\ filled' = [filled EXCEPT ![t] = FALSE]
      /\ lamps' = IF p \in Pods THEN [lamps EXCEPT ![p] = Obey(@, report[s.kit])] ELSE lamps
      /\ fogFor' = [q \in Pods |-> IF "fog" \in lamps'[q] THEN fogFor[q] ELSE 0]
      /\ NoteFog(s)
      /\ Done(t)
      /\ UNCHANGED <<at, engine, kitVars, report, totalTime, noData, plugged, sender>>

\* The last step of an engine call.
Unlock(t) ==
  /\ todo[t] # <<>> /\ Current(t).do = "unlock"
  /\ engine' = None
  /\ Done(t)
  /\ UNCHANGED <<at, filled, kitVars, report, clockVars, podVars, sender>>

\* The interfaces are released and the handle closed.
CloseKit ==
  /\ todo[Main] # <<>> /\ Current(Main).do = "close"
  /\ handle' = [handle EXCEPT ![Current(Main).kit] = None]
  /\ Done(Main)
  /\ UNCHANGED <<at, filled, engine, context, amount, config, report, clockVars, podVars, sender>>

\* (mutated: the count of kits is not reset)
ExitContextCounted ==
  /\ todo[Main] # <<>> /\ Current(Main).do = "exit"
  /\ context' = FALSE
  /\ handle' = [k \in Kits |-> IF handle[k] = None THEN None ELSE Gone]
  /\ Done(Main)
  /\ UNCHANGED <<at, filled, engine, amount, config, report, clockVars, podVars, sender>>

\* libusb_exit: a handle left open outside the table's used part serves no more.
ExitContext ==
  /\ todo[Main] # <<>> /\ Current(Main).do = "exit"
  /\ context' = FALSE /\ amount' = 0
  /\ handle' = [k \in Kits |-> IF handle[k] = None THEN None ELSE Gone]
  /\ Done(Main)
  /\ UNCHANGED <<at, filled, engine, config, report, clockVars, podVars, sender>>

\* The second half of Handle_TimeUpdate, after the reports of the first.
CountTotal ==
  /\ todo[Main] # <<>> /\ Current(Main).do = "total"
  /\ totalTime' = IF justOff \/ fogOn THEN Later(totalTime, TimeCap) ELSE totalTime
  /\ todo' = [todo EXCEPT ![Main] =
       (IF fogOn /\ ~justOff THEN LimitSteps("totalLimit", TotalMax, totalTime') ELSE <<>>) \o Tail(@)]
  /\ UNCHANGED <<at, filled, engine, kitVars, report, fogOn, justOff, instanceTime, noData, podVars, sender>>

\* Its end, and Handle_SongChange when no data came for long enough.
Settle ==
  /\ todo[Main] # <<>> /\ Current(Main).do = "settle"
  /\ justOff' = FALSE
  /\ IF noData >= SongGap THEN instanceTime' = 0 /\ totalTime' = 0
     ELSE UNCHANGED <<instanceTime, totalTime>>
  /\ Done(Main)
  /\ UNCHANGED <<at, filled, engine, kitVars, report, fogOn, noData, podVars, sender>>

------------------------------------------------------------------------------
(* Main's loop.                                                             *)

MainAt(label) == at = label /\ todo[Main] = <<>>

\* The scan connects the first n of the pods in order: each takes the next slot, until
\* one fails or finds the slot taken (and so do all after it), or the table is full.
Connects(n, order, bad) ==
  LET comesUp(i) == order[i] \notin bad /\ handle[i - 1] = None
  IN  /\ n <= Len(order) /\ \A i \in 1..n : comesUp(i)
      /\ n < Len(order) /\ n < MaxKits => ~comesUp(n + 1)

\* Handle_StagekitConnect with StageKitManager::Init: order is the pods libusb_open
\* opens, as the device list has them; those in bad do not come up (reset, configuration or
\* claim fails), the first of them with its handle already stored.
Connect(order, bad, n) ==
  LET Leaked(k) == k = n /\ n < Len(order) /\ handle[k] = None
      Assigned(k) == DefaultConfig # 0 \/ (n = 1 /\ k = 0)
      Given == IF DefaultConfig = 0 THEN 1 ELSE DefaultConfig
  IN  /\ at \in {"start", "connect"} /\ todo[Main] = <<>>
      /\ ~context
      /\ Connects(n, order, bad)
      /\ handle' = [k \in Kits |->
           IF k < n \/ (n > 0 /\ Leaked(k)) THEN order[k + 1]
           ELSE IF Leaked(k) THEN Gone
           ELSE handle[k]]
      /\ amount' = n /\ context' = (n > 0)
      /\ lamps' = [p \in Pods |-> IF \E i \in 1..n : order[i] = p THEN {} ELSE lamps[p]]
      /\ IF n = 0 THEN UNCHANGED <<config, todo>>
         ELSE /\ config' = [k \in Kits |-> IF Assigned(k) THEN Given ELSE config[k]]
              /\ todo' = [todo EXCEPT ![Main] =
                   ForKits(IF DefaultConfig # 0 THEN MaxKits ELSE IF n = 1 THEN 1 ELSE 0,
                           [k \in Kits |-> SetConfigSteps(k, Given)])]
      /\ at' = IF at = "connect" THEN "nodata" ELSE IF n > 0 THEN "time" ELSE "start"
      /\ UNCHANGED <<filled, engine, report, clockVars, plugged, fogFor, sender>>

\* Handle_TimeUpdate, up to the reports for the instance limit.
TimeUpdate ==
  /\ MainAt("time")
  /\ instanceTime' = IF justOff THEN instanceTime ELSE Later(instanceTime, TimeCap)
  /\ todo' = [todo EXCEPT ![Main] =
       (IF justOff THEN <<>> ELSE LimitSteps("instanceLimit", InstanceMax, instanceTime'))
       \o <<Just("total"), Just("settle")>>]
  /\ fogFor' = [p \in Pods |-> IF "fog" \in lamps[p] THEN Later(fogFor[p], FogCap) ELSE 0]
  /\ at' = "poll"
  /\ UNCHANGED <<filled, engine, kitVars, report, fogOn, justOff, totalTime, noData, plugged, lamps, sender>>

\* A rumble command for thread t to carry out under the engine's mutex.  The
\* engine may also drop it (no output, overridden, spam): then nothing happens.
Rumble(t, command) ==
  /\ engine = None
  /\ engine' = t
  /\ todo' = [todo EXCEPT ![t] = Calls(command) \o <<Just("unlock")>>]
  /\ noData' = IF command \in {"SK_FOG_OFF", "IDLE"} THEN 0 ELSE noData

\* SerialAdapter_Poll: the adapter is open as long as the pods are connected.
PollCommand(command) ==
  /\ MainAt("poll") /\ context
  /\ Rumble(Main, command)
  /\ at' = "nodata"
  /\ UNCHANGED <<filled, kitVars, report, fogOn, justOff, instanceTime, totalTime, podVars, sender>>

PollNothing ==
  /\ MainAt("poll") /\ context
  /\ at' = "nodata"
  /\ UNCHANGED <<todo, filled, engine, kitVars, report, clockVars, podVars, sender>>

\* Restart, when the adapter fails or is silent for too long: Stop sends SK_ALL_OFF
\* to the engine and ends the kits.  Start then connects again.
Restart ==
  /\ MainAt("poll") /\ ~sender
  /\ \/ /\ engine = None
        /\ engine' = Main
        /\ todo' = [todo EXCEPT ![Main] = Calls("SK_ALL_OFF") \o <<Just("unlock")>> \o EndSteps]
     \/ todo' = [todo EXCEPT ![Main] = EndSteps] /\ UNCHANGED engine
  /\ at' = "connect"
  /\ UNCHANGED <<filled, kitVars, report, clockVars, podVars, sender>>

\* The same with [NETWORK] on: Stop stops the sender only, and it is Start that has
\* Handle_StagekitDisconnect darken and end the kits, past the engine.
RestartSender ==
  /\ MainAt("poll") /\ sender
  /\ todo' = [todo EXCEPT ![Main] =
       IF amount = 0 THEN <<>>
       ELSE Loop("strobe", FALSE) \o Loop("fog", FALSE) \o Loop("leds", FALSE) \o EndSteps]
  /\ at' = "connect"
  /\ UNCHANGED <<filled, engine, kitVars, report, clockVars, podVars, sender>>

\* (mutated: the count goes on past the limit)
CountNoDataOn ==
  /\ MainAt("nodata")
  /\ noData' = noData + 1
  /\ at' = "buttons"
  /\ UNCHANGED <<todo, filled, engine, kitVars, report, fogOn, justOff, instanceTime, totalTime, podVars, sender>>

\* Update counts the ticks without data.
CountNoData ==
  /\ MainAt("nodata")
  /\ noData' = IF noData + 1 > NoDataLimit THEN 0 ELSE noData + 1
  /\ at' = "buttons"
  /\ UNCHANGED <<todo, filled, engine, kitVars, report, fogOn, justOff, instanceTime, totalTime, podVars, sender>>

\* StageKit_PollButtons: someone pressed the Xbox button of pod k.
PressXbox(k) ==
  /\ MainAt("buttons")
  /\ k < amount /\ handle[k] \in Pods
  /\ LET c == (Number(k) + 1) % (LastConfig + 1)
     IN  /\ config' = [config EXCEPT ![k] = c]
         /\ todo' = [todo EXCEPT ![Main] = SetConfigSteps(k, c)]
         /\ fogFor' = [fogFor EXCEPT ![handle[k]] = 0]
  /\ at' = "time"
  /\ UNCHANGED <<filled, engine, context, amount, handle, report, clockVars, plugged, lamps, sender>>

PressNothing ==
  /\ MainAt("buttons")
  /\ at' = "time"
  /\ UNCHANGED <<todo, filled, engine, kitVars, report, clockVars, podVars, sender>>

------------------------------------------------------------------------------
(* The button threads and the world.                                        *)

PressFileButton(w, command) ==
  /\ todo[w] = <<>>
  /\ Rumble(w, command)
  /\ UNCHANGED <<at, filled, kitVars, report, fogOn, justOff, instanceTime, totalTime, podVars, sender>>

\* A pod that loses power is dark; its handle is good for nothing any more.
Unplug(p) ==
  /\ plugged' = plugged \ {p} /\ p \in plugged
  /\ lamps' = [lamps EXCEPT ![p] = {}]
  /\ fogFor' = [fogFor EXCEPT ![p] = 0]
  /\ handle' = [k \in Kits |-> IF handle[k] = p THEN Gone ELSE handle[k]]
  /\ UNCHANGED <<at, todo, filled, engine, context, amount, config, report, clockVars, sender>>

Plug(p) ==
  /\ plugged' = plugged \cup {p} /\ p \notin plugged
  /\ UNCHANGED <<at, todo, filled, engine, kitVars, report, clockVars, lamps, fogFor, sender>>

Next ==
  \/ \E t \in Threads : SkipReport(t) \/ FillReport(t) \/ TransferReport(t) \/ Unlock(t)
  \/ CloseKit \/ ExitContext \/ CountTotal \/ Settle
  \/ \E opened \in SUBSET plugged : \E order \in SetToSeqs(opened) :
       \E bad \in SUBSET opened : \E n \in 0..MaxKits : Connect(order, bad, n)
  \/ TimeUpdate \/ PollNothing \/ Restart \/ RestartSender \/ CountNoData \/ PressNothing
  \/ \E command \in Commands : PollCommand(command)
  \/ \E k \in Kits : PressXbox(k)
  \/ \E w \in Watchers : \E command \in Commands : PressFileButton(w, command)
  \/ \E p \in Pods : Unplug(p) \/ Plug(p)

Spec == Init /\ [][Next]_vars

------------------------------------------------------------------------------
(* Properties.                                                              *)

Steps == [do : Reports \cup {"close", "exit", "unlock", "total", "settle"}, kit : Kits,
          lamp : Lamps \cup {"status", "none"}, on : BOOLEAN]

TypeOK ==
  /\ at \in {"start", "time", "poll", "nodata", "buttons", "connect"}
  /\ todo \in [Threads -> Seq(Steps)]
  /\ filled \in [Threads -> BOOLEAN]
  /\ engine \in Threads \cup {None}
  /\ context \in BOOLEAN /\ amount \in 0..MaxKits
  /\ handle \in [Kits -> Pods \cup {None, Gone}]
  /\ config \in [Kits -> Configs \cup {NoConfig}]
  /\ report \in [Kits -> [lamp : Lamps \cup {"status", "none"}, on : BOOLEAN]]
  /\ fogOn \in BOOLEAN /\ justOff \in BOOLEAN
  /\ instanceTime \in Int /\ totalTime \in Int
  /\ noData \in 0..NoDataLimit
  /\ plugged \in SUBSET Pods
  /\ lamps \in [Pods -> SUBSET Lamps]
  /\ fogFor \in [Pods -> 0..FogCap]
  /\ sender \in Senders

\* The kits the manager counts.
Connected == {k \in Kits : k < amount /\ handle[k] \in Pods}

\* No pod is lit that the manager does not drive: whatever was unplugged, failed to
\* come up or was restarted, USB_360StageKit::End left nothing on
\* (USB_360StageKit.cpp:89-93).
\* It fails when a button thread lights a pod while main ends its kit.
NothingLeftOn ==
  \A p \in Pods : lamps[p] # {} => \E k \in Connected : handle[k] = p

\* LEDs and strobe burn only on a pod whose configuration enables them, through any
\* sequence of Xbox buttons, restarts and commands (lights.ini:1-6, 20-27).  The fog
\* does not obey: see Permits.
ConfigObeyed ==
  todo[Main] = <<>> =>
    \A k \in Connected : \A lamp \in {"leds", "strobe"} :
      lamp \in lamps[handle[k]] => config[k] \in Enabled[lamp]

\* Every kit the manager counts has a handle and no pod has two kits, also after
\* scans some pods of which failed (StageKitManager.cpp:57-77).
TableSound ==
  todo[Main] = <<>> =>
    /\ context <=> amount > 0
    /\ \A k \in Kits : k < amount => handle[k] # None
    /\ \A j, k \in Connected : handle[j] = handle[k] => j = k

\* What FogLimited supposes of an instance; no other thread fills a kit's report meanwhile.
FogHypothesis == Watchers = {} /\ Garbage \subseteq Nat /\ NoDataLimit >= 1

\* Fog ends where the configuration limits an instance to no more than SongGap: after
\* that time or, if a change of song seems to come meanwhile, after NoDataLimit
\* more; whatever the time held at first, however often the game repeats SK_FOG_ON,
\* and whichever configuration the pod came from (StageKitManager.cpp:248-261).
\* It fails if the time held less than 0 at first (nothing sets it before the fog is
\* switched off or a song changes) and data comes all the while; and by one tick where the
\* count of ticks without data is off, for the tick after fog went off is not counted.
FogLimited ==
  \A k \in Connected :
    LET max == InstanceMax[Number(k)]
    IN  Number(k) \in Enabled["fog"] /\ max \in 1..SongGap
        => fogFor[handle[k]] <= NoDataLimit + max
==============================================================================
