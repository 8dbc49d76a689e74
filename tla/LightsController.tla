-------------------------- MODULE LightsController -------------------------
(***************************************************************************)
(* The life of the program: controller/RpiLightsController and main of     *)
(* stagekitpied.cpp, from lights.ini (Settings) to the end of the process. *)
(* Input comes from the console, through the serial adapter, from the      *)
(* network (RB3ENetwork), or from the buttons of a program that is         *)
(* DMXified; pods and adapter are plugged in and pulled out, and SIGTERM   *)
(* may come at any moment.                                                 *)
(***************************************************************************)
EXTENDS Settings, RB3ENetwork

CONSTANTS
    IpOf,           \* the address a value in the file stands for
    DefaultSilence  \* stands for m_noserialdata_ms as the constructor sets it

ASSUME SilenceAssumption == DefaultSilence \in Nat

VARIABLES
    pc,             \* where main is
    running,        \* the flag the signal handler clears
    restarting,     \* Start was called by Restart, not by main
    silence,        \* m_noserialdata_ms_count
    plugged,        \* what is plugged in of {"pods", "adapter"}
    pods,           \* "none", "up", or "gone": pulled out, which nobody notices
    adapter,        \* mSerialAdapter.IsRunning()
    engine,         \* has the event engine been made, with a thread for each button?
    lit             \* what is on: <<output, "leds" or "fog">>

\* mStageKitManager.IsConnected(): a kit that was found keeps its handle.
IsConnected == pods # "none"

mainVars == <<pc, running, restarting, silence, pods, adapter>>
vars == <<iniVars, settingsVars, netVars, mainVars, plugged, engine, lit>>
fixed == <<file, next, sections, load, settingsVars>>

Commands == {"lights", "fogOn", "fogOff", "allOff"}
Lamps == {"leds", "fog"}

\* What a command makes of the lamps of some outputs; one that is not known changes
\* nothing.  Strips have no fog.
Shows(command, outputs) ==
    CASE command = "lights" -> lit \cup (outputs \X {"leds"})
      [] command = "fogOn"  -> lit \cup ((outputs \ {"strip"}) \X {"fog"})
      [] command = "fogOff" -> lit \ (outputs \X {"fog"})
      [] command = "allOff" -> lit \ (outputs \X Lamps)
      [] OTHER -> lit

\* A command goes to the pods and the strip (and to the widgets, which are the subject of
\* EventEngine and QlcConnection).
Outputs == {o \in {"pods", "strip"} :
              /\ o = "pods" => pods = "up"
              /\ o = "strip" => strip = "up"}

\* What may be on after Handle_RumbleData.  With DMXified on the command goes to the event
\* engine, which may keep it from the pods and the strip: a button that is held overrides
\* it, the mapping says nothing of it, it is spam, or an output throws.  (The IDLE_ON and
\* IDLE_OFF it adds drive widgets only, as in the mapping that is shipped.)
Handled(command) == {Shows(command, Outputs)} \cup (IF dmxified THEN {lit} ELSE {})

Init ==
    /\ SettingsInit /\ NetInit
    /\ pc = "construct"
    /\ running = TRUE
    /\ restarting = FALSE
    /\ silence = 0
    /\ plugged \in SUBSET {"pods", "adapter"}
    /\ pods = "none" /\ adapter = FALSE
    /\ engine = FALSE /\ lit = {}

-----------------------------------------------------------------------------
(* Start *)

ConstructController ==
    /\ pc = "construct"
    /\ \/ Construct /\ UNCHANGED pc
       \/ /\ stage = "thrown"       \* nothing catches it: the process ends
          /\ pc' = "crashed"
          /\ UNCHANGED <<iniVars, settingsVars>>
       \/ /\ stage = "done"
          /\ pc' = IF running THEN "start" ELSE "stop"
          /\ UNCHANGED <<iniVars, settingsVars>>
    /\ UNCHANGED <<netVars, running, restarting, silence, pods, adapter, plugged, engine, lit>>

StartedStillSilent(ok) ==
    /\ pc' = IF ok \/ restarting THEN "loop" ELSE "retry"
    /\ restarting' = FALSE
    /\ UNCHANGED silence

\* Start returns.  main tries again after five seconds; Restart does not, but clears
\* the count of silence all the same.
Started(ok) ==
    /\ pc' = IF ok \/ restarting THEN "loop" ELSE "retry"
    /\ restarting' = FALSE
    /\ silence' = IF restarting THEN 0 ELSE silence

\* Handle_StagekitDisconnect, which does not ask the engine, but for letting go.
Disconnect == lit' = IF IsConnected THEN Shows("allOff", Outputs) ELSE lit

\* A pod that is plugged in may still fail to come up (StageKits).
FindPods == \E found \in BOOLEAN : /\ found => "pods" \in plugged
                                   /\ pods' = IF found THEN "up" ELSE "none"

AnythingEnabled ==
    \E s \in KitConfigs, t \in {"ENABLE_POD_LIGHTS", "ENABLE_STROBE", "ENABLE_FOG"} :
        <<s, t>> \in DOMAIN setting /\ setting[<<s, t>>] = 1

SourceIp == IpOf[setting[<<"RB3E", "SOURCE_IP">>]]

\* Pods are optional here: that they are not found is only logged.
StartReceiver ==
    /\ pc = "start" /\ listener
    /\ \E bound \in BOOLEAN :
         /\ net' = IF bound THEN Receiver(net, SourceIp) ELSE StopNetwork(net)
         /\ IF bound /\ AnythingEnabled THEN Disconnect /\ FindPods ELSE UNCHANGED <<pods, lit>>
         /\ Started(bound)
    /\ UNCHANGED <<fixed, current, wire, running, adapter, plugged, engine>>

ClosePodsOnly == Disconnect /\ pods' = "none" /\ UNCHANGED adapter

\* Handle_SerialDisconnect and Handle_StagekitDisconnect.
CloseConnections == Disconnect /\ pods' = "none" /\ adapter' = (adapter /\ ~IsConnected)

\* The network may fail, which is only logged.  Pods still connected are darkened and
\* let go, and with them the adapter.
StartSerial ==
    /\ pc = "start" /\ ~listener
    /\ \E sends \in BOOLEAN :
         /\ sends => sender
         /\ net' = IF ~sender THEN net
                   ELSE IF sends THEN Sender(net) ELSE StopNetwork(net)
    /\ CloseConnections
    /\ pc' = "connectPods"
    /\ UNCHANGED <<fixed, current, wire, running, restarting, silence, plugged, engine>>

ConnectPods ==
    /\ pc = "connectPods"
    /\ FindPods
    /\ IF pods' = "up" THEN pc' = "connectAdapter" /\ UNCHANGED <<restarting, silence>>
       ELSE Started(FALSE)
    /\ UNCHANGED <<fixed, current, netVars, running, adapter, plugged, engine, lit>>

\* An adapter that is still open is kept; for another the port is looked up.
FindPort ==
    /\ pc = "connectAdapter"
    /\ IF adapter THEN Started(TRUE) /\ UNCHANGED current
       ELSE /\ current' = SetSection("SERIAL_INTERFACE")
            /\ IF ~FindSection("SERIAL_INTERFACE") THEN Started(FALSE)
               ELSE /\ pc' = IF Get(current', "SERIAL_INTERFACE", "SURPRESS_WARNINGS") = Empty
                             THEN "crashed" ELSE "awaitAdapter"
                    /\ UNCHANGED <<restarting, silence>>
    /\ UNCHANGED <<fixed, netVars, running, pods, adapter, plugged, engine, lit>>

\* SerialAdapter::Init succeeds: the adapter is there and answers.  One that is there need
\* not answer, and once m_timeout is used up none may ever again (SerialLink): then Init
\* fails every five seconds, and the program stays where it is.
OpenAdapter ==
    /\ pc = "awaitAdapter" /\ running
    /\ "adapter" \in plugged /\ adapter' = TRUE
    /\ Started(TRUE)
    /\ UNCHANGED <<fixed, current, netVars, running, pods, plugged, engine, lit>>

\* (mutated: only an open adapter ends the wait)
StopWaitingOpen ==
    /\ pc = "awaitAdapter" /\ adapter
    /\ Started(TRUE)
    /\ UNCHANGED <<fixed, current, netVars, running, pods, adapter, plugged, engine, lit>>

\* The program was told to stop, and goes on as if it were connected.
StopWaiting ==
    /\ pc = "awaitAdapter" /\ ~running
    /\ Started(TRUE)
    /\ UNCHANGED <<fixed, current, netVars, running, pods, adapter, plugged, engine, lit>>

Retry ==
    /\ pc = "retry"
    /\ pc' = IF running THEN "start" ELSE "stop"
    /\ UNCHANGED <<fixed, current, netVars, running, restarting, silence, pods, adapter, plugged, engine, lit>>

-----------------------------------------------------------------------------
(* Update *)

Limit == IF <<"NO_SERIAL_DATA", "NO_SERIAL_DATA_SECONDS">> \in DOMAIN setting
         THEN setting[<<"NO_SERIAL_DATA", "NO_SERIAL_DATA_SECONDS">>] ELSE DefaultSilence

\* A report of the console: shown, and sent on when there is a socket to send it with.
Rumble(command) ==
    /\ pc = "loop" /\ running /\ ~listener
    /\ adapter
    /\ lit' \in Handled(command) /\ engine' = (engine \/ dmxified)
    /\ SendLightEvent(net, command)
    /\ silence' = 0
    /\ UNCHANGED <<fixed, current, net, pc, running, restarting, pods, adapter, plugged>>

\* Nothing came, or the line reports an error, which closes it.  A limit of 0 is none.
NoData ==
    /\ pc = "loop" /\ running /\ ~listener
    /\ adapter
    /\ adapter' \in BOOLEAN
    /\ silence' = IF Limit > 0 THEN silence + 1 ELSE silence
    /\ pc' = IF Limit > 0 /\ silence' > Limit THEN "restart" ELSE "loop"
    /\ UNCHANGED <<fixed, current, netVars, running, restarting, pods, plugged, engine, lit>>

PollClosedQuiet == pc = "loop" /\ running /\ ~listener /\ ~adapter /\ UNCHANGED vars

\* Polling an adapter that is not open fails, and that means a restart.
PollClosed ==
    /\ pc = "loop" /\ running /\ ~listener
    /\ ~adapter
    /\ pc' = "restart"
    /\ UNCHANGED <<fixed, current, netVars, running, restarting, silence, pods, adapter, plugged, engine, lit>>

PollNetwork ==
    /\ pc = "loop" /\ running /\ listener
    /\ \E p \in wire :
         /\ Receive(p)
         /\ net' = IF Accepts(net, p) THEN Heard(net, p) ELSE net
         /\ IF Accepts(net, p) /\ EventWasStagekit(net')
            THEN lit' \in Handled(net'.weights) /\ engine' = (engine \/ dmxified)
            ELSE UNCHANGED <<engine, lit>>
    /\ UNCHANGED <<fixed, current, mainVars, plugged>>

-----------------------------------------------------------------------------
(* Stop, and the end *)

\* (mutated: the kits are let go as they are)
EndPodsLit(lamps) == lamps

\* StageKitManager::End: every kit there is goes dark and is let go.
EndPods(lamps) == IF pods = "up" THEN lamps \ ({"pods"} \X Lamps) ELSE lamps

\* What may be on after Stop.  With the network in use, in either direction, nothing but
\* the network is stopped.
LitAfterStop ==
    IF listener \/ sender THEN {lit} ELSE {EndPods(lamps) : lamps \in Handled("allOff")}

Stop ==
    /\ lit' \in LitAfterStop
    /\ IF listener \/ sender
       THEN net' = StopNetwork(net) /\ UNCHANGED <<pods, adapter, engine>>
       ELSE /\ adapter' = FALSE /\ pods' = "none" /\ UNCHANGED net
            /\ engine' = (engine \/ dmxified)

Restart ==
    /\ pc = "restart"
    /\ Stop
    /\ restarting' = TRUE
    /\ pc' = "start"
    /\ UNCHANGED <<fixed, current, wire, running, silence, plugged>>

LeaveLoop ==
    /\ pc = "loop" /\ ~running
    /\ pc' = "stop"
    /\ UNCHANGED <<fixed, current, netVars, running, restarting, silence, pods, adapter, plugged, engine, lit>>

StopMain ==
    /\ pc = "stop"
    /\ Stop
    /\ pc' = "destroy"
    /\ UNCHANGED <<fixed, current, wire, running, restarting, silence, plugged>>

\* LEDArray::TurnOff
TurnOff(lamps) == IF strip = "up" THEN lamps \ ({"strip"} \X Lamps) ELSE lamps

\* ~RpiLightsController, which stops once more, and then its members': the strip goes
\* dark and its buffer is freed, the kits that are still held are let go.  What was never
\* set is freed too: the names of the strips' files when lights.ini did not load, the
\* buffer when there is no strip.  That may crash, and leaves what should follow undone.
Destroy ==
    /\ pc = "destroy"
    /\ \E crash \in {"no", "names", "buffer"}, lamps \in LitAfterStop :
         /\ crash = "names" => load = "failed"
         /\ crash = "buffer" => strip = "none"
         /\ lit' = CASE crash = "names"  -> lamps
                     [] crash = "buffer" -> TurnOff(lamps)
                     [] crash = "no"     -> EndPods(TurnOff(lamps))
         /\ pc' = IF crash = "no" THEN "ended" ELSE "crashed"
    /\ net' = StopNetwork(net)
    /\ pods' = "none" /\ adapter' = FALSE
    /\ UNCHANGED <<fixed, current, wire, running, restarting, silence, plugged, engine>>

-----------------------------------------------------------------------------
(* Around the program *)

Signal ==
    /\ running /\ pc \notin {"ended", "crashed"}
    /\ running' = FALSE
    /\ UNCHANGED <<fixed, current, netVars, pc, restarting, silence, pods, adapter, plugged, engine, lit>>

PlugIn ==
    /\ \E d \in {"pods", "adapter"} \ plugged : plugged' = plugged \cup {d}
    /\ UNCHANGED <<fixed, current, netVars, mainVars, engine, lit>>

\* The converter stays in while its port is open: pulled out of an open port it would
\* hang the program in a read (SerialAdapter::Read).  A pod without power is dark.
PullOut ==
    /\ \E d \in plugged :
         /\ d = "adapter" => ~adapter
         /\ plugged' = plugged \ {d}
         /\ pods' = IF d = "pods" /\ IsConnected THEN "gone" ELSE pods
         /\ lit' = lit \ ({d} \X Lamps)
    /\ UNCHANGED <<fixed, current, netVars, pc, running, restarting, silence, adapter, engine>>

\* A button is pressed or let go: its thread has the engine show what it is mapped to,
\* whatever main is doing, also after it has stopped.  (Once the destructors run there is
\* nothing left that a thread may use; what it does then is not modelled.)
Press ==
    /\ engine /\ pc \notin {"construct", "ended", "crashed"}
    /\ \E command \in Commands : lit' = Shows(command, Outputs)
    /\ UNCHANGED <<fixed, current, netVars, mainVars, plugged, engine>>

\* The Pi that is sent to listens to everybody and shows what it hears.
ThereHears(p) ==
    /\ p.from = Here
    /\ Receive(p)
    /\ lit' = Shows(p.weights, {"there"})
    /\ UNCHANGED <<fixed, current, net, mainVars, plugged, engine>>

Network ==
    /\ Lose \/ ForeignSends
    /\ UNCHANGED <<fixed, current, mainVars, plugged, engine, lit>>

StartSteps == ConstructController \/ StartReceiver \/ StartSerial \/ ConnectPods \/ FindPort
                \/ StopWaiting \/ Retry
Main == StartSteps \/ (\E c \in Commands : Rumble(c)) \/ NoData \/ PollClosed \/ PollNetwork
          \/ Restart \/ LeaveLoop \/ StopMain \/ Destroy

Next == Main \/ OpenAdapter \/ Signal \/ PlugIn \/ PullOut \/ Press \/ (\E p \in wire : ThereHears(p)) \/ Network

\* main goes on, and finds a port it can bind and pods that are plugged in when it tries
\* again and again.  Nothing is assumed of OpenAdapter.  The console repeats SK_FOG_OFF, and
\* a packet sent again and again arrives.
Fairness ==
    /\ WF_vars(Main)
    /\ SF_vars(StartReceiver /\ net'.socket = "receiver")
    /\ SF_vars(ConnectPods /\ pods' = "up")
    /\ SF_vars(Rumble("fogOff"))
    /\ SF_vars(ThereHears(Packet("fogOff")))

Spec == Init /\ [][Next]_vars /\ Fairness

-----------------------------------------------------------------------------
(* Properties *)

TypeOK ==
    /\ pc \in {"construct", "start", "connectPods", "connectAdapter", "awaitAdapter", "retry",
               "loop", "restart", "stop", "destroy", "ended", "crashed"}
    /\ running \in BOOLEAN /\ restarting \in BOOLEAN
    /\ silence \in 0..(Limit + 1)
    /\ plugged \subseteq {"pods", "adapter"}
    /\ pods \in {"none", "up", "gone"} /\ adapter \in BOOLEAN
    /\ engine \in BOOLEAN /\ lit \subseteq {"pods", "strip", "there"} \X Lamps
    /\ net.socket \in {"none", "receiver", "sender"}
    /\ Cardinality(wire) <= Capacity
    /\ pc # "construct" => stage = "done" \/ pc = "crashed"

\* Whatever lights.ini looks like, what is found in it is what it says, and only a
\* malformed or doubled line is rejected (INI_Handler; while the constructor runs, for
\* what is said here does not change any more after that).
LoadSound == pc = "construct" => ReadAsWritten /\ RejectedForAReason

\* Light data has one source: the program never listens to the network while it has
\* the adapter open or was told to send ("Enabling this will disable RB3E mode!",
\* lights.ini:203), whatever order and pieces the sections of the file come in.
OneSource ==
    net.socket = "receiver" => ~adapter /\ Meant("NETWORK", "ENABLED") # 1

\* The adapter, which passes the console's requests on to a pod, is open only while
\* the program holds a pod's handle, through every restart and in every mode
\* (Handle_SerialConnect and the order of Start and Stop).
PodsFirst == adapter => IsConnected

\* When the program has ended, the pods and the strip are dark: though a held button kept
\* SK_ALL_OFF from them, one was pressed between Stop and the destructors, or the network
\* was in use and Stop let everything be (main, Stop, the destructors; a pod that is pulled
\* out goes dark by itself).  The widgets may stay on, for SK_ALL_OFF may not reach them.
DarkAtEnd == pc = "ended" => lit \cap ({"pods", "strip"} \X Lamps) = {}

\* The address in SOURCE_IP is the one that is listened to (README.md:258).
HearsItsSource ==
    \A p \in wire :
        net.socket = "receiver" /\ p.magic /\ p.from = SourceIp => Accepts(net, p)

Over == pc \in {"ended", "crashed"}

\* A signal ends the program, wherever it is and whatever is plugged in, tried again or
\* waited for (the tests of running in main and Handle_SerialConnect).
Ends == ~running ~> Over

Works == pc = "loop" /\ (adapter \/ net.socket = "receiver")

\* An adapter that is there to be opened is opened in the end: it answers before m_timeout
\* is used up.
AdapterAnswers == WF_vars(OpenAdapter)

\* With pods and adapter plugged in for good, an adapter that answers and a port that is
\* named, the program gets back to work after every failure: a start that failed inside a
\* restart leaves the loop with a closed adapter, and the next poll must lead to another
\* restart (Restart, SerialAdapter_Poll).  Without an answer it waits for ever (SerialLink's
\* FindsLife).
ComesBack ==
    AdapterAnswers /\ <>[](plugged = {"pods", "adapter"} /\ running)
        => []<>(Works \/ Over \/ ~FindSection("SERIAL_INTERFACE"))

Relays == pc = "loop" /\ running /\ adapter /\ net.socket = "sender"

\* Fog that another Pi was told to make ends, though packets are lost, repeated and
\* overtaken and nothing is ever acknowledged: the console's SK_FOG_OFF is sent on each
\* time it comes (Handle_RumbleData).
RemoteFogEnds ==
    <>[](sender /\ pc = "loop" => net.socket = "sender") /\ []<>Relays
        => []<>(<<"there", "fog">> \notin lit)
=============================================================================
