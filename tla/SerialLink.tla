------------------------------ MODULE SerialLink ------------------------------
(***************************************************************************)
(* The serial line between the program and the console: SerialAdapter      *)
(* (serial/SerialAdapter.cpp) with the controller's polling of it on one   *)
(* end, the adapter's firmware (gimx-adapter) on the other, which is a USB *)
(* device to the console and passes its reports and control requests on.   *)
(*                                                                         *)
(* Processes.  The host is the program's main thread.  The firmware is a   *)
(* main loop, which sends a frame byte by byte, and a serial interrupt,    *)
(* which handles a packet of the host at once and may send its reply       *)
(* between two bytes of that frame.                                        *)
(*                                                                         *)
(* Data.  Frames to the host are bytes, because what a byte means depends  *)
(* on what was read before it: type, length, payload.  Packets to the      *)
(* adapter are written at once and stay whole.  Report number n has n as   *)
(* its left weight; request number n has it in place of wIndex, and the    *)
(* pod's reply is that number.                                             *)
(***************************************************************************)
EXTENDS Naturals, Sequences

CONSTANTS
  SilenceLimit,  \* m_noserialdata_ms in polls; 0 disables the restart
  Calm,          \* does the console send only when the line is at rest?
  Consoles       \* the consoles there are, with the bounds of the model for each:
                 \*   cuts         does it, which feeds the adapter, go off and on?
                 \*   wears        may waits for it that succeed use m_timeout up?
                 \*   maxReports   how many reports it sends at most
                 \*   maxRequests  how many control requests it makes at most
                 \*   garbage      what a buffer that is not initialized may hold

ASSUME LinkAssumption ==
  /\ SilenceLimit \in Nat /\ Calm \in BOOLEAN
  /\ Consoles \subseteq [cuts : BOOLEAN, wears : BOOLEAN,
                        maxReports : 0..255, maxRequests : 0..255,  \* a number is a byte
                        garbage : SUBSET (0..255)]

\* The packet types, and the adapter type this program looks for.
TYPE == 17     STATUS == 34    START == 51     CONTROL_DATA == 68
RESET == 85    VERSION == 119  OUT_REPORT == 238
X360SK == 254

\* SK_LED_RED, the command of every report.
Right == 128

VARIABLES
  at,           \* where the host is
  payload,      \* m_payload, as much of it as is ever looked at
  length,       \* m_payload_length
  patience,     \* what is left of m_timeout, which select counts down: "left" if anything,
                \* "worn" if nothing, used up by waits that succeeded, "lapsed" if one used it
                \* up that did not
  knownSpoofed, \* m_serial_connected_to_x360
  silence,      \* m_noserialdata_ms_count
  toAdapter,    \* packets on their way to the adapter
  toHost,       \* bytes on their way to the host
  fw,           \* the firmware: "off", "wait" (for START) or "run"
  sending,      \* the bytes its main loop has still to send
  request,      \* the control request it waits for a reply to: number, value
  spoofReply,   \* has a reply come?
  buf,          \* the payload last received
  responses,    \* the variable response, and spoof_initialized when it is 2
  console,      \* the console there is (it never changes)
  reports,      \* history: how many reports the console has sent
  requests,     \* history: how many requests it has made
  acted,        \* history: the rumble events the host acted on
  answer        \* history: the last request answered, and with what

hostVars == <<at, payload, length, patience, knownSpoofed, silence, acted>>
fwVars == <<fw, sending, request, spoofReply, buf, responses, answer>>
lineVars == <<toAdapter, toHost>>
consoleVars == <<console, reports, requests>>
vars == <<hostVars, fwVars, lineVars, consoleVars>>

Kept == 1..9
NoRequest == [number |-> 0, value |-> 0]
Spoofed == responses = 2

Init ==
  /\ at = "closed"
  /\ console \in Consoles
  /\ \E b \in console.garbage : payload = [i \in Kept |-> b]  \* never initialized
  /\ length = 0
  /\ patience = "left"
  /\ knownSpoofed = FALSE
  /\ silence = 0
  /\ toAdapter = <<>> /\ toHost = <<>>
  /\ fw \in IF console.cuts THEN {"off", "wait"} ELSE {"wait"}
  /\ sending = <<>> /\ request = NoRequest /\ spoofReply = FALSE /\ buf = 0
  /\ responses = 0
  /\ reports = 0 /\ requests = 0
  /\ acted = <<>> /\ answer = <<0, 0>>

------------------------------------------------------------------------------
(* The host: reading frames.                                                *)

FrameLength == toHost[2]
FrameComplete == Len(toHost) >= 2 /\ Len(toHost) >= 2 + FrameLength

\* Something more will reach the host without anyone else's doing.
OnItsWay == sending # <<>> \/ (toAdapter # <<>> /\ fw # "off")

\* Read gives up: select returns 0.  That takes all that is left of m_timeout, and from
\* then on it waits for nothing, not even for what is on its way.
MayLapse == ~FrameComplete /\ (patience = "left" => ~OnItsWay)

Lapsed == IF patience = "left" THEN "lapsed" ELSE patience

\* The first count bytes of a frame's payload are read over m_payload, and gone.
ReadPayload(count) ==
  /\ payload' = [i \in Kept |-> IF i <= count THEN toHost[2 + i] ELSE payload[i]]
  /\ toHost' = SubSeq(toHost, 3 + count, Len(toHost))

Available == IF FrameComplete THEN FrameLength ELSE Len(toHost) - 2

Send(type, data) == toAdapter' = Append(toAdapter, [type |-> type, data |-> data])

------------------------------------------------------------------------------
(* The host: connecting.                                                    *)

\* SerialAdapter::Close: the adapter is reset, the port closed.
Close == at' = "closed" /\ Send(RESET, 0)

\* Handle_SerialConnect tries again.  It has slept, or connected the pods, since
\* the last packet was written.
Open ==
  /\ at = "closed"
  /\ toAdapter = <<>>
  /\ toHost' = <<>>
  /\ at' = "type" /\ Send(TYPE, 0)
  /\ UNCHANGED <<payload, length, patience, knownSpoofed, silence, acted, fwVars, consoleVars>>

\* (mutated: the payload is handled whatever its length and first bytes)
HandleOutReportUnchecked(p, len) == acted' = Append(acted, <<p[4], p[5]>>)

\* SerialAdapter_HandleOutReport; the rest is the event engine's.
HandleOutReport(p, len) ==
  acted' = IF len = 8 /\ p[1] = 0 /\ p[2] = 8 /\ p[3] = 0
           THEN Append(acted, <<p[4], p[5]>>) ELSE acted

\* (mutated: the version is expected to have one byte)
WantedVersionShort ==
  CASE at = "type" -> [type |-> TYPE, length |-> 1]
    [] at = "version" -> [type |-> VERSION, length |-> 1]
    [] at = "status" -> [type |-> STATUS, length |-> 1]

\* What GetType, GetVersion and GetStatus wait for.
Wanted ==
  CASE at = "type" -> [type |-> TYPE, length |-> 1]
    [] at = "version" -> [type |-> VERSION, length |-> 2]
    [] at = "status" -> [type |-> STATUS, length |-> 1]

Waiting == at \in {"type", "version", "status"}

\* GetType, GetVersion or GetStatus returns, ok or not.  After GetStatus the report
\* is handled that made the host ask, from the buffer the status was read into.
Conclude(ok) ==
  \/ /\ at = "type"
     /\ IF ok /\ payload'[1] = X360SK THEN at' = "version" /\ Send(VERSION, 0) ELSE Close
     /\ UNCHANGED <<knownSpoofed, silence, acted>>
  \/ /\ at = "version"
     /\ IF ok THEN at' = "poll" /\ Send(START, 0) ELSE Close
     /\ UNCHANGED <<knownSpoofed, silence, acted>>
  \/ /\ at = "status"
     /\ knownSpoofed' = (knownSpoofed \/ (ok /\ payload'[1] = 1))
     /\ HandleOutReport(payload', length)
     /\ silence' = 0
     /\ at' = "poll"
     /\ UNCHANGED toAdapter

\* WaitForReply reads a frame, or what it can get of it: a payload of another size than
\* the reply's ends it, a frame of another type does not.
ReadReply ==
  LET sizeOk == FrameLength = 0 \/ Available = Wanted.length
  IN  /\ Waiting /\ Len(toHost) >= 2
      /\ FrameComplete \/ MayLapse
      /\ ReadPayload(Available)
      /\ patience' = IF FrameComplete THEN patience ELSE Lapsed
      /\ IF sizeOk /\ toHost[1] # Wanted.type
         THEN UNCHANGED <<at, knownSpoofed, silence, acted, toAdapter>>
         ELSE Conclude(sizeOk)
      /\ UNCHANGED <<length, fwVars, consoleVars>>

ReplyTimesOut ==
  /\ Waiting /\ Len(toHost) < 2 /\ MayLapse
  /\ toHost' = <<>> /\ UNCHANGED payload
  /\ patience' = Lapsed
  /\ Conclude(FALSE)
  /\ UNCHANGED <<length, fwVars, consoleVars>>

------------------------------------------------------------------------------
(* The host: SerialAdapter_Poll.                                            *)

\* (mutated: a restart does not set the count back)
NoDataKept ==
  IF SilenceLimit > 0 /\ silence + 1 > SilenceLimit THEN silence' = silence + 1 /\ Close
  ELSE silence' = (IF SilenceLimit > 0 THEN silence + 1 ELSE silence) /\ UNCHANGED <<at, toAdapter>>

\* (mutated: the time without data is not counted)
NoDataUncounted == UNCHANGED <<at, silence, toAdapter>>

\* Poll returned 0: the time without data is counted, and at the limit Restart
\* closes the adapter.
NoData ==
  IF SilenceLimit > 0 /\ silence + 1 > SilenceLimit THEN silence' = 0 /\ Close
  ELSE silence' = (IF SilenceLimit > 0 THEN silence + 1 ELSE silence) /\ UNCHANGED <<at, toAdapter>>

\* Nothing to read.  The loop has slept for longer than a frame takes to arrive.
PollSilence ==
  /\ at = "poll" /\ toHost = <<>> /\ ~OnItsWay
  /\ NoData
  /\ UNCHANGED <<payload, length, patience, knownSpoofed, acted, toHost, fwVars, consoleVars>>

PollHalfHeader ==
  /\ at = "poll" /\ Len(toHost) = 1 /\ MayLapse
  /\ toHost' = <<>> /\ patience' = Lapsed
  /\ NoData
  /\ UNCHANGED <<payload, length, knownSpoofed, acted, fwVars, consoleVars>>

\* SerialAdapter_HandleControlData: the pod (the first kit) is asked what the console
\* asks.  If it does not reply, neither does the host.
HandleControlData(p) ==
  \E replies \in BOOLEAN :
    IF replies /\ p[1] >= 128 THEN Send(CONTROL_DATA, p[5]) ELSE UNCHANGED toAdapter

\* A frame, of which Poll takes what it can get: the result of the second Read is not
\* looked at.
PollFrame ==
  /\ at = "poll" /\ Len(toHost) >= 2
  /\ FrameComplete \/ MayLapse
  /\ ReadPayload(Available)
  /\ length' = IF FrameLength > 0 THEN FrameLength ELSE length
  /\ patience' = IF FrameComplete THEN patience ELSE Lapsed
  /\ IF FrameLength > 0 /\ toHost[1] = CONTROL_DATA
     THEN /\ HandleControlData(payload')
          /\ silence' = 0
          /\ UNCHANGED <<at, acted>>
     ELSE IF FrameLength > 0 /\ toHost[1] = OUT_REPORT
     THEN IF knownSpoofed
          THEN HandleOutReport(payload', FrameLength) /\ silence' = 0 /\ UNCHANGED <<at, toAdapter>>
          ELSE at' = "status" /\ Send(STATUS, 0) /\ UNCHANGED <<silence, acted>>
     ELSE NoData /\ UNCHANGED acted
  /\ UNCHANGED <<knownSpoofed, fwVars, consoleVars>>

\* m_timeout, one second when the program starts, is handed to select by every Read and
\* Write and never set again: a wait that succeeds takes its time off it too.  How much is
\* left is not counted, so any wait for what is on its way may be the one that ends it.
WearOut ==
  /\ console.wears /\ patience = "left"
  /\ Waiting \/ (at = "poll" /\ toHost # <<>>)
  /\ ~FrameComplete /\ OnItsWay
  /\ patience' = "worn"
  /\ UNCHANGED <<at, payload, length, knownSpoofed, silence, acted, fwVars, lineVars, consoleVars>>

Host == Open \/ ReadReply \/ ReplyTimesOut \/ PollSilence \/ PollHalfHeader \/ PollFrame

------------------------------------------------------------------------------
(* The firmware.                                                            *)

\* Bytes for a port that is not open are lost.
Reply(bytes) == toHost' = IF at = "closed" THEN toHost ELSE toHost \o bytes

\* Every variable is as after power on.
Reboot(where) ==
  /\ fw' = where
  /\ sending' = <<>> /\ request' = NoRequest /\ spoofReply' = FALSE /\ buf' = 0
  /\ responses' = 0


SpoofInitialized == IF Spoofed THEN 1 ELSE 0

\* handle_packet, in the serial interrupt.
HandlePacket(p) ==
  \/ p.type = TYPE /\ Reply(<<TYPE, 1, X360SK>>) /\ UNCHANGED fwVars
  \/ p.type = STATUS /\ Reply(<<STATUS, 1, SpoofInitialized>>) /\ UNCHANGED fwVars
  \/ p.type = VERSION /\ Reply(<<VERSION, 2, 8, 1>>) /\ UNCHANGED fwVars
  \/ /\ p.type = START
     /\ Reply(<<START, 1, SpoofInitialized>>)
     /\ fw' = "run"
     /\ UNCHANGED <<sending, request, spoofReply, buf, responses, answer>>
  \/ /\ p.type = CONTROL_DATA
     /\ spoofReply' = TRUE /\ buf' = p.data
     /\ UNCHANGED <<fw, sending, request, responses, answer, toHost>>
  \/ /\ p.type = RESET
     /\ Reboot("wait")
     /\ UNCHANGED <<answer, toHost>>

\* A packet that finds the adapter without power is lost.
ReceivePacket ==
  /\ toAdapter # <<>>
  /\ toAdapter' = Tail(toAdapter)
  /\ IF fw = "off" THEN UNCHANGED <<fwVars, toHost>> ELSE HandlePacket(Head(toAdapter))
  /\ UNCHANGED <<hostVars, consoleVars>>

SendByte ==
  /\ sending # <<>>
  /\ Reply(<<Head(sending)>>)
  /\ sending' = Tail(sending)
  /\ UNCHANGED <<hostVars, fw, request, spoofReply, buf, responses, answer, toAdapter,
                 consoleVars>>

AtRest == at = "poll" /\ toHost = <<>> /\ toAdapter = <<>>

\* The main loop is at its top, and the console may send something.
Ready == fw = "run" /\ sending = <<>> /\ request = NoRequest /\ (Calm => AtRest)

\* ReceiveNextReport: a rumble report, or the one that tells the controller's number.
ReceiveReport(rumble) ==
  /\ Ready
  /\ reports < console.maxReports
  /\ reports' = reports + 1
  /\ sending' = IF rumble THEN <<OUT_REPORT, 8, 0, 8, 0, reports', Right, 0, 0, 0>>
                ELSE <<OUT_REPORT, 3, 1, 3, 6>>
  /\ UNCHANGED <<hostVars, fw, request, spoofReply, buf, responses, answer, lineVars, console, requests>>

\* A vendor request, value the high byte of wValue: 92 (0x5c) asks for a response to a
\* challenge, 91 (0x5b) is the other one the firmware knows.
Setup(kind, value, n) == <<kind, 131, IF value = 92 THEN 16 ELSE 23, value, n, 0, 1, 0>>

\* (mutated: a reply that came before the request counts)
PassRequestStale(value) ==
  /\ Ready /\ ~Spoofed
  /\ requests < console.maxRequests
  /\ requests' = requests + 1
  /\ request' = [number |-> requests', value |-> value]
  /\ sending' = <<CONTROL_DATA, 8>> \o Setup(193, value, requests')
  /\ UNCHANGED <<hostVars, fw, spoofReply, buf, responses, answer, lineVars, console, reports>>

\* EVENT_USB_Device_ControlRequest before the handshake is over: the request is passed
\* on to the host, whose reply is waited for.
PassRequest(value) ==
  /\ Ready /\ ~Spoofed
  /\ requests < console.maxRequests
  /\ requests' = requests + 1
  /\ request' = [number |-> requests', value |-> value]
  /\ spoofReply' = FALSE
  /\ sending' = <<CONTROL_DATA, 8>> \o Setup(193, value, requests')
  /\ UNCHANGED <<hostVars, fw, buf, responses, answer, lineVars, console, reports>>

\* A request with data for the device: nothing to wait for.
PassData ==
  /\ Ready /\ ~Spoofed
  /\ requests < console.maxRequests
  /\ requests' = requests + 1
  /\ spoofReply' = FALSE
  /\ sending' = <<CONTROL_DATA, 9>> \o Setup(65, 0, requests') \o <<1>>
  /\ UNCHANGED <<hostVars, fw, request, buf, responses, answer, lineVars, console, reports>>

\* The reply is there; the second response ends the handshake.
AnswerRequest ==
  /\ fw = "run" /\ sending = <<>>
  /\ request # NoRequest /\ spoofReply
  /\ answer' = <<request.number, buf>>
  /\ request' = NoRequest
  /\ responses' = responses + IF request.value = 92 THEN 1 ELSE 0
  /\ UNCHANGED <<hostVars, fw, sending, spoofReply, buf, lineVars, consoleVars>>

\* After the handshake the firmware answers itself, or starts all over.
ResetByConsole ==
  /\ Ready /\ Spoofed
  /\ Reboot("wait")
  /\ UNCHANGED <<hostVars, answer, lineVars, consoleVars>>

PowerOff ==
  /\ console.cuts /\ fw # "off"
  /\ Reboot("off")
  /\ UNCHANGED <<hostVars, answer, lineVars, consoleVars>>

PowerOn ==
  /\ fw = "off"
  /\ Reboot("wait")
  /\ UNCHANGED <<hostVars, answer, lineVars, consoleVars>>

Next ==
  \/ Host \/ WearOut
  \/ ReceivePacket \/ SendByte
  \/ \E rumble \in BOOLEAN : ReceiveReport(rumble)
  \/ \E value \in {91, 92} : PassRequest(value)
  \/ AnswerRequest \/ PassData \/ ResetByConsole
  \/ PowerOff \/ PowerOn

\* The program's loop runs, and so do the firmware and its interrupt while it has
\* power.  Nothing is asked of the console, and m_timeout need never wear out.
Fairness ==
  /\ WF_vars(Host)
  /\ WF_vars(ReceivePacket) /\ WF_vars(SendByte)
  /\ WF_vars(AnswerRequest)

Spec == Init /\ [][Next]_vars
FairSpec == Spec /\ Fairness

------------------------------------------------------------------------------
(* Properties.                                                              *)

TypeOK ==
  /\ at \in {"closed", "type", "version", "status", "poll"}
  /\ payload \in [Kept -> 0..255] /\ length \in 0..255
  /\ patience \in {"left", "worn", "lapsed"} /\ knownSpoofed \in BOOLEAN
  /\ silence \in 0..SilenceLimit
  /\ toAdapter \in Seq([type : 0..255, data : 0..255])
  /\ toHost \in Seq(0..255)
  /\ fw \in {"off", "wait", "run"}
  /\ sending \in Seq(0..255)
  /\ request \in [number : 0..console.maxRequests, value : {0, 91, 92}]
  /\ spoofReply \in BOOLEAN /\ buf \in 0..255
  /\ responses \in 0..2
  /\ console \in Consoles
  /\ reports \in 0..console.maxReports /\ requests \in 0..console.maxRequests
  /\ acted \in Seq((0..255) \X (0..255))
  /\ answer \in (0..console.maxRequests) \X (0..255)

\* No Read has had a reason to give up: the adapter has always had power, and the waits
\* that succeeded have left something of m_timeout.
Undisturbed == ~console.cuts /\ patience # "worn"

\* The console gets the reply to what it asked, not one left over from an earlier
\* request or from before a reset (emu.c:21-26: buf is whatever came last).
\* It fails when the power goes, or m_timeout is used up: Poll then takes a request the
\* rest of which has not come for a whole one, and reads out of step from there on.
AnswersOwn == Undisturbed => answer[1] = answer[2]

\* The host acts on reports of the console only, on each at most once and in order,
\* although it reads a status into the buffer that holds one (RpiLightsController.cpp:437)
\* and drops it if the status is "spoofed".
\* It fails if the console does not wait: a status sent between two bytes of a report
\* (adapter_common.c:114-118, 280) is taken for rumble data; and when the power goes in
\* the middle of a report or m_timeout is used up, because Poll does not ask how much of
\* it came (SerialAdapter.cpp:448).
NoneInvented ==
  Undisturbed =>
  \A i \in 1..Len(acted) :
    /\ acted[i][1] \in 1..reports /\ acted[i][2] = Right
    /\ \A j \in 1..(i - 1) : acted[j][1] < acted[i][1]

\* A firmware that waits for a reply does not wait for ever (emu.c:24 has no timeout):
\* if the pod has not replied, the silence makes the host reset the adapter.
Recovers == (request # NoRequest) ~> (request = NoRequest)

\* As long as there is something left of m_timeout, an adapter that keeps its power is
\* polled again and again, whatever the console sends: no Read is given up for nothing, and
\* every restart ends with a connection (RpiLightsController.cpp:418-456, 591-621).
Reconnects == [](fw # "off" /\ patience # "worn") => []<>(at = "poll")

\* The same for one that had no power for a time: the program looks for signs of life of a
\* console that was off (lights.ini:98-99).  It fails although no wait that succeeds uses
\* m_timeout up, because the first one in vain does: see MayLapse.
FindsLife == <>[](fw # "off") /\ [](patience # "worn") => []<>(at = "poll")
==============================================================================
