--------------------------- MODULE SerialLinkProofs ---------------------------
(***************************************************************************)
(* Proofs about SerialLink, for every limit of silence, every garbage in    *)
(* the buffers and as many reports and requests as a byte can number:       *)
(* types, and, of a console that keeps its power and waits for the line to  *)
(* be at rest, that host and firmware stay in step until m_timeout is used  *)
(* up.                                                                      *)
(***************************************************************************)
EXTENDS SerialLink, SequenceTheorems, TLAPS

Byte == 0..255
Packet == [type : Byte, data : Byte]

LEMMA Limits ==
  /\ SilenceLimit \in Nat
  /\ \A c \in Consoles :
       /\ c.garbage \subseteq Byte
       /\ c.maxReports \in Byte /\ c.maxRequests \in Byte
       /\ c.maxReports \in Nat /\ c.maxRequests \in Nat
       /\ 0 \in 0..c.maxReports /\ 0 \in 0..c.maxRequests
       /\ \A n \in 0..c.maxReports : n \in Byte
       /\ \A n \in 0..c.maxRequests : n \in Byte
<1>1. SilenceLimit \in Nat
      /\ \A c \in Consoles : c.garbage \subseteq Byte /\ c.maxReports \in Byte /\ c.maxRequests \in Byte
  BY LinkAssumption DEF Byte
<1>2. \A m \in Byte : m \in Nat /\ 0 \in 0..m /\ \A n \in 0..m : n \in Byte
  BY DEF Byte
<1> QED BY <1>1, <1>2

LEMMA Types == {TYPE, STATUS, START, CONTROL_DATA, RESET, VERSION, OUT_REPORT, X360SK, Right} \subseteq Byte
BY DEF TYPE, STATUS, START, CONTROL_DATA, RESET, VERSION, OUT_REPORT, X360SK, Right, Byte

------------------------------------------------------------------------------
(* The types, part by part.                                                 *)

HostTyped ==
  /\ at \in {"closed", "type", "version", "status", "poll"}
  /\ payload \in [Kept -> Byte] /\ length \in Byte
  /\ patience \in {"left", "worn", "lapsed"} /\ knownSpoofed \in BOOLEAN
  /\ silence \in 0..SilenceLimit
  /\ acted \in Seq(Byte \X Byte)

LineTyped == toAdapter \in Seq(Packet) /\ toHost \in Seq(Byte)

FirmwareTyped ==
  /\ fw \in {"off", "wait", "run"}
  /\ sending \in Seq(Byte)
  /\ request \in [number : 0..console.maxRequests, value : {0, 91, 92}]
  /\ spoofReply \in BOOLEAN /\ buf \in Byte
  /\ responses \in 0..2
  /\ answer \in (0..console.maxRequests) \X Byte

ConsoleTyped ==
  /\ console \in Consoles
  /\ reports \in 0..console.maxReports /\ requests \in 0..console.maxRequests

\* The handshake ends with the second response; no request is passed on after it.
NoneAfterHandshake == request # NoRequest => responses < 2

Typed == HostTyped /\ LineTyped /\ FirmwareTyped /\ ConsoleTyped /\ NoneAfterHandshake

LEMMA TypeParts == TypeOK <=> HostTyped /\ LineTyped /\ FirmwareTyped /\ ConsoleTyped
BY DEF TypeOK, HostTyped, LineTyped, FirmwareTyped, ConsoleTyped, Byte, Packet

LEMMA TypesStart == Init => Typed
<1> SUFFICES ASSUME Init PROVE Typed
  OBVIOUS
<1>1. HostTyped
  <2>1. payload \in [Kept -> Byte]
    BY Limits DEF Init
  <2>2. 0 \in 0..SilenceLimit /\ 0 \in Byte
    BY Limits DEF Byte
  <2>3. <<>> \in Seq(Byte \X Byte)
    BY EmptySeq
  <2> QED BY <2>1, <2>2, <2>3 DEF Init, HostTyped
<1>2. LineTyped
  BY EmptySeq DEF Init, LineTyped
<1>3. console \in Consoles /\ 0 \in 0..console.maxRequests /\ 0 \in 0..console.maxReports
  BY Limits DEF Init
<1>4. FirmwareTyped
  <2>1. <<>> \in Seq(Byte) /\ 0 \in Byte
    BY EmptySeq DEF Byte
  <2>2. fw \in {"off", "wait", "run"}
    BY DEF Init
  <2>3. NoRequest \in [number : 0..console.maxRequests, value : {0, 91, 92}]
    BY <1>3 DEF NoRequest
  <2>4. <<0, 0>> \in (0..console.maxRequests) \X Byte
    BY <1>3, <2>1
  <2>5. spoofReply \in BOOLEAN
    BY Zenon DEF Init
  <2>6. responses \in 0..2 /\ sending = <<>> /\ request = NoRequest /\ buf = 0 /\ answer = <<0, 0>>
    BY DEF Init
  <2> QED BY <2>1, <2>2, <2>3, <2>4, <2>5, <2>6 DEF FirmwareTyped
<1>5. ConsoleTyped /\ NoneAfterHandshake
  BY <1>3 DEF Init, ConsoleTyped, NoneAfterHandshake
<1> QED BY <1>1, <1>2, <1>4, <1>5 DEF Typed

------------------------------------------------------------------------------
(* What the host does, one call at a time.                                  *)

LEMMA AvailableIs ==
  ASSUME LineTyped, Len(toHost) >= 2
  PROVE  /\ FrameLength \in Byte /\ FrameLength \in Nat
         /\ Available \in Nat /\ 2 + Available <= Len(toHost)
         /\ toHost[1] \in Byte
<1>1. Len(toHost) \in Nat /\ 1 \in 1..Len(toHost) /\ 2 \in 1..Len(toHost)
  BY DEF LineTyped
<1>2. toHost[1] \in Byte /\ toHost[2] \in Byte
  BY <1>1, ElementOfSeq DEF LineTyped
<1>3. FrameLength \in Byte /\ FrameLength \in Nat
  <2>1. FrameLength \in Byte
    BY <1>2 DEF FrameLength
  <2>2. \A b \in Byte : b \in Nat
    BY DEF Byte
  <2> QED BY <2>1, <2>2
<1>4. CASE FrameComplete
  BY <1>1, <1>2, <1>3, <1>4 DEF Available, FrameComplete
<1>5. CASE ~FrameComplete
  BY <1>1, <1>2, <1>3, <1>5 DEF Available
<1> QED BY <1>4, <1>5

LEMMA ReadTyped ==
  ASSUME HostTyped, LineTyped, NEW count \in Nat, 2 + count <= Len(toHost), ReadPayload(count)
  PROVE  payload' \in [Kept -> Byte] /\ toHost' \in Seq(Byte)
<1>1. Len(toHost) \in Nat
  BY DEF LineTyped
<1>2. \A i \in Kept : i <= count => toHost[2 + i] \in Byte
  <2>1. SUFFICES ASSUME NEW i \in Kept, i <= count PROVE toHost[2 + i] \in Byte
    OBVIOUS
  <2>2. 2 + i \in 1..Len(toHost)
    BY <1>1, <2>1 DEF Kept
  <2> QED BY <2>2, ElementOfSeq DEF LineTyped
<1>3. payload' \in [Kept -> Byte]
  BY <1>2 DEF ReadPayload, HostTyped
<1>4. \A i \in (3 + count)..Len(toHost) : i \in 1..Len(toHost)
  BY <1>1
<1>5. SubSeq(toHost, 3 + count, Len(toHost)) \in Seq(Byte)
  BY <1>1, <1>4, SubSeqProperties DEF LineTyped
<1> QED BY <1>3, <1>5 DEF ReadPayload

LEMMA SendTyped ==
  ASSUME LineTyped, NEW type \in Byte, NEW data \in Byte, Send(type, data)
  PROVE  toAdapter' \in Seq(Packet)
BY AppendProperties DEF Send, LineTyped, Packet

LEMMA CloseTyped ==
  ASSUME LineTyped, Close
  PROVE  at' = "closed" /\ toAdapter' \in Seq(Packet)
<1>1. RESET \in Byte /\ 0 \in Byte
  BY Types DEF Byte
<1> QED BY <1>1, SendTyped DEF Close

LEMMA NoDataTyped ==
  ASSUME HostTyped, LineTyped, NoData
  PROVE  /\ at' \in {at, "closed"} /\ silence' \in 0..SilenceLimit /\ toAdapter' \in Seq(Packet)
<1>1. SilenceLimit \in Nat
  BY Limits
<1>2. CASE SilenceLimit > 0 /\ silence + 1 > SilenceLimit
  BY <1>1, <1>2, CloseTyped DEF NoData
<1>3. CASE ~(SilenceLimit > 0 /\ silence + 1 > SilenceLimit)
  BY <1>1, <1>3 DEF NoData, HostTyped, LineTyped
<1> QED BY <1>2, <1>3

LEMMA HandleOutReportTyped ==
  ASSUME HostTyped, NEW p \in [Kept -> Byte], NEW len, HandleOutReport(p, len)
  PROVE  acted' \in Seq(Byte \X Byte)
<1>1. <<p[4], p[5]>> \in Byte \X Byte
  BY DEF Kept
<1> QED BY <1>1, AppendProperties DEF HandleOutReport, HostTyped

LEMMA ConcludeTyped ==
  ASSUME HostTyped, LineTyped, payload' \in [Kept -> Byte], NEW ok \in BOOLEAN, Conclude(ok)
  PROVE  /\ at' \in {"closed", "version", "poll"} /\ knownSpoofed' \in BOOLEAN
         /\ silence' \in 0..SilenceLimit /\ acted' \in Seq(Byte \X Byte) /\ toAdapter' \in Seq(Packet)
<1>1. VERSION \in Byte /\ START \in Byte /\ 0 \in Byte /\ SilenceLimit \in Nat
  BY Types, Limits DEF Byte
<1>2. CASE UNCHANGED <<knownSpoofed, silence, acted>> /\ (Close \/ (at' = "version" /\ Send(VERSION, 0))
                                                              \/ (at' = "poll" /\ Send(START, 0)))
  BY <1>1, <1>2, CloseTyped, SendTyped DEF HostTyped
<1>3. CASE /\ knownSpoofed' = (knownSpoofed \/ (ok /\ payload'[1] = 1)) /\ HandleOutReport(payload', length)
           /\ silence' = 0 /\ at' = "poll" /\ UNCHANGED toAdapter
  <2>1. knownSpoofed' \in BOOLEAN
    BY <1>3, Zenon
  <2>2. silence' \in 0..SilenceLimit
    BY <1>1, <1>3
  <2> QED BY <1>3, <2>1, <2>2, HandleOutReportTyped DEF LineTyped
<1> QED BY <1>2, <1>3 DEF Conclude

LEMMA HostStep ==
  ASSUME HostTyped, LineTyped, Host
  PROVE  HostTyped' /\ LineTyped'
<1>1. TYPE \in Byte /\ CONTROL_DATA \in Byte /\ STATUS \in Byte /\ 0 \in Byte /\ SilenceLimit \in Nat
  BY Types, Limits DEF Byte
<1>2. CASE Open
  <2>1. toAdapter' \in Seq(Packet) /\ toHost' \in Seq(Byte)
    BY <1>1, <1>2, SendTyped, EmptySeq DEF Open
  <2> QED BY <1>2, <2>1 DEF Open, HostTyped, LineTyped
<1>3. CASE ReadReply
  <2>1. payload' \in [Kept -> Byte] /\ toHost' \in Seq(Byte)
    BY <1>3, AvailableIs, ReadTyped DEF ReadReply
  <2>2. patience' \in {"left", "worn", "lapsed"} /\ length' = length
    BY <1>3 DEF ReadReply, HostTyped, Lapsed
  <2>3. CASE UNCHANGED <<at, knownSpoofed, silence, acted, toAdapter>>
    BY <2>1, <2>2, <2>3 DEF HostTyped, LineTyped
  <2>4. ASSUME NEW ok \in BOOLEAN, Conclude(ok) PROVE HostTyped' /\ LineTyped'
    BY <2>1, <2>2, <2>4, ConcludeTyped DEF HostTyped, LineTyped
  <2>5. (FrameLength = 0 \/ Available = Wanted.length) \in BOOLEAN
    OBVIOUS
  <2> QED BY <1>3, <2>3, <2>4, <2>5 DEF ReadReply
<1>4. CASE ReplyTimesOut
  <2>1. toHost' \in Seq(Byte) /\ payload' = payload /\ payload' \in [Kept -> Byte]
        /\ patience' \in {"left", "worn", "lapsed"} /\ length' = length /\ Conclude(FALSE)
    BY <1>4, EmptySeq DEF ReplyTimesOut, HostTyped, Lapsed
  <2>2. PICK no \in BOOLEAN : Conclude(no)
    BY <2>1
  <2> QED BY <2>1, <2>2, ConcludeTyped DEF HostTyped, LineTyped
<1>5. CASE PollSilence
  BY <1>5, NoDataTyped DEF PollSilence, HostTyped, LineTyped
<1>6. CASE PollHalfHeader
  BY <1>6, NoDataTyped, EmptySeq DEF PollHalfHeader, HostTyped, LineTyped, Lapsed
<1>7. CASE PollFrame
  <2>1. /\ payload' \in [Kept -> Byte] /\ toHost' \in Seq(Byte)
        /\ FrameLength \in Byte /\ length' \in Byte
    BY <1>7, AvailableIs, ReadTyped DEF PollFrame, HostTyped
  <2>2. patience' \in {"left", "worn", "lapsed"} /\ knownSpoofed' = knownSpoofed
    BY <1>7 DEF PollFrame, HostTyped, Lapsed
  <2>3. CASE HandleControlData(payload') /\ silence' = 0 /\ UNCHANGED <<at, acted>>
    <3>1. toAdapter' \in Seq(Packet)
      <4>1. payload'[5] \in Byte
        BY <2>1 DEF Kept
      <4> QED BY <1>1, <2>3, <4>1, SendTyped DEF HandleControlData, LineTyped
    <3>2. silence' \in 0..SilenceLimit
      BY <1>1, <2>3
    <3> QED BY <2>1, <2>2, <2>3, <3>1, <3>2 DEF HostTyped, LineTyped
  <2>4. CASE HandleOutReport(payload', FrameLength) /\ silence' = 0 /\ UNCHANGED <<at, toAdapter>>
    <3>1. silence' \in 0..SilenceLimit /\ acted' \in Seq(Byte \X Byte)
      BY <1>1, <2>1, <2>4, HandleOutReportTyped
    <3> QED BY <2>1, <2>2, <2>4, <3>1 DEF HostTyped, LineTyped
  <2>5. CASE at' = "status" /\ Send(STATUS, 0) /\ UNCHANGED <<silence, acted>>
    BY <1>1, <2>1, <2>2, <2>5, SendTyped DEF HostTyped, LineTyped
  <2>6. CASE NoData /\ UNCHANGED acted
    BY <2>1, <2>2, <2>6, NoDataTyped DEF HostTyped, LineTyped
  <2> QED BY <1>7, <2>3, <2>4, <2>5, <2>6 DEF PollFrame
<1> QED BY <1>2, <1>3, <1>4, <1>5, <1>6, <1>7 DEF Host

------------------------------------------------------------------------------
(* The firmware.                                                            *)

LEMMA ReplyTyped ==
  ASSUME LineTyped, NEW bytes \in Seq(Byte), Reply(bytes)
  PROVE  toHost' \in Seq(Byte)
BY ConcatProperties DEF Reply, LineTyped

LEMMA RebootTyped ==
  ASSUME FirmwareTyped, ConsoleTyped, NEW where \in {"off", "wait"}, Reboot(where), UNCHANGED <<answer, console>>
  PROVE  FirmwareTyped' /\ NoneAfterHandshake'
<1>1. <<>> \in Seq(Byte) /\ 0 \in Byte
  BY EmptySeq DEF Byte
<1>2. NoRequest \in [number : 0..console.maxRequests, value : {0, 91, 92}]
  BY Limits DEF NoRequest, ConsoleTyped
<1>3. /\ fw' = where /\ sending' = <<>> /\ request' = NoRequest /\ buf' = 0 /\ responses' = 0
      /\ answer' = answer /\ console' = console
  BY DEF Reboot
<1>4. spoofReply' \in BOOLEAN
  BY Zenon DEF Reboot
<1>5. FirmwareTyped'
  BY <1>1, <1>2, <1>3, <1>4 DEF FirmwareTyped, NoRequest
<1> QED BY <1>3, <1>5 DEF NoneAfterHandshake

LEMMA HandlePacketTyped ==
  ASSUME FirmwareTyped, LineTyped, ConsoleTyped, NoneAfterHandshake, UNCHANGED console,
         NEW p \in Packet, HandlePacket(p)
  PROVE  FirmwareTyped' /\ NoneAfterHandshake' /\ toHost' \in Seq(Byte)
<1>1. /\ TYPE \in Byte /\ STATUS \in Byte /\ START \in Byte /\ VERSION \in Byte /\ X360SK \in Byte
      /\ 0 \in Byte /\ 1 \in Byte /\ 2 \in Byte /\ 8 \in Byte /\ SpoofInitialized \in Byte
  BY Types DEF Byte, SpoofInitialized
<1>2. /\ <<TYPE, 1, X360SK>> \in Seq(Byte) /\ <<STATUS, 1, SpoofInitialized>> \in Seq(Byte)
      /\ <<VERSION, 2, 8, 1>> \in Seq(Byte) /\ <<START, 1, SpoofInitialized>> \in Seq(Byte)
  BY <1>1
<1>3. p.data \in Byte
  BY DEF Packet
<1>4. CASE UNCHANGED fwVars /\ \/ Reply(<<TYPE, 1, X360SK>>) \/ Reply(<<STATUS, 1, SpoofInitialized>>)
                               \/ Reply(<<VERSION, 2, 8, 1>>)
  BY <1>2, <1>4, ReplyTyped DEF fwVars, FirmwareTyped, NoneAfterHandshake
<1>5. CASE Reply(<<START, 1, SpoofInitialized>>) /\ fw' = "run"
           /\ UNCHANGED <<sending, request, spoofReply, buf, responses, answer>>
  BY <1>2, <1>5, ReplyTyped DEF FirmwareTyped, NoneAfterHandshake
<1>6. CASE spoofReply' = TRUE /\ buf' = p.data
           /\ UNCHANGED <<fw, sending, request, responses, answer, toHost>>
  BY <1>3, <1>6 DEF FirmwareTyped, LineTyped, NoneAfterHandshake
<1>7. CASE Reboot("wait") /\ UNCHANGED <<answer, toHost>>
  BY <1>7, RebootTyped DEF LineTyped
<1> QED BY <1>4, <1>5, <1>6, <1>7 DEF HandlePacket

LEMMA ConsoleStep ==
  ASSUME Typed, ~Host, Next
  PROVE  Typed'
<1>0. /\ console.maxRequests \in Nat /\ console.maxReports \in Nat /\ 0 \in 0..console.maxRequests
      /\ \A n \in 0..console.maxRequests : n \in Byte
      /\ \A n \in 0..console.maxReports : n \in Byte
  BY Limits DEF Typed, ConsoleTyped
<1>1. CASE ReceivePacket
  <2>1. Head(toAdapter) \in Packet /\ toAdapter' \in Seq(Packet)
    BY <1>1, HeadTailProperties DEF ReceivePacket, Typed, LineTyped
  <2>2. UNCHANGED <<hostVars, consoleVars, console>>
    BY <1>1 DEF ReceivePacket, consoleVars
  <2>3. CASE UNCHANGED <<fwVars, toHost>>
    BY <2>1, <2>2, <2>3 DEF Typed, HostTyped, LineTyped, FirmwareTyped, ConsoleTyped, NoneAfterHandshake,
                            hostVars, fwVars, consoleVars
  <2>4. CASE HandlePacket(Head(toAdapter))
    <3>1. FirmwareTyped' /\ NoneAfterHandshake' /\ toHost' \in Seq(Byte)
      BY <2>1, <2>2, <2>4, HandlePacketTyped DEF Typed
    <3> QED BY <2>1, <2>2, <3>1 DEF Typed, HostTyped, LineTyped, ConsoleTyped, hostVars, consoleVars
  <2> QED BY <1>1, <2>3, <2>4 DEF ReceivePacket
<1>2. ASSUME FirmwareTyped', NoneAfterHandshake', toHost' \in Seq(Byte),
             UNCHANGED <<hostVars, toAdapter, consoleVars>>
      PROVE  Typed'
  BY <1>2 DEF Typed, HostTyped, LineTyped, ConsoleTyped, hostVars, consoleVars
<1>3. CASE SendByte
  <2>1. <<Head(sending)>> \in Seq(Byte) /\ sending' \in Seq(Byte)
    BY <1>3, HeadTailProperties DEF SendByte, Typed, FirmwareTyped
  <2>2. toHost' \in Seq(Byte)
    BY <1>3, <2>1, ReplyTyped DEF SendByte, Typed
  <2>3. FirmwareTyped' /\ NoneAfterHandshake'
    BY <1>3, <2>1 DEF SendByte, Typed, FirmwareTyped, NoneAfterHandshake, consoleVars
  <2> QED BY <1>2, <1>3, <2>2, <2>3 DEF SendByte
<1>4. ASSUME NEW rumble \in BOOLEAN, ReceiveReport(rumble) PROVE Typed'
  <2>1. reports' \in 0..console.maxReports /\ reports' \in Byte
    <3>1. reports' \in 0..console.maxReports
      BY <1>0, <1>4 DEF ReceiveReport, Typed, ConsoleTyped
    <3> QED BY <1>0, <3>1
  <2>2. OUT_REPORT \in Byte /\ Right \in Byte /\ {0, 1, 3, 6, 8} \subseteq Byte
    BY Types DEF Byte
  <2>3. sending' \in Seq(Byte)
    BY <1>4, <2>1, <2>2 DEF ReceiveReport
  <2> QED BY <1>4, <2>1, <2>3 DEF ReceiveReport, Typed, HostTyped, LineTyped, FirmwareTyped, ConsoleTyped,
                                  NoneAfterHandshake, hostVars, lineVars
<1>5. ASSUME NEW kind \in Byte, NEW value \in Byte, NEW n \in Byte
      PROVE  Setup(kind, value, n) \in Seq(Byte)
  <2>1. {0, 1, 16, 23, 131} \subseteq Byte
    BY DEF Byte
  <2>2. (IF value = 92 THEN 16 ELSE 23) \in Byte
    BY <2>1
  <2> QED BY <2>1, <2>2 DEF Setup
<1>6. ASSUME requests < console.maxRequests, requests' = requests + 1
      PROVE  requests' \in 0..console.maxRequests /\ requests' \in Byte
  <2>1. requests' \in 0..console.maxRequests
    BY <1>0, <1>6 DEF Typed, ConsoleTyped
  <2> QED BY <1>0, <2>1
<1>7. CONTROL_DATA \in Byte /\ {0, 1, 8, 9, 65, 91, 92, 193} \subseteq Byte
  BY Types DEF Byte
<1>8. ASSUME NEW value \in {91, 92}, PassRequest(value) PROVE Typed'
  <2>1. requests' \in 0..console.maxRequests /\ requests' \in Byte
    BY <1>6, <1>8 DEF PassRequest
  <2>2. Setup(193, value, requests') \in Seq(Byte) /\ <<CONTROL_DATA, 8>> \in Seq(Byte)
    <3>1. 193 \in Byte /\ value \in Byte /\ 8 \in Byte
      BY <1>7
    <3> QED BY <1>5, <1>7, <2>1, <3>1
  <2>3. sending' \in Seq(Byte)
    BY <1>8, <2>2, ConcatProperties DEF PassRequest
  <2>4. request' \in [number : 0..console.maxRequests, value : {0, 91, 92}]
    BY <1>8, <2>1 DEF PassRequest
  <2>5. NoneAfterHandshake'
    BY <1>8 DEF PassRequest, NoneAfterHandshake, Spoofed, Typed, FirmwareTyped
  <2> QED BY <1>8, <2>1, <2>3, <2>4, <2>5 DEF PassRequest, Typed, HostTyped, LineTyped, FirmwareTyped,
                                  ConsoleTyped, hostVars, lineVars
<1>9. CASE PassData
  <2>1. requests' \in 0..console.maxRequests /\ requests' \in Byte
    BY <1>6, <1>9 DEF PassData
  <2>2. /\ Setup(65, 0, requests') \in Seq(Byte) /\ <<CONTROL_DATA, 9>> \in Seq(Byte)
        /\ <<1>> \in Seq(Byte)
    BY <1>5, <1>7, <2>1
  <2>3. sending' \in Seq(Byte)
    BY <1>9, <2>2, ConcatProperties DEF PassData
  <2> QED BY <1>9, <2>1, <2>3 DEF PassData, Typed, HostTyped, LineTyped, FirmwareTyped, ConsoleTyped,
                                  NoneAfterHandshake, hostVars, lineVars
<1>10. CASE AnswerRequest
  <2>1. responses' \in 0..2
    BY <1>10 DEF AnswerRequest, Typed, FirmwareTyped, NoneAfterHandshake
  <2>2. answer' \in (0..console.maxRequests) \X Byte
    BY <1>10 DEF AnswerRequest, Typed, FirmwareTyped
  <2>3. NoRequest \in [number : 0..console.maxRequests, value : {0, 91, 92}]
    BY <1>0 DEF NoRequest
  <2>4. FirmwareTyped' /\ NoneAfterHandshake'
    BY <1>10, <2>1, <2>2, <2>3 DEF AnswerRequest, Typed, FirmwareTyped, NoneAfterHandshake, consoleVars
  <2> QED BY <1>2, <1>10, <2>4 DEF AnswerRequest, lineVars, Typed, LineTyped
<1>11. ASSUME NEW where \in {"off", "wait"}, Reboot(where), UNCHANGED <<hostVars, answer, lineVars, consoleVars>>
       PROVE  Typed'
  <2>1. FirmwareTyped' /\ NoneAfterHandshake'
    BY <1>11, RebootTyped DEF Typed, consoleVars
  <2> QED BY <1>2, <1>11, <2>1 DEF lineVars, Typed, LineTyped
<1>12. CASE ResetByConsole \/ PowerOff \/ PowerOn
  BY <1>11, <1>12 DEF ResetByConsole, PowerOff, PowerOn
<1>13. CASE WearOut
  BY <1>13 DEF WearOut, Typed, HostTyped, LineTyped, FirmwareTyped, ConsoleTyped, NoneAfterHandshake,
               fwVars, lineVars, consoleVars
<1> QED BY <1>1, <1>3, <1>4, <1>8, <1>9, <1>10, <1>12, <1>13 DEF Next

LEMMA TypedStep == Typed /\ [Next]_vars => Typed'
<1> SUFFICES ASSUME Typed, [Next]_vars PROVE Typed'
  OBVIOUS
<1>1. CASE Host
  <2>1. HostTyped' /\ LineTyped'
    BY <1>1, HostStep DEF Typed
  <2>2. UNCHANGED <<fwVars, consoleVars>>
    BY <1>1 DEF Host, Open, ReadReply, ReplyTimesOut, PollSilence, PollHalfHeader, PollFrame
  <2> QED BY <2>1, <2>2 DEF Typed, FirmwareTyped, ConsoleTyped, NoneAfterHandshake, fwVars, consoleVars
<1>2. CASE UNCHANGED vars
  BY <1>2 DEF vars, hostVars, fwVars, lineVars, consoleVars, Typed, HostTyped, LineTyped, FirmwareTyped,
              ConsoleTyped, NoneAfterHandshake
<1> QED BY <1>1, <1>2, ConsoleStep

\* Every variable keeps its type, whatever the buffers held at first and however often the
\* power goes: no byte is read that was not sent, and a third response never comes.
THEOREM TypeCorrect == Spec => []TypeOK
<1>1. Typed => TypeOK
  BY TypeParts DEF Typed
<1> QED BY <1>1, TypesStart, TypedStep, PTL DEF Spec

------------------------------------------------------------------------------
(* In step: while the power stays, m_timeout lasts and the console waits for   *)
(* the line to be at rest, host and firmware speak in turn, one packet or one  *)
(* frame at a time.                                                            *)

\* The one packet on its way: what the host asks where it is.
Asks(p) ==
  \/ at = "closed" /\ p.type = RESET
  \/ at = "type" /\ p.type = TYPE
  \/ at = "version" /\ p.type = VERSION
  \/ at = "status" /\ p.type = STATUS
  \/ at = "poll" /\ p.type = START
  \/ at = "poll" /\ p.type = CONTROL_DATA /\ (request # NoRequest => p.data = request.number)

\* A report the host has not acted on.
Fresh(n) == n \in 1..reports /\ \A i \in 1..Len(acted) : acted[i][1] < n

\* The one frame on its way: the reply to what was asked, or what the console sends.
Tells(f) ==
  /\ Len(f) >= 3 /\ Len(f) = 2 + f[2]
  /\ \/ Waiting /\ f[1] = Wanted.type /\ f[2] = Wanted.length
     \/ at = "poll"
  /\ f[1] = CONTROL_DATA =>
       f[2] >= 8 /\ (f[3] >= 128 /\ request # NoRequest => f[7] = request.number)
  /\ f[1] = OUT_REPORT /\ f[2] = 8 => Fresh(f[6]) /\ f[7] = Right

AtEase == toAdapter = <<>> /\ toHost = <<>> /\ sending = <<>> /\ at \in {"closed", "poll"}
Asking == \E p \in Packet : toAdapter = <<p>> /\ toHost = <<>> /\ sending = <<>> /\ Asks(p)
Telling == \E f \in Seq(Byte) : toAdapter = <<>> /\ toHost \o sending = f /\ Tells(f)
Alternate == patience = "left" /\ fw # "off" /\ (AtEase \/ Asking \/ Telling)

\* The reply the firmware has is to the request it waits for.
ReplyOwn == spoofReply /\ request # NoRequest => buf = request.number

\* The report that made the host ask for the status is still in the buffer.
ReportKept == at = "status" /\ length = 8 => Fresh(payload[4]) /\ payload[5] = Right

ActedOnce ==
  \A i \in 1..Len(acted) :
    /\ acted[i][1] \in 1..reports /\ acted[i][2] = Right
    /\ \A j \in 1..(i - 1) : acted[j][1] < acted[i][1]

InStep == Alternate /\ ReplyOwn /\ ReportKept /\ ActedOnce /\ answer[1] = answer[2]

LEMMA InStepStart == Init /\ Undisturbed => InStep
<1> SUFFICES ASSUME Init, Undisturbed PROVE InStep
  OBVIOUS
<1>1. patience = "left"
  BY Zenon DEF Init
<1>2. fw = "wait" /\ AtEase
  BY DEF Init, AtEase, Undisturbed
<1>3. request = NoRequest /\ acted = <<>> /\ at = "closed" /\ answer = <<0, 0>>
  BY DEF Init
<1>4. ReplyOwn /\ ReportKept
  BY <1>3 DEF ReplyOwn, ReportKept
<1>5. ActedOnce /\ answer[1] = answer[2]
  BY <1>3 DEF ActedOnce
<1> QED BY <1>1, <1>2, <1>4, <1>5 DEF InStep, Alternate

------------------------------------------------------------------------------
(* The host never gives up, and never reads before the frame is whole.      *)

LEMMA HostReads ==
  ASSUME Typed, Alternate, Host
  PROVE  AtEase \/ (sending = <<>> /\ toAdapter = <<>> /\ toHost # <<>> /\ Tells(toHost))
<1>1. /\ toHost \in Seq(Byte) /\ sending \in Seq(Byte) /\ toAdapter \in Seq(Packet)
      /\ Len(toHost) \in Nat /\ Len(sending) \in Nat
  BY DEF Typed, LineTyped, FirmwareTyped
<1>2. ASSUME OnItsWay PROVE ~MayLapse
  BY <1>2, Zenon DEF MayLapse, Alternate
<1>3. CASE Asking
  <2>1. PICK p \in Packet : toAdapter = <<p>> /\ toHost = <<>> /\ sending = <<>> /\ Asks(p)
    BY <1>3 DEF Asking
  <2>2. OnItsWay
    BY <2>1 DEF OnItsWay, Alternate
  <2>3. Len(toHost) = 0 /\ toAdapter # <<>>
    BY <2>1
  <2>4. ~Open /\ ~ReplyTimesOut /\ ~PollSilence
    BY <1>2, <2>2, <2>3 DEF Open, ReplyTimesOut, PollSilence
  <2>5. ~ReadReply /\ ~PollHalfHeader /\ ~PollFrame
    BY <2>3 DEF ReadReply, PollHalfHeader, PollFrame
  <2> QED BY <2>4, <2>5 DEF Host
<1>4. CASE Telling
  <2>1. PICK f \in Seq(Byte) : toAdapter = <<>> /\ toHost \o sending = f /\ Tells(f)
    BY <1>4 DEF Telling
  <2>2. at # "closed"
    BY <2>1 DEF Tells, Waiting
  <2>3. CASE sending # <<>>
    <3>1. OnItsWay /\ ~MayLapse
      BY <1>2, <2>3 DEF OnItsWay
    <3>2. Len(f) = Len(toHost) + Len(sending) /\ Len(sending) > 0
      BY <1>1, <2>1, <2>3, ConcatProperties, EmptySeq
    <3>3. ASSUME Len(toHost) >= 2 PROVE ~FrameComplete
      <4>1. 2 \in 1..Len(toHost)
        BY <1>1, <3>3
      <4>2. f[2] = toHost[2]
        BY <1>1, <2>1, <4>1, ConcatProperties
      <4>3. toHost[2] \in Byte
        BY <1>1, <4>1, ElementOfSeq
      <4> QED BY <1>1, <2>1, <3>2, <4>2, <4>3 DEF Tells, FrameComplete, FrameLength, Byte
    <3> QED BY <2>2, <3>1, <3>3 DEF Host, Open, ReadReply, ReplyTimesOut, PollSilence, PollHalfHeader, PollFrame
  <2>4. CASE sending = <<>>
    <3>1. toHost \o sending = toHost
      BY <1>1, <2>4, ConcatEmptySeq
    <3>2. Len(toHost) >= 3
      BY <2>1, <3>1 DEF Tells
    <3> QED BY <2>1, <2>4, <3>1, <3>2, EmptySeq
  <2> QED BY <2>3, <2>4
<1> QED BY <1>3, <1>4 DEF Alternate

LEMMA WholeFrame ==
  ASSUME LineTyped, HostTyped, Tells(toHost)
  PROVE  /\ Len(toHost) >= 3 /\ FrameComplete /\ FrameLength \in Nat /\ FrameLength > 0
         /\ Available = FrameLength /\ ~MayLapse
         /\ ReadPayload(Available) =>
              toHost' = <<>> /\ \A i \in Kept : payload'[i] = IF i <= FrameLength THEN toHost[2 + i] ELSE payload[i]
<1>1. toHost \in Seq(Byte) /\ Len(toHost) \in Nat
  BY DEF LineTyped
<1>2. Len(toHost) >= 3 /\ Len(toHost) = 2 + toHost[2]
  BY DEF Tells
<1>3. FrameLength \in Nat
  BY <1>2, AvailableIs
<1>4. FrameComplete /\ FrameLength > 0
  BY <1>1, <1>2, <1>3 DEF FrameComplete, FrameLength
<1>5. Available = FrameLength /\ ~MayLapse
  BY <1>4 DEF Available, MayLapse
<1>6. SubSeq(toHost, 3 + FrameLength, Len(toHost)) = <<>>
  BY <1>1, <1>2, <1>3, SubSeqProperties, EmptySeq DEF FrameLength
<1> QED BY <1>2, <1>3, <1>4, <1>5, <1>6 DEF ReadPayload

------------------------------------------------------------------------------
(* The host's steps.                                                        *)

LEMMA SendsFirst ==
  ASSUME toAdapter = <<>>, NEW type \in Byte, NEW data \in Byte, Send(type, data)
  PROVE  /\ [type |-> type, data |-> data] \in Packet
         /\ toAdapter' = <<[type |-> type, data |-> data]>>
BY DEF Send, Packet

LEMMA ClosedAsks ==
  ASSUME toAdapter = <<>>, toHost' = <<>>, sending' = <<>>, Close
  PROVE  Asking' /\ at' = "closed"
<1>1. RESET \in Byte /\ 0 \in Byte
  BY Types DEF Byte
<1>2. PICK p \in Packet : toAdapter' = <<p>> /\ p.type = RESET
  BY <1>1, SendsFirst DEF Close
<1> QED BY <1>2 DEF Close, Asking, Asks

LEMMA NoDataAsks ==
  ASSUME toAdapter = <<>>, toHost' = <<>>, sending' = <<>>, at = "poll", NoData
  PROVE  (AtEase' \/ Asking') /\ at' # "status"
<1>1. CASE Close
  BY <1>1, ClosedAsks
<1>2. CASE UNCHANGED <<at, toAdapter>>
  BY <1>2 DEF AtEase
<1> QED BY <1>1, <1>2 DEF NoData

LEMMA ActsOnce ==
  ASSUME HostTyped, ActedOnce, reports' = reports, NEW p \in [Kept -> Byte], NEW len,
         len = 8 => Fresh(p[4]) /\ p[5] = Right,
         HandleOutReport(p, len)
  PROVE  ActedOnce'
<1>1. CASE acted' = acted
  BY <1>1 DEF ActedOnce
<1>2. CASE len = 8 /\ acted' = Append(acted, <<p[4], p[5]>>)
  <2>1. acted \in Seq(Byte \X Byte) /\ Len(acted) \in Nat
    BY DEF HostTyped
  <2>2. <<p[4], p[5]>> \in Byte \X Byte
    BY DEF Kept
  <2>3. /\ Len(acted') = Len(acted) + 1
        /\ \A i \in 1..Len(acted) : acted'[i] = acted[i]
        /\ acted'[Len(acted) + 1] = <<p[4], p[5]>>
    BY <1>2, <2>1, <2>2
  <2>4. SUFFICES ASSUME NEW i \in 1..Len(acted')
                 PROVE  /\ acted'[i][1] \in 1..reports /\ acted'[i][2] = Right
                        /\ \A j \in 1..(i - 1) : acted'[j][1] < acted'[i][1]
    BY DEF ActedOnce
  <2>5. CASE i \in 1..Len(acted)
    <3>1. \A j \in 1..(i - 1) : j \in 1..Len(acted)
      BY <2>1, <2>5
    <3> QED BY <2>3, <2>5, <3>1 DEF ActedOnce
  <2>6. CASE i = Len(acted) + 1
    <3>1. \A j \in 1..(i - 1) : j \in 1..Len(acted)
      BY <2>1, <2>6
    <3> QED BY <1>2, <2>3, <2>6, <3>1 DEF Fresh
  <2> QED BY <2>1, <2>3, <2>5, <2>6
<1> QED BY <1>1, <1>2 DEF HandleOutReport

\* What is left to show of a step of the host.
LEMMA HostKeeps ==
  ASSUME InStep, UNCHANGED <<fwVars, consoleVars>>, patience' = "left", AtEase' \/ Asking', ReportKept', ActedOnce'
  PROVE  InStep'
BY DEF InStep, Alternate, ReplyOwn, fwVars, consoleVars

LEMMA ReadReplyInStep ==
  ASSUME Typed, Typed', InStep, ReadReply, Tells(toHost), toAdapter = <<>>, sending = <<>>
  PROVE  InStep'
<1>1. /\ Len(toHost) >= 3 /\ FrameComplete /\ FrameLength \in Nat /\ FrameLength > 0
      /\ Available = FrameLength /\ ReadPayload(Available)
      /\ toHost' = <<>> /\ \A i \in Kept : payload'[i] = IF i <= FrameLength THEN toHost[2 + i] ELSE payload[i]
  BY WholeFrame DEF ReadReply, Typed
<1>2. /\ patience' = "left" /\ UNCHANGED <<fwVars, consoleVars, length>> /\ sending' = <<>> /\ reports' = reports
  BY <1>1 DEF ReadReply, InStep, Alternate, fwVars, consoleVars
<1>3. Waiting /\ at # "poll" /\ toHost[1] = Wanted.type /\ FrameLength = Wanted.length
  BY DEF ReadReply, Waiting, Tells, FrameLength
<1>4. Conclude(TRUE)
  BY <1>1, <1>3, Zenon DEF ReadReply
<1>5. VERSION \in Byte /\ START \in Byte /\ 0 \in Byte
  BY Types DEF Byte
<1>6. CASE at = "type"
  <2>1. acted' = acted /\ (Close \/ (at' = "version" /\ Send(VERSION, 0)))
    BY <1>4, <1>6 DEF Conclude
  <2>2. ASSUME at' = "version", Send(VERSION, 0) PROVE Asking'
    <3>1. PICK p \in Packet : toAdapter' = <<p>> /\ p.type = VERSION
      BY <1>5, <2>2, SendsFirst
    <3> QED BY <1>1, <1>2, <2>2, <3>1 DEF Asking, Asks
  <2>3. Asking' /\ at' # "status"
    BY <1>1, <1>2, <2>1, <2>2, ClosedAsks
  <2> QED BY <1>2, <2>1, <2>3, HostKeeps DEF InStep, ReportKept, ActedOnce
<1>7. CASE at = "version"
  <2>1. acted' = acted /\ at' = "poll" /\ Send(START, 0)
    BY <1>4, <1>7 DEF Conclude
  <2>2. PICK p \in Packet : toAdapter' = <<p>> /\ p.type = START
    BY <1>5, <2>1, SendsFirst
  <2>3. Asking'
    BY <1>1, <1>2, <2>1, <2>2 DEF Asking, Asks
  <2> QED BY <1>2, <2>1, <2>3, HostKeeps DEF InStep, ReportKept, ActedOnce
<1>8. CASE at = "status"
  <2>1. HandleOutReport(payload', length) /\ at' = "poll" /\ toAdapter' = <<>>
    BY <1>4, <1>8 DEF Conclude
  <2>2. payload'[4] = payload[4] /\ payload'[5] = payload[5]
    BY <1>1, <1>3, <1>8 DEF Wanted, Kept
  <2>3. payload' \in [Kept -> Byte]
    BY DEF Typed, HostTyped
  <2>4. ActedOnce'
    BY <1>2, <1>8, <2>1, <2>2, <2>3, ActsOnce DEF InStep, ReportKept, Typed
  <2> QED BY <1>1, <1>2, <2>1, <2>4, HostKeeps DEF AtEase, ReportKept
<1> QED BY <1>3, <1>6, <1>7, <1>8 DEF Waiting

LEMMA PollFrameInStep ==
  ASSUME Typed, Typed', InStep, PollFrame, Tells(toHost), toAdapter = <<>>, sending = <<>>
  PROVE  InStep'
<1>1. /\ Len(toHost) >= 3 /\ FrameComplete /\ FrameLength \in Nat /\ FrameLength > 0
      /\ Available = FrameLength /\ ReadPayload(Available)
      /\ toHost' = <<>> /\ \A i \in Kept : payload'[i] = IF i <= FrameLength THEN toHost[2 + i] ELSE payload[i]
  BY WholeFrame DEF PollFrame, Typed
<1>2. /\ patience' = "left" /\ UNCHANGED <<fwVars, consoleVars>> /\ sending' = <<>>
      /\ reports' = reports /\ request' = request
  BY <1>1 DEF PollFrame, InStep, Alternate, fwVars, consoleVars
<1>3. at = "poll" /\ length' = FrameLength /\ payload' \in [Kept -> Byte]
  BY <1>1 DEF PollFrame, Typed, HostTyped
<1>4. STATUS \in Byte /\ 0 \in Byte /\ CONTROL_DATA \in Byte
  BY Types DEF Byte
<1>5. CASE toHost[1] = CONTROL_DATA /\ HandleControlData(payload') /\ UNCHANGED <<at, acted>>
  <2>1. payload'[1] = toHost[3] /\ payload'[5] = toHost[7] /\ payload'[5] \in Byte
    BY <1>1, <1>3, <1>5 DEF Tells, Kept, FrameLength
  <2>2. CASE UNCHANGED toAdapter
    <3>1. AtEase'
      BY <1>1, <1>2, <1>3, <1>5, <2>2 DEF AtEase
    <3> QED BY <1>2, <1>3, <1>5, <3>1, HostKeeps DEF InStep, ReportKept, ActedOnce
  <2>3. CASE payload'[1] >= 128 /\ Send(CONTROL_DATA, payload'[5])
    <3>1. PICK p \in Packet : toAdapter' = <<p>> /\ p.type = CONTROL_DATA /\ p.data = payload'[5]
      BY <1>4, <2>1, <2>3, SendsFirst
    <3>2. request # NoRequest => p.data = request.number
      BY <1>5, <2>1, <2>3, <3>1 DEF Tells
    <3>3. Asking'
      BY <1>1, <1>2, <1>3, <1>5, <3>1, <3>2 DEF Asking, Asks, NoRequest
    <3> QED BY <1>2, <1>3, <1>5, <3>3, HostKeeps DEF InStep, ReportKept, ActedOnce
  <2> QED BY <1>5, <2>2, <2>3 DEF HandleControlData
<1>6. CASE toHost[1] = OUT_REPORT /\ HandleOutReport(payload', FrameLength) /\ UNCHANGED <<at, toAdapter>>
  <2>1. ASSUME FrameLength = 8 PROVE Fresh(payload'[4]) /\ payload'[5] = Right
    BY <1>1, <1>6, <2>1 DEF Tells, Kept, FrameLength
  <2>2. ActedOnce'
    BY <1>2, <1>3, <1>6, <2>1, ActsOnce DEF InStep, Typed
  <2>3. AtEase'
    BY <1>1, <1>2, <1>3, <1>6 DEF AtEase
  <2> QED BY <1>2, <1>3, <1>6, <2>2, <2>3, HostKeeps DEF ReportKept
<1>7. CASE toHost[1] = OUT_REPORT /\ at' = "status" /\ Send(STATUS, 0) /\ UNCHANGED acted
  <2>1. ASSUME FrameLength = 8 PROVE Fresh(payload'[4]) /\ payload'[5] = Right
    BY <1>1, <1>7, <2>1 DEF Tells, Kept, FrameLength
  <2>2. ReportKept'
    BY <1>2, <1>3, <1>7, <2>1 DEF ReportKept, Fresh
  <2>3. PICK p \in Packet : toAdapter' = <<p>> /\ p.type = STATUS
    BY <1>4, <1>7, SendsFirst
  <2>4. Asking'
    BY <1>1, <1>2, <1>7, <2>3 DEF Asking, Asks
  <2> QED BY <1>2, <1>7, <2>2, <2>4, HostKeeps DEF InStep, ActedOnce
<1>8. CASE NoData /\ UNCHANGED acted
  <2>1. (AtEase' \/ Asking') /\ at' # "status"
    BY <1>1, <1>2, <1>3, <1>8, NoDataAsks
  <2> QED BY <1>2, <1>8, <2>1, HostKeeps DEF InStep, ReportKept, ActedOnce
<1> QED BY <1>5, <1>6, <1>7, <1>8 DEF PollFrame

LEMMA HostInStep ==
  ASSUME Typed, Typed', InStep, Host
  PROVE  InStep'
<1>1. CASE AtEase
  <2>1. Len(toHost) = 0 /\ ~Waiting /\ toAdapter = <<>> /\ toHost = <<>> /\ sending = <<>>
    BY <1>1 DEF AtEase, Waiting
  <2>2. CASE Open
    <3>1. TYPE \in Byte /\ 0 \in Byte
      BY Types DEF Byte
    <3>2. PICK p \in Packet : toAdapter' = <<p>> /\ p.type = TYPE
      BY <2>1, <2>2, <3>1, SendsFirst DEF Open
    <3>3. Asking'
      BY <2>1, <2>2, <3>2 DEF Open, Asking, Asks, fwVars
    <3> QED BY <2>2, <3>3, HostKeeps DEF Open, InStep, Alternate, ReportKept, ActedOnce, consoleVars
  <2>3. CASE PollSilence
    <3>1. UNCHANGED <<patience, acted, toHost, fwVars, consoleVars>> /\ at = "poll" /\ NoData
      BY <2>3 DEF PollSilence
    <3>2. (AtEase' \/ Asking') /\ at' # "status"
      BY <2>1, <3>1, NoDataAsks DEF fwVars
    <3> QED BY <3>1, <3>2, HostKeeps DEF InStep, Alternate, ReportKept, ActedOnce, consoleVars
  <2>4. ~ReadReply /\ ~ReplyTimesOut
    BY <2>1 DEF ReadReply, ReplyTimesOut
  <2>5. ~PollHalfHeader /\ ~PollFrame
    BY <2>1 DEF PollHalfHeader, PollFrame
  <2> QED BY <2>2, <2>3, <2>4, <2>5 DEF Host
<1>2. CASE sending = <<>> /\ toAdapter = <<>> /\ toHost # <<>> /\ Tells(toHost)
  <2>1. Len(toHost) >= 3 /\ at # "closed"
    BY <1>2 DEF Tells, Waiting
  <2>2. ~MayLapse
    BY <1>2, WholeFrame DEF Typed
  <2>3. CASE ReadReply
    BY <1>2, <2>3, ReadReplyInStep
  <2>4. CASE PollFrame
    BY <1>2, <2>4, PollFrameInStep
  <2> QED BY <1>2, <2>1, <2>2, <2>3, <2>4 DEF Host, Open, ReplyTimesOut, PollSilence, PollHalfHeader
<1> QED BY <1>1, <1>2, HostReads DEF InStep

------------------------------------------------------------------------------
(* The firmware's steps and the console's.                                  *)

\* A reply to what the host asked is the one frame on the line.
LEMMA ReplyTells ==
  ASSUME at # "closed", UNCHANGED <<at, request>>, toHost = <<>>, sending' = <<>>, toAdapter' = <<>>,
         NEW f \in Seq(Byte), Reply(f),
         Len(f) >= 3, Len(f) = 2 + f[2], f[1] \notin {CONTROL_DATA, OUT_REPORT},
         at = "poll" \/ (Waiting /\ f[1] = Wanted.type /\ f[2] = Wanted.length)
  PROVE  Telling'
<1>1. toHost' = f /\ f \o <<>> = f
  BY ConcatEmptySeq DEF Reply
<1>2. Waiting' = Waiting /\ (Waiting => Wanted' = Wanted)
  BY DEF Waiting, Wanted
<1>3. Tells(f)'
  BY <1>2 DEF Tells
<1> QED BY <1>1, <1>3 DEF Telling

LEMMA ReceivePacketInStep ==
  ASSUME Typed, InStep, ReceivePacket
  PROVE  InStep'
<1>1. PICK p \in Packet : toAdapter = <<p>> /\ toHost = <<>> /\ sending = <<>> /\ Asks(p)
  BY DEF ReceivePacket, InStep, Alternate, AtEase, Asking, Telling
<1>2. /\ toAdapter' = <<>> /\ HandlePacket(p) /\ UNCHANGED <<hostVars, consoleVars>>
  BY <1>1 DEF ReceivePacket, InStep, Alternate
<1>3. /\ UNCHANGED <<at, payload, length, patience, acted, reports>> /\ patience' = "left"
  BY <1>2 DEF hostVars, consoleVars, InStep, Alternate
<1>4. ReportKept' /\ ActedOnce'
  BY <1>3 DEF InStep, ReportKept, ActedOnce, Fresh
<1>5. /\ TYPE \in Byte /\ STATUS \in Byte /\ START \in Byte /\ VERSION \in Byte /\ X360SK \in Byte
      /\ 0 \in Byte /\ 1 \in Byte /\ 2 \in Byte /\ 8 \in Byte /\ SpoofInitialized \in Byte
  BY Types DEF Byte, SpoofInitialized
<1>6. ASSUME UNCHANGED <<sending, request, spoofReply, buf, answer>>, fw' # "off",
             at # "closed", NEW f \in Seq(Byte), Reply(f),
             Len(f) >= 3, Len(f) = 2 + f[2], f[1] \notin {CONTROL_DATA, OUT_REPORT},
             at = "poll" \/ (Waiting /\ f[1] = Wanted.type /\ f[2] = Wanted.length)
      PROVE  InStep'
  <2>1. Telling'
    BY <1>1, <1>2, <1>3, <1>6, ReplyTells
  <2> QED BY <1>3, <1>4, <1>6, <2>1 DEF InStep, Alternate, ReplyOwn
<1>7. CASE p.type = TYPE /\ Reply(<<TYPE, 1, X360SK>>) /\ UNCHANGED fwVars
  <2>1. at = "type"
    BY <1>1, <1>7 DEF Asks, TYPE, RESET, VERSION, STATUS, START, CONTROL_DATA
  <2> DEFINE f == <<TYPE, 1, X360SK>>
  <2>2. f \in Seq(Byte) /\ Len(f) >= 3 /\ Len(f) = 2 + f[2] /\ f[1] = TYPE /\ f[2] = 1 /\ Reply(f)
    BY <1>5, <1>7
  <2>3. Waiting /\ Wanted.type = TYPE /\ Wanted.length = 1
    BY <2>1 DEF Waiting, Wanted
  <2>4. TYPE \notin {CONTROL_DATA, OUT_REPORT}
    BY DEF TYPE, CONTROL_DATA, OUT_REPORT
  <2>5. UNCHANGED <<sending, request, spoofReply, buf, answer>> /\ fw' # "off" /\ at # "closed"
    BY <1>7, <2>1 DEF fwVars, InStep, Alternate
  <2> HIDE DEF f
  <2> QED BY <1>6, <2>2, <2>3, <2>4, <2>5, Zenon
<1>8. CASE p.type = STATUS /\ Reply(<<STATUS, 1, SpoofInitialized>>) /\ UNCHANGED fwVars
  <2>1. at = "status"
    BY <1>1, <1>8 DEF Asks, TYPE, RESET, VERSION, STATUS, START, CONTROL_DATA
  <2> DEFINE f == <<STATUS, 1, SpoofInitialized>>
  <2>2. f \in Seq(Byte) /\ Len(f) >= 3 /\ Len(f) = 2 + f[2] /\ f[1] = STATUS /\ f[2] = 1 /\ Reply(f)
    BY <1>5, <1>8
  <2>3. Waiting /\ Wanted.type = STATUS /\ Wanted.length = 1
    BY <2>1 DEF Waiting, Wanted
  <2>4. STATUS \notin {CONTROL_DATA, OUT_REPORT}
    BY DEF STATUS, CONTROL_DATA, OUT_REPORT
  <2>5. UNCHANGED <<sending, request, spoofReply, buf, answer>> /\ fw' # "off" /\ at # "closed"
    BY <1>8, <2>1 DEF fwVars, InStep, Alternate
  <2> HIDE DEF f
  <2> QED BY <1>6, <2>2, <2>3, <2>4, <2>5, Zenon
<1>9. CASE p.type = VERSION /\ Reply(<<VERSION, 2, 8, 1>>) /\ UNCHANGED fwVars
  <2>1. at = "version"
    BY <1>1, <1>9 DEF Asks, TYPE, RESET, VERSION, STATUS, START, CONTROL_DATA
  <2> DEFINE f == <<VERSION, 2, 8, 1>>
  <2>2. f \in Seq(Byte) /\ Len(f) >= 3 /\ Len(f) = 2 + f[2] /\ f[1] = VERSION /\ f[2] = 2 /\ Reply(f)
    BY <1>5, <1>9
  <2>3. Waiting /\ Wanted.type = VERSION /\ Wanted.length = 2
    BY <2>1 DEF Waiting, Wanted
  <2>4. VERSION \notin {CONTROL_DATA, OUT_REPORT}
    BY DEF VERSION, CONTROL_DATA, OUT_REPORT
  <2>5. UNCHANGED <<sending, request, spoofReply, buf, answer>> /\ fw' # "off" /\ at # "closed"
    BY <1>9, <2>1 DEF fwVars, InStep, Alternate
  <2> HIDE DEF f
  <2> QED BY <1>6, <2>2, <2>3, <2>4, <2>5, Zenon
<1>10. CASE /\ p.type = START /\ Reply(<<START, 1, SpoofInitialized>>) /\ fw' = "run"
            /\ UNCHANGED <<sending, request, spoofReply, buf, responses, answer>>
  <2>1. at = "poll"
    BY <1>1, <1>10 DEF Asks, TYPE, RESET, VERSION, STATUS, START, CONTROL_DATA
  <2> DEFINE f == <<START, 1, SpoofInitialized>>
  <2>2. f \in Seq(Byte) /\ Len(f) >= 3 /\ Len(f) = 2 + f[2] /\ f[1] = START /\ Reply(f)
    BY <1>5, <1>10
  <2>3. START \notin {CONTROL_DATA, OUT_REPORT}
    BY DEF START, CONTROL_DATA, OUT_REPORT
  <2>4. UNCHANGED <<sending, request, spoofReply, buf, answer>> /\ fw' # "off" /\ at # "closed"
    BY <1>10, <2>1
  <2> HIDE DEF f
  <2> QED BY <1>6, <2>1, <2>2, <2>3, <2>4, Zenon
<1>11. CASE /\ p.type = CONTROL_DATA /\ spoofReply' = TRUE /\ buf' = p.data
            /\ UNCHANGED <<fw, sending, request, responses, answer, toHost>>
  <2>1. at = "poll" /\ (request # NoRequest => p.data = request.number)
    BY <1>1, <1>11 DEF Asks, TYPE, RESET, VERSION, STATUS, START, CONTROL_DATA
  <2>2. AtEase' /\ ReplyOwn'
    BY <1>1, <1>2, <1>3, <1>11, <2>1 DEF AtEase, ReplyOwn, NoRequest
  <2> QED BY <1>3, <1>4, <1>11, <2>2 DEF InStep, Alternate
<1>12. CASE p.type = RESET /\ Reboot("wait") /\ UNCHANGED <<answer, toHost>>
  <2>1. at = "closed"
    BY <1>1, <1>12 DEF Asks, TYPE, RESET, VERSION, STATUS, START, CONTROL_DATA
  <2>2. fw' = "wait" /\ sending' = <<>> /\ request' = NoRequest
    BY <1>12 DEF Reboot
  <2>3. AtEase' /\ ReplyOwn'
    BY <1>1, <1>2, <1>3, <1>12, <2>1, <2>2 DEF AtEase, ReplyOwn, NoRequest
  <2> QED BY <1>3, <1>4, <1>12, <2>2, <2>3 DEF InStep, Alternate
<1> QED BY <1>2, <1>7, <1>8, <1>9, <1>10, <1>11, <1>12 DEF HandlePacket

LEMMA SendByteInStep ==
  ASSUME Typed, InStep, SendByte
  PROVE  InStep'
<1>1. PICK f \in Seq(Byte) : toAdapter = <<>> /\ toHost \o sending = f /\ Tells(f)
  BY DEF SendByte, InStep, Alternate, AtEase, Asking, Telling
<1>2. at # "closed" /\ toHost' = toHost \o <<Head(sending)>> /\ sending' = Tail(sending)
  BY <1>1 DEF SendByte, Reply, Tells, Waiting
<1>3. toHost' \o sending' = f
  <2>1. toHost \in Seq(Byte) /\ sending \in Seq(Byte) /\ sending # <<>>
    BY DEF SendByte, Typed, LineTyped, FirmwareTyped
  <2>2. Head(sending) \in Byte /\ Tail(sending) \in Seq(Byte) /\ <<Head(sending)>> \in Seq(Byte)
    BY <2>1, HeadTailProperties
  <2>3. sending = <<Head(sending)>> \o Tail(sending)
    BY <2>1
  <2>4. (toHost \o <<Head(sending)>>) \o Tail(sending) = toHost \o (<<Head(sending)>> \o Tail(sending))
    BY <2>1, <2>2, ConcatAssociative
  <2> QED BY <1>1, <1>2, <2>3, <2>4
<1>4. /\ UNCHANGED <<at, payload, length, patience, acted, reports, fw, request, spoofReply, buf, answer, toAdapter>>
  BY DEF SendByte, hostVars, consoleVars
<1>5. Waiting' = Waiting /\ (Waiting => Wanted' = Wanted)
  BY <1>4 DEF Waiting, Wanted
<1>6. Tells(f)'
  BY <1>1, <1>4, <1>5 DEF Tells, Fresh, NoRequest
<1>7. Telling'
  BY <1>1, <1>3, <1>4, <1>6 DEF Telling
<1> QED BY <1>4, <1>7 DEF InStep, Alternate, ReplyOwn, ReportKept, ActedOnce, Fresh, NoRequest

\* The console may send only when nothing is on the line.
LEMMA ReadyAtEase ==
  ASSUME Calm, Typed, InStep, Ready
  PROVE  AtEase /\ at = "poll"
<1>1. sending = <<>> /\ at = "poll" /\ toHost = <<>> /\ toAdapter = <<>>
  BY DEF Ready, AtRest
<1> QED BY <1>1 DEF AtEase

\* What it sends is the one frame on the line.
LEMMA ConsoleTells ==
  ASSUME AtEase, at' = "poll", UNCHANGED <<toAdapter, toHost>>, NEW f \in Seq(Byte), sending' = f, Tells(f)'
  PROVE  Telling'
<1>1. toAdapter' = <<>> /\ toHost' = <<>> /\ <<>> \o f = f
  BY ConcatEmptySeq DEF AtEase
<1> QED BY <1>1 DEF Telling

LEMMA ReportInStep ==
  ASSUME Typed, InStep, Calm, NEW rumble \in BOOLEAN, ReceiveReport(rumble)
  PROVE  InStep'
<1>1. AtEase /\ at = "poll"
  BY ReadyAtEase DEF ReceiveReport
<1>2. /\ UNCHANGED <<at, payload, length, patience, acted, fw, request, spoofReply, buf, answer>>
      /\ UNCHANGED <<toAdapter, toHost>> /\ reports' = reports + 1
  BY DEF ReceiveReport, hostVars, lineVars
<1>3. PICK n \in Byte : reports' = n /\ n = reports + 1 /\ reports \in Nat
  <2>1. console.maxReports \in Nat /\ reports \in 0..console.maxReports /\ \A n \in 0..console.maxReports : n \in Byte
    BY Limits DEF Typed, ConsoleTyped
  <2> QED BY <1>2, <2>1 DEF ReceiveReport
<1>4. ActedOnce' /\ Fresh(n)'
  <2>1. \A m \in 1..reports : m \in 1..n /\ m < n
    BY <1>3
  <2>2. n \in 1..n
    BY <1>3
  <2> QED BY <1>2, <1>3, <2>1, <2>2 DEF InStep, ActedOnce, Fresh
<1>5. OUT_REPORT \in Byte /\ Right \in Byte /\ 0 \in Byte /\ 8 \in Byte /\ 3 \in Byte /\ 1 \in Byte /\ 6 \in Byte
      /\ OUT_REPORT # CONTROL_DATA
  BY Types DEF Byte, OUT_REPORT, CONTROL_DATA
<1>6. CASE rumble
  <2> DEFINE f == <<OUT_REPORT, 8, 0, 8, 0, n, Right, 0, 0, 0>>
  <2>1. f \in Seq(Byte) /\ sending' = f
    BY <1>3, <1>5, <1>6 DEF ReceiveReport
  <2>2. Len(f) = 10 /\ f[1] = OUT_REPORT /\ f[2] = 8 /\ f[6] = n /\ f[7] = Right
    OBVIOUS
  <2> HIDE DEF f
  <2>3. Tells(f)'
    BY <1>1, <1>2, <1>4, <1>5, <2>2 DEF Tells
  <2>4. Telling'
    BY <1>1, <1>2, <2>1, <2>3, ConsoleTells
  <2> QED BY <1>1, <1>2, <1>4, <2>4 DEF InStep, Alternate, ReplyOwn, ReportKept
<1>7. CASE ~rumble
  <2> DEFINE f == <<OUT_REPORT, 3, 1, 3, 6>>
  <2>1. f \in Seq(Byte) /\ sending' = f
    BY <1>5, <1>7 DEF ReceiveReport
  <2>2. Len(f) = 5 /\ f[1] = OUT_REPORT /\ f[2] = 3
    OBVIOUS
  <2> HIDE DEF f
  <2>3. Tells(f)'
    BY <1>1, <1>2, <1>5, <2>2 DEF Tells
  <2>4. Telling'
    BY <1>1, <1>2, <2>1, <2>3, ConsoleTells
  <2> QED BY <1>1, <1>2, <1>4, <2>4 DEF InStep, Alternate, ReplyOwn, ReportKept
<1> QED BY <1>6, <1>7

RequestBytes(kind, value, n, data) == <<CONTROL_DATA, 8 + Len(data)>> \o Setup(kind, value, n) \o data

\* The frame that holds a control request: its kind and its number are where the host
\* looks for them.
LEMMA RequestFrame ==
  ASSUME NEW kind \in Byte, NEW value \in Byte, NEW n \in Byte, NEW data \in Seq(Byte), 8 + Len(data) \in Byte
  PROVE  \E f \in Seq(Byte) :
           /\ f = RequestBytes(kind, value, n, data)
           /\ Len(f) >= 3 /\ Len(f) = 2 + f[2] /\ f[2] >= 8
           /\ f[1] = CONTROL_DATA /\ f[3] = kind /\ f[7] = n
<1>1. CONTROL_DATA \in Byte /\ \A b \in {0, 1, 16, 23, 131} : b \in Byte
  BY Types DEF Byte
<1> DEFINE size == 8 + Len(data)
           head == <<CONTROL_DATA, size>>
           setup == Setup(kind, value, n)
<1>2. head \in Seq(Byte) /\ Len(head) = 2 /\ head[1] = CONTROL_DATA /\ head[2] = size
  BY <1>1
<1>3. setup \in Seq(Byte) /\ Len(setup) = 8 /\ setup[1] = kind /\ setup[5] = n
  BY <1>1 DEF Setup
<1>4. Len(data) \in Nat
  OBVIOUS
<1> HIDE DEF size, head, setup
<1> DEFINE packet == head \o setup
<1>5. /\ packet \in Seq(Byte) /\ Len(packet) = 10
      /\ packet[1] = CONTROL_DATA /\ packet[2] = size /\ packet[3] = kind /\ packet[7] = n
  <2>1. Len(head) + Len(setup) = 10
    BY <1>2, <1>3
  <2>2. /\ packet \in Seq(Byte) /\ Len(packet) = Len(head) + Len(setup)
        /\ \A i \in 1..(Len(head) + Len(setup)) :
             packet[i] = IF i <= Len(head) THEN head[i] ELSE setup[i - Len(head)]
    BY <1>2, <1>3, ConcatProperties
  <2> HIDE DEF packet
  <2>3. \A i \in 1..10 : packet[i] = IF i <= 2 THEN head[i] ELSE setup[i - 2]
    BY <1>2, <1>3, <2>2
  <2>4. packet[1] = head[1] /\ packet[2] = head[2] /\ packet[3] = setup[1] /\ packet[7] = setup[5]
    BY <2>3
  <2> QED BY <1>2, <1>3, <2>1, <2>2, <2>4
<1> HIDE DEF packet
<1> DEFINE f == packet \o data
<1>6. f = RequestBytes(kind, value, n, data)
  BY DEF packet, head, setup, size, RequestBytes
<1>7. /\ f \in Seq(Byte) /\ Len(f) = 10 + Len(data)
      /\ \A i \in 1..10 : f[i] = packet[i]
  <2>1. \A i \in 1..10 : i \in 1..(Len(packet) + Len(data)) /\ i <= Len(packet)
    BY <1>4, <1>5
  <2> QED BY <1>5, <2>1, ConcatProperties
<1>8. f[1] = packet[1] /\ f[2] = packet[2] /\ f[3] = packet[3] /\ f[7] = packet[7]
  <2>1. \A i \in {1, 2, 3, 7} : i \in 1..10
    OBVIOUS
  <2> HIDE DEF f
  <2> QED BY <1>7, <2>1
<1> HIDE DEF f
<1>9. size \in Nat /\ size = 8 + Len(data)
  BY <1>4 DEF size
<1>10. /\ Len(f) >= 3 /\ Len(f) = 2 + f[2] /\ f[2] >= 8
       /\ f[1] = CONTROL_DATA /\ f[3] = kind /\ f[7] = n
  BY <1>4, <1>5, <1>7, <1>8, <1>9
<1> QED BY <1>6, <1>7, <1>10

NumberIs(n) == request.number = n

\* A control request, whether its reply is waited for or not.
LEMMA RequestInStep ==
  ASSUME NEW kind \in Byte, NEW value \in Byte, NEW n \in Byte, NEW data \in Seq(Byte), 8 + Len(data) \in Byte,
         Typed, InStep, Calm, Ready, sending' = RequestBytes(kind, value, n, data),
         spoofReply' = FALSE,
         kind = 65 \/ NumberIs(n)',
         UNCHANGED <<hostVars, fw, buf, responses, answer, lineVars, console, reports>>
  PROVE  InStep'
<1>1. AtEase /\ at = "poll"
  BY ReadyAtEase
<1>2. UNCHANGED <<at, payload, length, patience, acted, fw, buf, answer, toAdapter, toHost, reports>>
  BY DEF hostVars, lineVars
<1>3. PICK f \in Seq(Byte) : /\ sending' = f /\ Len(f) >= 3 /\ Len(f) = 2 + f[2] /\ f[2] >= 8
                             /\ f[1] = CONTROL_DATA /\ f[3] = kind /\ f[7] = n
  BY RequestFrame
<1>4. CONTROL_DATA # OUT_REPORT
  BY DEF CONTROL_DATA, OUT_REPORT
<1>5. Tells(f)'
  BY <1>1, <1>2, <1>3, <1>4 DEF Tells, NumberIs
<1>6. Telling'
  BY <1>1, <1>2, <1>3, <1>5, ConsoleTells
<1>7. ReplyOwn'
  BY Zenon DEF ReplyOwn
<1>8. Alternate'
  BY <1>2, <1>6 DEF InStep, Alternate
<1> QED BY <1>2, <1>7, <1>8 DEF InStep, ReportKept, ActedOnce, Fresh

LEMMA ConsoleInStep ==
  ASSUME Typed, Typed', InStep, Calm, ~console.cuts, ~Host, ~WearOut, Next
  PROVE  InStep'
<1>1. CASE ReceivePacket \/ SendByte \/ \E rumble \in BOOLEAN : ReceiveReport(rumble)
  BY <1>1, ReceivePacketInStep, SendByteInStep, ReportInStep
<1>2. PICK n \in Byte : n = requests'
  BY Limits DEF Typed, ConsoleTyped
<1>3. \A b \in {8, 9, 65, 193, 0, 1, 91, 92} : b \in Byte
  BY DEF Byte
<1>4. ASSUME NEW asked \in {91, 92}, PassRequest(asked) PROVE InStep'
  <2>1. /\ Ready /\ spoofReply' = FALSE /\ request'.number = n
        /\ UNCHANGED <<hostVars, fw, buf, responses, answer, lineVars, console, reports>>
    BY <1>2, <1>4 DEF PassRequest
  <2>2. sending' = <<CONTROL_DATA, 8>> \o Setup(193, asked, n)
    BY <1>2, <1>4 DEF PassRequest
  <2>3. PICK none \in Seq(Byte) : none = <<>> /\ 8 + Len(none) = 8
    <3>1. <<>> \in Seq(Byte) /\ 8 + Len(<<>>) = 8
      BY EmptySeq
    <3> QED BY <3>1, Zenon
  <2>4. (<<CONTROL_DATA, 8>> \o Setup(193, asked, n)) \o <<>> = <<CONTROL_DATA, 8>> \o Setup(193, asked, n)
    <3>1. CONTROL_DATA \in Byte /\ \A b \in {0, 1, 8, 16, 23, 131, 193} : b \in Byte
      BY Types DEF Byte
    <3>2. <<CONTROL_DATA, 8>> \in Seq(Byte) /\ Setup(193, asked, n) \in Seq(Byte)
      BY <1>3, <3>1 DEF Setup
    <3> QED BY <3>2, ConcatProperties, ConcatEmptySeq
  <2>5. sending' = RequestBytes(193, asked, n, none)
    BY <2>2, <2>3, <2>4 DEF RequestBytes
  <2>6. asked \in Byte /\ 193 \in Byte /\ 8 + Len(none) \in Byte
    BY <1>3, <2>3
  <2>7. NumberIs(n)'
    BY <2>1 DEF NumberIs
  <2>8. Ready /\ spoofReply' = FALSE
    BY <2>1, Zenon
  <2>9. UNCHANGED <<hostVars, fw, buf, responses, answer, lineVars, console, reports>>
    BY <2>1
  <2>10. 193 \in Byte /\ 8 + Len(none) \in Byte /\ asked \in Byte
    BY <2>6
  <2>11. ASSUME NEW k \in Byte, k = 65 \/ NumberIs(n)', sending' = RequestBytes(k, asked, n, none) PROVE InStep'
    BY <2>8, <2>9, <2>10, <2>11, RequestInStep
  <2> QED BY <2>5, <2>7, <2>10, <2>11
<1>5. CASE PassData
  <2>1. /\ Ready /\ spoofReply' = FALSE
        /\ UNCHANGED <<hostVars, fw, buf, responses, answer, lineVars, console, reports>>
    BY <1>5 DEF PassData
  <2>2. <<1>> \in Seq(Byte) /\ 8 + Len(<<1>>) = 9
    BY <1>3
  <2>3. sending' = RequestBytes(65, 0, n, <<1>>)
    BY <1>2, <1>5, <2>2 DEF PassData, RequestBytes
  <2>4. ASSUME NEW data \in Seq(Byte), 8 + Len(data) = 9, sending' = RequestBytes(65, 0, n, data) PROVE InStep'
    <3>1. 65 \in Byte /\ 0 \in Byte /\ 8 + Len(data) \in Byte
      BY <1>3, <2>4
    <3> QED BY <2>1, <2>4, <3>1, RequestInStep
  <2> QED BY <2>2, <2>3, <2>4
<1>6. CASE AnswerRequest
  <2>1. /\ UNCHANGED <<at, payload, length, patience, acted, fw, sending, spoofReply, buf, toAdapter, toHost, reports>>
        /\ request' = NoRequest /\ answer' = <<request.number, buf>> /\ spoofReply /\ request # NoRequest
    BY <1>6 DEF AnswerRequest, hostVars, lineVars, consoleVars
  <2>2. answer'[1] = answer'[2]
    BY <2>1 DEF InStep, ReplyOwn
  <2>3. \A p : Asks(p) => Asks(p)'
    BY <2>1 DEF Asks, NoRequest
  <2>4. Waiting' = Waiting /\ (Waiting => Wanted' = Wanted)
    BY <2>1 DEF Waiting, Wanted
  <2>5. \A f : Tells(f) => Tells(f)'
    BY <2>1, <2>4 DEF Tells, Fresh, NoRequest
  <2>6. Alternate'
    BY <2>1, <2>3, <2>5 DEF InStep, Alternate, AtEase, Asking, Telling
  <2> QED BY <2>1, <2>2, <2>6 DEF InStep, ReplyOwn, ReportKept, ActedOnce, Fresh, NoRequest
<1>7. CASE ResetByConsole
  <2>1. AtEase /\ at = "poll"
    BY <1>7, ReadyAtEase DEF ResetByConsole
  <2>2. /\ UNCHANGED <<at, payload, length, patience, acted, answer, toAdapter, toHost, reports>>
        /\ fw' = "wait" /\ sending' = <<>> /\ request' = NoRequest
    BY <1>7 DEF ResetByConsole, Reboot, hostVars, lineVars, consoleVars
  <2>3. Alternate' /\ ReplyOwn'
    BY <2>1, <2>2 DEF InStep, Alternate, AtEase, ReplyOwn, NoRequest
  <2> QED BY <2>2, <2>3 DEF InStep, ReportKept, ActedOnce, Fresh
<1>8. ~PowerOff /\ ~PowerOn
  BY DEF PowerOff, PowerOn, InStep, Alternate
<1> QED BY <1>1, <1>4, <1>5, <1>6, <1>7, <1>8 DEF Next

\* What is used up stays used up.
LEMMA StaysWorn == patience = "worn" /\ [Next]_vars => patience' = "worn"
<1> SUFFICES ASSUME patience = "worn", [Next]_vars PROVE patience' = "worn"
  OBVIOUS
<1>1. CASE Host
  BY <1>1 DEF Host, Open, ReadReply, ReplyTimesOut, PollSilence, PollHalfHeader, PollFrame, Lapsed
<1>2. CASE UNCHANGED hostVars
  BY <1>2 DEF hostVars
<1>3. ~WearOut
  BY DEF WearOut
<1> QED BY <1>1, <1>2, <1>3 DEF Next, ReceivePacket, SendByte, ReceiveReport, PassRequest, PassData, AnswerRequest,
                                ResetByConsole, PowerOff, PowerOn, vars

LEMMA InStepKept == Calm /\ Typed /\ (Undisturbed => InStep) /\ [Next]_vars => (Undisturbed => InStep)'
<1> SUFFICES ASSUME Calm, Typed, Undisturbed => InStep, [Next]_vars, Undisturbed' PROVE InStep'
  OBVIOUS
<1>1. Typed'
  BY TypedStep
<1>2. console' = console
  BY DEF Next, Host, WearOut, Open, ReadReply, ReplyTimesOut, PollSilence, PollHalfHeader, PollFrame, ReceivePacket,
         SendByte, ReceiveReport, PassRequest, PassData, AnswerRequest, ResetByConsole, PowerOff, PowerOn,
         consoleVars, vars
<1>3. Undisturbed /\ InStep /\ ~WearOut
  BY <1>2, StaysWorn DEF Undisturbed, WearOut
<1>4. CASE UNCHANGED vars
  <2>1. UNCHANGED <<at, payload, length, patience, acted, fw, sending, request, spoofReply, buf, answer,
                    toAdapter, toHost, reports>>
    BY <1>4 DEF vars, hostVars, fwVars, lineVars, consoleVars
  <2>2. Waiting' = Waiting /\ (Waiting => Wanted' = Wanted)
    BY <2>1 DEF Waiting, Wanted
  <2>3. (\A p : Asks(p) => Asks(p)') /\ \A f : Tells(f) => Tells(f)'
    BY <2>1, <2>2 DEF Asks, Tells, Fresh, NoRequest
  <2>4. Alternate'
    BY <1>3, <2>1, <2>3 DEF InStep, Alternate, AtEase, Asking, Telling
  <2> QED BY <1>3, <2>1, <2>4 DEF InStep, ReplyOwn, ReportKept, ActedOnce, Fresh, NoRequest
<1>5. CASE Next
  BY <1>1, <1>5, <1>3, HostInStep, ConsoleInStep DEF Undisturbed
<1> QED BY <1>4, <1>5

LEMMA AlwaysInStep == Calm => (Spec => [](Undisturbed => InStep))
<1> SUFFICES ASSUME Calm PROVE Spec => [](Undisturbed => InStep)
  OBVIOUS
<1>1. Init => Typed /\ (Undisturbed => InStep)
  BY TypesStart, InStepStart
<1>2. Typed /\ (Undisturbed => InStep) /\ [Next]_vars => (Typed /\ (Undisturbed => InStep))'
  BY TypedStep, InStepKept
<1> QED BY <1>1, <1>2, PTL DEF Spec

\* A console that keeps its power and waits for the line to be at rest gets the reply to
\* what it asked (emu.c:21-26), through every restart by silence and reset by the console,
\* until the waits of SerialAdapter::Read and Write have used m_timeout up.
THEOREM OwnReplies == Calm => (Spec => []AnswersOwn)
<1>1. (Undisturbed => InStep) => AnswersOwn
  BY DEF InStep, AnswersOwn
<1> QED BY <1>1, AlwaysInStep, PTL

\* Until then the host acts on each report of such a console at most once and in order, with
\* what the report said, although a status is read into the same buffer
\* (RpiLightsController.cpp:437).
THEOREM ReportsOnly == Calm => (Spec => []NoneInvented)
<1>1. (Undisturbed => InStep) => NoneInvented
  BY DEF InStep, ActedOnce, NoneInvented
<1> QED BY <1>1, AlwaysInStep, PTL

\* As long as something is left of m_timeout nothing is given up for lost between such a
\* console and the host: no Read lapses, of a reply or of a frame (SerialAdapter.cpp:197-268).
THEOREM WaitsRewarded == Calm => (Spec => [](Undisturbed => patience = "left"))
<1>1. (Undisturbed => InStep) => (Undisturbed => patience = "left")
  BY DEF InStep, Alternate
<1> QED BY <1>1, AlwaysInStep, PTL
===============================================================================
