----------------------- MODULE LightsControllerProofs -----------------------
(***************************************************************************)
(* Proofs about LightsController, for every lights.ini: what is found in   *)
(* it is what it says, and every setting comes from its own section.       *)
(***************************************************************************)
EXTENDS LightsController, IniFileProofs, FiniteSetTheorems, TLAPS

\* The part of the state that reading lights.ini is about.
fileVars == <<file, next, sections, load>>

CurrentOK == current \in DOMAIN sections \cup {0}

\* Sections are read after the file; until then nothing is set.
Loaded == load = "reading" => stage = "load" /\ pc = "construct"
NothingSet == load = "reading" => DOMAIN setting = {}

Inv == IniInv /\ CurrentOK /\ Loaded /\ NothingSet /\ SettingsFromOwnSection

-----------------------------------------------------------------------------
(* Only m_section_current changes when the file has been read. *)

LEMMA CurrentIsFree ==
  ASSUME IniInv, load # "reading", UNCHANGED fileVars
  PROVE  IniInv'
<1>1. /\ UNCHANGED <<file, next, sections, load>>
      /\ Read' = Read
      /\ \A n, s : Under(n, s)' <=> Under(n, s)
      /\ \A n, s, t : Says(n, s, t)' <=> Says(n, s, t)
  BY DEF fileVars, Read, Under, IsHeader, Says
<1>2. IniTypeOK' /\ Distinct' /\ AtHand'
  BY <1>1 DEF IniInv, IniTypeOK, Distinct, AtHand
<1>3. Found' /\ Written'
  BY <1>1 DEF IniInv, Found, Written
<1>4. Announced' /\ RejectedForAReason'
  BY <1>1 DEF IniInv, Announced, RejectedForAReason
<1> QED BY <1>2, <1>3, <1>4 DEF IniInv

LEMMA SameSettings ==
  ASSUME SettingsFromOwnSection, UNCHANGED <<file, next, setting>>
  PROVE  SettingsFromOwnSection'
<1>1. /\ Read' = Read
      /\ \A n, s, t : Says(n, s, t)' <=> Says(n, s, t)
  BY DEF Read, Under, IsHeader, Says
<1>2. \A s, t : Meant(s, t)' = Meant(s, t)
  BY <1>1 DEF Meant
<1>3. \A s : HasSection(s)' <=> HasSection(s)
  BY <1>1 DEF HasSection
<1> QED BY <1>2, <1>3 DEF SettingsFromOwnSection

-----------------------------------------------------------------------------
(* A setting and what it was meant to be *)

LEMMA AbsentNumber == \A s : Absent(s, "DEFAULT_CONFIG") = 0
BY DEF Absent, Texts

\* What the look-up in a section gives is what was written under its name.
LEMMA GetIsMeant ==
  ASSUME IniInv, NEW i \in DOMAIN sections, NEW t
  PROVE  Clip(t, Get(i, sections[i].name, t)) = Meant(sections[i].name, t)
<1> DEFINE s == sections[i].name
<1>1. ASSUME NEW n \in Read, Says(n, s, t)
      PROVE  t \in DOMAIN sections[i].tokens /\ sections[i].tokens[t] = file[n].value
  <2>1. PICK j \in DOMAIN sections :
          /\ Under(n, sections[j].name)
          /\ t \in DOMAIN sections[j].tokens
          /\ sections[j].tokens[t] = file[n].value
    BY <1>1 DEF IniInv, Found, Says
  <2>2. n \in Nat
    BY DEF Read
  <2>3. sections[j].name = s
    BY <1>1, <2>1, <2>2, UnderOne DEF Says
  <2>4. j = i
    BY <2>3 DEF IniInv, Distinct
  <2> QED BY <2>1, <2>4
<1>2. CASE t \in DOMAIN sections[i].tokens
  <2>1. \E n \in Read : Says(n, s, t)
    BY <1>2 DEF IniInv, Written
  <2> DEFINE m == CHOOSE n \in Read : Says(n, s, t)
  <2>2. m \in Read /\ Says(m, s, t)
    BY <2>1
  <2>3. sections[i].tokens[t] = file[m].value
    BY <1>1, <2>2
  <2>4. Meant(s, t) = Clip(t, file[m].value)
    BY <2>1 DEF Meant
  <2>5. Get(i, s, t) = sections[i].tokens[t]
    BY <1>2 DEF Get, Value, TokenExists
  <2> QED BY <2>3, <2>4, <2>5
<1>3. CASE t \notin DOMAIN sections[i].tokens
  <2>1. ~\E n \in Read : Says(n, s, t)
    BY <1>1, <1>3
  <2>2. Meant(s, t) = Absent(s, t)
    BY <2>1 DEF Meant
  <2>3. Get(i, s, t) = Absent(s, t)
    BY <1>3 DEF Get, Value, TokenExists
  <2>4. Clip(t, Absent(s, t)) = Absent(s, t)
    BY AbsentNumber DEF Clip
  <2> QED BY <2>2, <2>3, <2>4
<1> QED BY <1>2, <1>3

-----------------------------------------------------------------------------
(* The invariant *)

LEMMA InvStart == Init => Inv
<1> SUFFICES ASSUME Init PROVE Inv
  OBVIOUS
<1>1. IniInit /\ stage = "load" /\ pc = "construct" /\ DOMAIN setting = {}
  BY DEF Init, SettingsInit
<1>2. IniInv
  BY <1>1, IniStart
<1>3. CurrentOK
  <2>1. CASE file = <<>>
    BY <1>1, <2>1 DEF IniInit, CurrentOK
  <2>2. CASE file # <<>>
    BY <1>1, <1>2, <2>2 DEF IniInit, CurrentOK, IniInv, IniTypeOK
  <2> QED BY <2>1, <2>2
<1> QED BY <1>1, <1>2, <1>3 DEF Inv, Loaded, NothingSet, SettingsFromOwnSection

LEMMA Still ==
  ASSUME Inv, UNCHANGED <<iniVars, stage, setting, pc>>
  PROVE  Inv'
<1>1. UNCHANGED <<file, next, sections, current, load, stage, setting, pc>>
  BY DEF iniVars
<1>2. IniInv'
  BY IdleStep DEF Inv
<1>3. SettingsFromOwnSection'
  BY <1>1, SameSettings DEF Inv
<1> QED BY <1>1, <1>2, <1>3 DEF Inv, CurrentOK, Loaded, NothingSet

\* The steps that leave the file and the settings alone; current may go to a section.
LEMMA Elsewhere ==
  ASSUME Inv, load # "reading", UNCHANGED <<fileVars, setting>>, CurrentOK'
  PROVE  Inv'
<1>1. load' # "reading"
  BY DEF fileVars
<1>2. IniInv'
  BY CurrentIsFree DEF Inv
<1>3. SettingsFromOwnSection'
  BY SameSettings DEF Inv, fileVars
<1> QED BY <1>1, <1>2, <1>3 DEF Inv, Loaded, NothingSet

LEMMA LoadStep ==
  ASSUME Inv, pc = "construct", LoadFile, pc' = "construct"
  PROVE  Inv'
<1>1. CASE IniNext /\ UNCHANGED settingsVars
  <2>1. IniInv'
    BY <1>1, IniStep DEF Inv
  <2>2. load = "reading"
    BY <1>1 DEF IniNext, ReadLine, RejectLine, EndOfFile
  <2>3. DOMAIN setting = {} /\ setting' = setting /\ stage' = stage
    BY <1>1, <2>2 DEF Inv, NothingSet, settingsVars
  <2>4. Loaded' /\ NothingSet' /\ SettingsFromOwnSection'
    BY <2>2, <2>3 DEF Inv, Loaded, NothingSet, SettingsFromOwnSection
  <2>5. CurrentOK'
    <3>1. CASE load' = "reading"
      BY <2>1, <3>1 DEF IniInv, IniTypeOK, CurrentOK
    <3>2. CASE load' # "reading"
      <4>1. UNCHANGED <<sections, current>>
        BY <1>1, <2>2, <3>2 DEF IniNext, ReadLine, RejectLine, EndOfFile, IgnoreLine, OpenSection, AddToken
      <4> QED BY <4>1 DEF Inv, CurrentOK
    <3> QED BY <3>1, <3>2
  <2> QED BY <2>1, <2>4, <2>5 DEF Inv
<1>2. CASE load # "reading" /\ UNCHANGED <<iniVars, setting>>
  <2>1. CurrentOK'
    BY <1>2 DEF Inv, CurrentOK, iniVars
  <2> QED BY <1>2, <2>1, Elsewhere DEF iniVars, fileVars
<1> QED BY <1>1, <1>2 DEF LoadFile

LEMMA ReadStep ==
  ASSUME Inv, pc = "construct", ReadSection
  PROVE  Inv'
<1> DEFINE now == SetSection(stage)
           toks == Wanted(now, stage)
<1>1. FindSection(stage) /\ stage # "load"
  BY DEF ReadSection, IsThere
<1>2. load # "reading"
  BY <1>1 DEF Inv, Loaded
<1>3. now \in DOMAIN sections /\ sections[now].name = stage
  BY <1>1, SetToIt DEF Inv, CurrentOK, IniInv
<1>4. UNCHANGED fileVars /\ current' = now
  BY DEF ReadSection, fileVars
<1>5. CurrentOK'
  BY <1>3, <1>4 DEF CurrentOK, fileVars
<1>6. CASE UNCHANGED setting
  BY <1>2, <1>4, <1>5, <1>6, Elsewhere
<1>7. CASE Assign(now, stage, toks)
  <2>1. IniInv'
    BY <1>2, <1>4, CurrentIsFree DEF Inv
  <2>2. load' # "reading"
    BY <1>2, <1>4 DEF fileVars
  <2>3. HasSection(stage)
    BY <1>3 DEF Inv, IniInv, Announced, HasSection
  <2>4. \A t : Clip(t, Get(now, stage, t)) = Meant(stage, t)
    BY <1>3, GetIsMeant DEF Inv
  <2> HIDE DEF now, toks
  <2>5. /\ DOMAIN setting' = DOMAIN setting \cup {<<stage, t>> : t \in toks}
        /\ \A p \in DOMAIN setting' :
             setting'[p] = IF p \in DOMAIN setting THEN setting[p]
                           ELSE Clip(p[2], Get(now, stage, p[2]))
    BY <1>7 DEF Assign
  <2>6. \A p \in DOMAIN setting' : HasSection(p[1]) /\ setting'[p] = Meant(p[1], p[2])
    <3> SUFFICES ASSUME NEW p \in DOMAIN setting'
                 PROVE  HasSection(p[1]) /\ setting'[p] = Meant(p[1], p[2])
      OBVIOUS
    <3>1. CASE p \in DOMAIN setting
      BY <2>5, <3>1 DEF Inv, SettingsFromOwnSection
    <3>2. CASE p \notin DOMAIN setting
      <4>1. PICK t \in toks : p = <<stage, t>>
        BY <2>5, <3>2
      <4>2. p[1] = stage /\ p[2] = t
        BY <4>1
      <4>3. setting'[p] = Clip(t, Get(now, stage, t))
        BY <2>5, <3>2, <4>2
      <4> QED BY <2>3, <2>4, <4>2, <4>3
    <3> QED BY <3>1, <3>2
  <2>7. /\ Read' = Read
        /\ \A n, s, t : Says(n, s, t)' <=> Says(n, s, t)
    BY <1>4 DEF fileVars, Read, Under, IsHeader, Says
  <2>8. \A s, t : Meant(s, t)' = Meant(s, t)
    BY <1>4, <2>7 DEF Meant, fileVars
  <2>9. \A s : HasSection(s)' <=> HasSection(s)
    BY <1>4, <2>7 DEF HasSection, fileVars
  <2>10. SettingsFromOwnSection'
    BY <2>6, <2>8, <2>9 DEF SettingsFromOwnSection
  <2> QED BY <1>5, <2>1, <2>2, <2>10 DEF Inv, Loaded, NothingSet
<1> QED BY <1>6, <1>7 DEF ReadSection

\* Looking for a section moves current to it, or nowhere.
LEMMA Looked ==
  ASSUME Inv, NEW s
  PROVE  SetSection(s) \in DOMAIN sections \cup {0}
<1>1. CASE FindSection(s)
  BY <1>1, SetToIt DEF Inv, CurrentOK, IniInv
<1>2. CASE ~FindSection(s)
  BY <1>2 DEF SetSection, Inv, CurrentOK
<1> QED BY <1>1, <1>2

LEMMA InvStep == Inv /\ [Next]_vars => Inv'
<1> SUFFICES ASSUME Inv, [Next]_vars PROVE Inv'
  OBVIOUS
<1>1. CASE ConstructController /\ load = "reading"
  <2>1. stage = "load" /\ pc = "construct"
    BY <1>1 DEF Inv, Loaded
  <2>2. LoadFile /\ UNCHANGED pc
    BY <1>1, <2>1 DEF ConstructController, Construct, ReadSection, SkipSection, OpenStrip
  <2> QED BY <2>1, <2>2, LoadStep
<1>2. CASE ConstructController /\ load # "reading"
  <2>1. CASE LoadFile /\ UNCHANGED pc
    BY <1>2, <2>1, LoadStep DEF ConstructController
  <2>2. CASE ReadSection
    BY <1>2, <2>2, ReadStep DEF ConstructController
  <2>3. CASE UNCHANGED <<iniVars, setting>>
    <3>1. UNCHANGED <<fileVars, setting>> /\ UNCHANGED current
      BY <2>3 DEF iniVars, fileVars
    <3>2. CurrentOK'
      BY <3>1 DEF Inv, CurrentOK, fileVars
    <3> QED BY <1>2, <3>1, <3>2, Elsewhere
  <2>4. (LoadFile /\ UNCHANGED pc) \/ ReadSection \/ UNCHANGED <<iniVars, setting>>
    BY <1>2 DEF ConstructController, Construct, SkipSection, OpenStrip, settingsVars
  <2> QED BY <2>1, <2>2, <2>3, <2>4
<1>3. CASE ~ConstructController /\ load # "reading"
  <2>1. load # "reading"
    BY <1>3
  <2>2. /\ UNCHANGED <<fileVars, setting>>
        /\ UNCHANGED current \/ current' = SetSection("SERIAL_INTERFACE")
    <3>1. UNCHANGED fixed => UNCHANGED <<fileVars, setting>>
      BY DEF fixed, fileVars, settingsVars
    <3>2. CASE StartSteps \/ OpenAdapter
      BY <1>3, <3>1, <3>2 DEF StartSteps, StartReceiver, StartSerial, ConnectPods, FindPort,
                              OpenAdapter, StopWaiting, Retry
    <3>3. CASE \E c \in Commands : Rumble(c)
      BY <3>1, <3>3 DEF Rumble
    <3>4. CASE NoData \/ PollClosed \/ PollNetwork
      BY <3>1, <3>4 DEF NoData, PollClosed, PollNetwork, mainVars
    <3>5. CASE Restart \/ LeaveLoop \/ StopMain \/ Destroy
      BY <3>1, <3>5 DEF Restart, LeaveLoop, StopMain, Destroy
    <3>6. CASE Signal \/ PlugIn \/ PullOut \/ Press \/ (\E p \in wire : ThereHears(p)) \/ Network
      BY <3>1, <3>6 DEF Signal, PlugIn, PullOut, Press, ThereHears, Network, mainVars
    <3>7. CASE UNCHANGED vars
      BY <3>7 DEF vars, iniVars, settingsVars, fileVars
    <3> QED BY <3>2, <3>3, <3>4, <3>5, <3>6, <3>7 DEF Next, Main
  <2>3. CurrentOK'
    BY <2>2, Looked DEF Inv, CurrentOK, fileVars
  <2> QED BY <2>1, <2>2, <2>3, Elsewhere
<1>4. CASE ~ConstructController /\ load = "reading"
  <2>1. pc = "construct"
    BY <1>4 DEF Inv, Loaded
  <2>2. ~Main /\ ~OpenAdapter
    BY <1>4, <2>1 DEF Main, StartSteps, StartReceiver, StartSerial, ConnectPods, FindPort,
                      OpenAdapter, StopWaiting, Retry, Rumble, NoData, PollClosed, PollNetwork, Restart,
                      LeaveLoop, StopMain, Destroy
  <2>3. UNCHANGED <<iniVars, stage, setting, pc>>
    <3>1. UNCHANGED fixed => UNCHANGED <<file, next, sections, load, stage, setting>>
      BY DEF fixed, settingsVars
    <3>2. CASE Signal \/ PlugIn \/ PullOut \/ Press \/ (\E p \in wire : ThereHears(p)) \/ Network
      BY <3>1, <3>2 DEF Signal, PlugIn, PullOut, Press, ThereHears, Network, mainVars, iniVars
    <3>3. CASE UNCHANGED vars
      BY <3>3 DEF vars, iniVars, settingsVars, mainVars
    <3> QED BY <2>2, <3>2, <3>3 DEF Next
  <2> QED BY <2>3, Still
<1> QED BY <1>1, <1>2, <1>3, <1>4

LEMMA Invariant == Spec => []Inv
BY InvStart, InvStep, PTL DEF Spec

\* Whatever lights.ini holds: what the program finds in it is what is written there, and
\* a file is rejected only for a line that is malformed or doubled.
THEOREM LoadedSoundly == Spec => []LoadSound
<1>1. Inv => LoadSound
  BY InvReadAsWritten DEF Inv, IniInv, LoadSound
<1> QED BY <1>1, Invariant, PTL

\* Whatever lights.ini holds, and in whatever order and pieces: no setting comes from
\* another section than its own.
THEOREM OwnSections == Spec => []SettingsFromOwnSection
<1>1. Inv => SettingsFromOwnSection
  BY DEF Inv
<1> QED BY <1>1, Invariant, PTL

-----------------------------------------------------------------------------
(* Adapter and pods *)

\* Where main may be with what in hand.  While it listens to the network the adapter is
\* closed and main is never on its way to open it.
Held ==
    /\ pods \in {"none", "up", "gone"} /\ adapter \in BOOLEAN
    /\ adapter => pods # "none"
    /\ pc \in {"connectAdapter", "awaitAdapter"} => pods # "none"
    /\ pc \in {"construct", "connectPods"} => ~adapter
    /\ listener => ~adapter /\ pc \notin {"connectPods", "connectAdapter", "awaitAdapter"}

LEMMA HeldStart == Init => Held
BY DEF Init, SettingsInit, Held

LEMMA HeldStep == Held /\ [Next]_vars => Held'
<1> SUFFICES ASSUME Held, [Next]_vars PROVE Held'
  OBVIOUS
<1> USE DEF Held
<1>1. CASE ConstructController
  BY <1>1 DEF ConstructController
<1>2. UNCHANGED fixed => UNCHANGED listener
  BY DEF fixed, settingsVars
<1>3. CASE StartReceiver
  <2>1. pods' \in {"none", "up", "gone"}
    BY <1>3 DEF StartReceiver, FindPods
  <2>2. pc' \in {"loop", "retry"}
    BY <1>3 DEF StartReceiver, Started
  <2> QED BY <1>2, <1>3, <2>1, <2>2 DEF StartReceiver
<1>4. CASE StartSerial
  <2>1. adapter' = FALSE
    BY <1>4 DEF StartSerial, CloseConnections, IsConnected
  <2> QED BY <1>2, <1>4, <2>1 DEF StartSerial, CloseConnections
<1>5. CASE ConnectPods
  BY <1>2, <1>5 DEF ConnectPods, FindPods, Started
<1>6. CASE FindPort
  BY <1>2, <1>6 DEF FindPort, Started
<1>7. CASE OpenAdapter \/ StopWaiting
  <2>1. pc = "awaitAdapter" /\ pc' \in {"loop", "retry"}
    BY <1>7 DEF OpenAdapter, StopWaiting, Started
  <2>2. adapter' \in BOOLEAN /\ pods' = pods /\ listener' = listener
    BY <1>2, <1>7 DEF OpenAdapter, StopWaiting
  <2> QED BY <2>1, <2>2
<1>8. CASE Retry
  BY <1>2, <1>8 DEF Retry
<1>9. CASE \E c \in Commands : Rumble(c)
  BY <1>2, <1>9 DEF Rumble
<1>10. CASE NoData \/ PollClosed \/ LeaveLoop
  BY <1>2, <1>10 DEF NoData, PollClosed, LeaveLoop
<1>11. CASE PollNetwork
  BY <1>2, <1>11 DEF PollNetwork, mainVars
<1>12. CASE Restart \/ StopMain
  <2>1. listener' = listener /\ pc' \in {"start", "destroy"} /\ Stop
    BY <1>2, <1>12 DEF Restart, StopMain
  <2>2. CASE UNCHANGED <<pods, adapter>>
    BY <2>1, <2>2
  <2>3. CASE adapter' = FALSE /\ pods' = "none"
    BY <2>1, <2>3
  <2> QED BY <2>1, <2>2, <2>3 DEF Stop
<1>13. CASE Destroy
  BY <1>2, <1>13 DEF Destroy
<1>14. CASE Signal
  BY <1>2, <1>14 DEF Signal
<1>15. CASE PullOut
  BY <1>2, <1>15 DEF PullOut, IsConnected
<1>16. CASE PlugIn \/ Press \/ (\E p \in wire : ThereHears(p)) \/ Network
  BY <1>2, <1>16 DEF PlugIn, Press, ThereHears, Network, mainVars
<1>17. CASE UNCHANGED vars
  BY <1>17 DEF vars, settingsVars, mainVars
<1> QED BY <1>1, <1>3, <1>4, <1>5, <1>6, <1>7, <1>8, <1>9, <1>10, <1>11, <1>12, <1>13,
           <1>14, <1>15, <1>16, <1>17 DEF Next, Main, StartSteps

LEMMA HeldAlways == Spec => []Held
BY HeldStart, HeldStep, PTL DEF Spec

\* Whatever is plugged in and pulled out, and however often a restart fails half-way: the
\* adapter is open only while the program holds a pod's handle.
THEOREM PodsHeldFirst == Spec => []PodsFirst
<1>1. Held => PodsFirst
  BY DEF Held, PodsFirst, IsConnected
<1> QED BY <1>1, HeldAlways, PTL

-----------------------------------------------------------------------------
(* The end *)

\* Until the program is over, what is lit has a handle it can be darkened by.
Driven ==
    pc \notin {"ended", "crashed"} =>
        /\ lit \cap ({"pods"} \X Lamps) # {} => pods = "up"
        /\ lit \cap ({"strip"} \X Lamps) # {} => strip = "up" /\ pc # "construct"
        /\ pc = "connectPods" => pods = "none"

Dark == Driven /\ DarkAtEnd

LEMMA DarkStart == Init => Dark
BY DEF Init, SettingsInit, Dark, Driven, DarkAtEnd

\* Steps that lead nowhere but on, and light nothing, or only what is over there.
LEMMA DarkStays ==
  ASSUME Dark, UNCHANGED strip,
         pods' = pods \/ (pc' # "connectPods" /\ lit' \cap ({"pods"} \X Lamps) = {}),
         pc \in {"ended", "crashed"} => pc' = pc,
         pc' \in {"construct", "connectPods", "ended"} => pc' = pc,
         lit' \subseteq lit \cup ({"there"} \X Lamps)
  PROVE  Dark'
<1>1. \A o \in {"pods", "strip"} : lit' \cap ({o} \X Lamps) # {} => lit \cap ({o} \X Lamps) # {}
  OBVIOUS
<1>2. (lit \cap ({"pods", "strip"} \X Lamps) = {}) => (lit' \cap ({"pods", "strip"} \X Lamps) = {})
  OBVIOUS
<1>3. DarkAtEnd'
  BY <1>2 DEF Dark, DarkAtEnd
<1>4. ASSUME pc' \notin {"ended", "crashed"} PROVE Driven'
  <2>1. lit' \cap ({"pods"} \X Lamps) # {} => pods' = "up"
    BY <1>1, <1>4 DEF Dark, Driven
  <2>2. lit' \cap ({"strip"} \X Lamps) # {} => strip' = "up" /\ pc' # "construct"
    BY <1>1, <1>4 DEF Dark, Driven
  <2>3. pc' = "connectPods" => pods' = "none"
    BY <1>4 DEF Dark, Driven
  <2> QED BY <2>1, <2>2, <2>3 DEF Driven
<1> QED BY <1>3, <1>4 DEF Dark, Driven

LEMMA OffOnly == \A outputs : Shows("allOff", outputs) \subseteq lit
BY DEF Shows

LEMMA OffDarkens ==
  ASSUME NEW outputs, NEW o \in outputs
  PROVE  Shows("allOff", outputs) \cap ({o} \X Lamps) = {}
BY DEF Shows, Lamps

\* A command lights only outputs that are there, whether the engine lets it through or not.
LEMMA ShownIsDriven ==
  ASSUME Driven, pc \notin {"ended", "crashed"}, NEW command, NEW lamps \in Handled(command)
  PROVE  /\ lamps \cap ({"pods"} \X Lamps) # {} => pods = "up"
         /\ lamps \cap ({"strip"} \X Lamps) # {} => strip = "up"
<1>1. lamps \subseteq lit \cup (Outputs \X Lamps)
  BY DEF Handled, Shows, Lamps
<1>2. ASSUME NEW o \in {"pods", "strip"}, lamps \cap ({o} \X Lamps) # {}
      PROVE  lit \cap ({o} \X Lamps) # {} \/ o \in Outputs
  BY <1>1, <1>2
<1> QED BY <1>2 DEF Driven, Outputs

LEMMA DarkShows ==
  ASSUME Dark, UNCHANGED <<pc, pods, strip>>, pc \notin {"construct", "connectPods", "ended", "crashed"},
         NEW command, lit' \in Handled(command)
  PROVE  Dark'
BY ShownIsDriven DEF Dark, Driven, DarkAtEnd

\* Stop leaves on only what has a handle left, and no pod when it lets the pods go.
LEMMA StopDarkens ==
  ASSUME Driven, pc \notin {"ended", "crashed"}, NEW lamps \in LitAfterStop
  PROVE  /\ lamps \subseteq lit
         /\ lamps \cap ({"pods"} \X Lamps) # {} => pods = "up" /\ (listener \/ sender)
         /\ lamps \cap ({"strip"} \X Lamps) # {} => strip = "up"
<1>1. CASE listener \/ sender
  BY <1>1 DEF LitAfterStop, Driven
<1>2. CASE ~(listener \/ sender)
  <2>1. PICK shown \in Handled("allOff") : lamps = EndPods(shown)
    BY <1>2 DEF LitAfterStop
  <2>2. shown \subseteq lit
    BY OffOnly DEF Handled
  <2>3. lamps \subseteq shown /\ (pods = "up" => lamps \cap ({"pods"} \X Lamps) = {})
    BY <2>1 DEF EndPods
  <2>4. /\ shown \cap ({"pods"} \X Lamps) # {} => pods = "up"
        /\ shown \cap ({"strip"} \X Lamps) # {} => strip = "up"
    BY ShownIsDriven
  <2>5. \A o \in {"pods", "strip"} : lamps \cap ({o} \X Lamps) # {} => shown \cap ({o} \X Lamps) # {}
    BY <2>3
  <2> QED BY <2>2, <2>3, <2>4, <2>5
<1> QED BY <1>1, <1>2

LEMMA DisconnectDarkens ==
  ASSUME Driven, pc \notin {"ended", "crashed"}, Disconnect
  PROVE  lit' \subseteq lit /\ lit' \cap ({"pods"} \X Lamps) = {}
<1>1. CASE pods = "up"
  BY <1>1, OffOnly, OffDarkens DEF Disconnect, IsConnected, Outputs
<1>2. CASE pods # "up"
  <2>1. lit' \subseteq lit
    BY OffOnly DEF Disconnect
  <2> QED BY <1>2, <2>1 DEF Driven
<1> QED BY <1>1, <1>2

LEMMA DarkStep == Dark /\ [Next]_vars => Dark'
<1> SUFFICES ASSUME Dark, [Next]_vars PROVE Dark'
  OBVIOUS
<1>1. CASE ConstructController
  <2>1. lit' = lit /\ pods' = pods /\ pc = "construct" /\ pc' \notin {"connectPods", "ended"}
    BY <1>1 DEF ConstructController
  <2> QED BY <2>1 DEF Dark, Driven, DarkAtEnd
<1>2. UNCHANGED fixed => UNCHANGED strip
  BY DEF fixed, settingsVars
<1>3. CASE StartReceiver
  <2>1. pc = "start" /\ pc' \in {"loop", "retry"} /\ UNCHANGED strip
    BY <1>2, <1>3 DEF StartReceiver, Started
  <2>2. Disconnect \/ UNCHANGED <<pods, lit>>
    BY <1>3 DEF StartReceiver
  <2>3. /\ lit' \subseteq lit
        /\ pods' = pods \/ lit' \cap ({"pods"} \X Lamps) = {}
    BY <2>1, <2>2, DisconnectDarkens DEF Dark
  <2> QED BY <2>1, <2>3, DarkStays
<1>4. CASE StartSerial
  <2>1. pc = "start" /\ pc' = "connectPods" /\ pods' = "none" /\ UNCHANGED strip /\ Disconnect
    BY <1>2, <1>4 DEF StartSerial, CloseConnections
  <2>2. lit' \subseteq lit /\ lit' \cap ({"pods"} \X Lamps) = {}
    BY <2>1, DisconnectDarkens DEF Dark
  <2>3. lit' \cap ({"strip"} \X Lamps) # {} => strip = "up"
    BY <2>1, <2>2 DEF Dark, Driven
  <2> QED BY <2>1, <2>2, <2>3 DEF Dark, Driven, DarkAtEnd
<1>5. CASE ConnectPods
  <2>1. pc = "connectPods" /\ pc' \in {"connectAdapter", "loop", "retry"} /\ lit' = lit /\ UNCHANGED strip
    BY <1>2, <1>5 DEF ConnectPods, Started
  <2>2. lit \cap ({"pods"} \X Lamps) = {}
    BY <2>1 DEF Dark, Driven
  <2> QED BY <2>1, <2>2, DarkStays
<1>6. CASE FindPort \/ OpenAdapter \/ StopWaiting \/ Retry
  <2>1. UNCHANGED <<strip, pods, lit>> /\ pc \notin {"ended", "crashed"}
    BY <1>2, <1>6 DEF FindPort, OpenAdapter, StopWaiting, Retry
  <2>2. pc' \notin {"construct", "connectPods", "ended"}
    BY <1>6 DEF FindPort, OpenAdapter, StopWaiting, Retry, Started
  <2> QED BY <2>1, <2>2, DarkStays
<1>7. CASE (\E c \in Commands : Rumble(c)) \/ PollNetwork
  <2>1. pc = "loop" /\ UNCHANGED <<pc, pods, strip>>
    BY <1>2, <1>7 DEF Rumble, PollNetwork, mainVars
  <2>2. lit' = lit \/ \E c : lit' \in Handled(c)
    BY <1>7 DEF Rumble, PollNetwork
  <2>3. CASE lit' = lit
    BY <2>1, <2>3, DarkStays
  <2>4. ASSUME NEW c, lit' \in Handled(c) PROVE Dark'
    BY <2>1, <2>4, DarkShows
  <2> QED BY <2>2, <2>3, <2>4
<1>8. CASE NoData \/ PollClosed \/ LeaveLoop \/ Signal \/ PlugIn \/ Network
  <2>1. UNCHANGED <<lit, pods, strip>>
    BY <1>2, <1>8 DEF NoData, PollClosed, LeaveLoop, Signal, PlugIn, Network, mainVars
  <2>2. pc' = pc \/ (pc = "loop" /\ pc' \in {"loop", "restart", "stop"})
    BY <1>8 DEF NoData, PollClosed, LeaveLoop, Signal, PlugIn, Network, mainVars
  <2> QED BY <2>1, <2>2, DarkStays
<1>9. CASE Restart \/ StopMain
  <2>1. /\ pc \in {"restart", "stop"} /\ pc' \in {"start", "destroy"} /\ UNCHANGED strip
        /\ lit' \in LitAfterStop
        /\ pods' = pods \/ ~(listener \/ sender)
    BY <1>2, <1>9 DEF Restart, StopMain, Stop
  <2>2. lit' \subseteq lit /\ (lit' \cap ({"pods"} \X Lamps) # {} => listener \/ sender)
    BY <2>1, StopDarkens DEF Dark
  <2> QED BY <2>1, <2>2, DarkStays
<1>10. CASE Destroy
  <2>1. CASE pc' = "crashed"
    BY <2>1 DEF Dark, Driven, DarkAtEnd
  <2>2. CASE pc' = "ended"
    <3>1. PICK lamps \in LitAfterStop : lit' = EndPods(TurnOff(lamps))
      BY <1>10, <2>2 DEF Destroy
    <3>2. /\ lamps \cap ({"pods"} \X Lamps) # {} => pods = "up"
          /\ lamps \cap ({"strip"} \X Lamps) # {} => strip = "up"
      BY <1>10, StopDarkens DEF Destroy, Dark
    <3>3. /\ TurnOff(lamps) \subseteq lamps
          /\ TurnOff(lamps) \cap ({"strip"} \X Lamps) = {}
      BY <3>2 DEF TurnOff
    <3>4. /\ lit' \subseteq TurnOff(lamps)
          /\ lit' \cap ({"pods"} \X Lamps) = {}
      BY <3>1, <3>2, <3>3 DEF EndPods
    <3>5. lit' \cap ({"pods", "strip"} \X Lamps) = {}
      BY <3>3, <3>4
    <3> QED BY <2>2, <3>5 DEF Dark, Driven, DarkAtEnd
  <2> QED BY <1>10, <2>1, <2>2 DEF Destroy
<1>11. CASE PullOut
  <2>1. PICK d \in plugged : /\ pods' = IF d = "pods" /\ IsConnected THEN "gone" ELSE pods
                             /\ lit' = lit \ ({d} \X Lamps)
    BY <1>11 DEF PullOut
  <2>2. pc' = pc /\ UNCHANGED strip /\ lit' \subseteq lit
    BY <1>2, <1>11, <2>1 DEF PullOut
  <2>3. pods' = pods \/ (pods # "none" /\ lit' \cap ({"pods"} \X Lamps) = {})
    BY <2>1 DEF IsConnected
  <2>4. pc = "connectPods" => pods = "none"
    BY DEF Dark, Driven
  <2> QED BY <2>2, <2>3, <2>4, DarkStays
<1>12. CASE \E p \in wire : ThereHears(p)
  <2>1. PICK p \in wire : ThereHears(p)
    BY <1>12
  <2>2. lit' = Shows(p.weights, {"there"}) /\ UNCHANGED <<pc, pods, strip>>
    BY <1>2, <2>1 DEF ThereHears, mainVars
  <2>3. lit' \subseteq lit \cup ({"there"} \X Lamps)
    BY <2>2 DEF Shows, Lamps
  <2> QED BY <2>2, <2>3, DarkStays
<1>13. CASE Press
  <2>1. UNCHANGED <<pc, pods, strip>> /\ pc \notin {"construct", "ended", "crashed"}
    BY <1>2, <1>13 DEF Press, mainVars
  <2>2. PICK command \in Commands : lit' = Shows(command, Outputs)
    BY <1>13 DEF Press
  <2>3. lit' \in Handled(command)
    BY <2>2 DEF Handled
  <2> QED BY <2>1, <2>3, ShownIsDriven DEF Dark, Driven, DarkAtEnd
<1>14. CASE UNCHANGED vars
  BY <1>14, DarkStays DEF vars, settingsVars, mainVars
<1> QED BY <1>1, <1>3, <1>4, <1>5, <1>6, <1>7, <1>8, <1>9, <1>10, <1>11, <1>12, <1>13,
           <1>14 DEF Next, Main, StartSteps

\* However the program was configured, whatever a held button keeps SK_ALL_OFF from and
\* whenever one is pressed, and whenever the program is told to end: when it has ended,
\* pods and strip are dark (Stop, ~LEDArray, ~StageKitManager).
THEOREM EndsDark == Spec => []DarkAtEnd
<1>1. Dark => DarkAtEnd
  BY DEF Dark
<1> QED BY <1>1, DarkStart, DarkStep, PTL DEF Spec

-----------------------------------------------------------------------------
(* One source of light data *)

NetOK ==
    /\ DOMAIN net = {"socket", "expected", "type", "weights"}
    /\ net = [f \in DOMAIN net |-> net[f]]
    /\ net.socket \in {"none", "receiver", "sender"}

LEMMA SocketOf ==
  ASSUME NetOK, NEW e, NEW p
  PROVE  /\ net' = StopNetwork(net) => NetOK' /\ net'.socket = "none"
         /\ net' = Receiver(net, e) => NetOK' /\ net'.socket = "receiver"
         /\ net' = Sender(net) => NetOK' /\ net'.socket = "sender"
         /\ net' = Heard(net, p) => NetOK' /\ net'.socket = net.socket
BY DEF NetOK, StopNetwork, Receiver, Sender, Heard

\* The game is listened to only after the constructor, and then not with NETWORK enabled:
\* until that section was read nothing is decided, and RB3E comes before it.
Sources ==
    /\ NetOK
    /\ net.socket = "receiver" => listener /\ stage = "done"
    /\ pc = "construct" => net.socket # "receiver"
    /\ pc \notin {"construct", "crashed"} => stage = "done"
    /\ stage \in {"load", "SLEEP_TIMES", "RB3E"} => ~listener
    /\ stage \notin {"load", "SLEEP_TIMES", "RB3E", "NETWORK", "thrown"} /\ listener
         => Meant("NETWORK", "ENABLED") # 1

LEMMA SourcesStart == Init => Sources
BY DEF Init, SettingsInit, NetInit, Sources, NetOK

\* A section that is not there says nothing.
LEMMA MissingSaysNothing ==
  ASSUME IniInv, NEW s, NEW t, ~FindSection(s)
  PROVE  Meant(s, t) = Absent(s, t)
<1>1. ASSUME NEW n \in Read, Says(n, s, t) PROVE FALSE
  <2>1. PICK j \in DOMAIN sections : Under(n, sections[j].name)
    BY <1>1 DEF IniInv, Found, Says
  <2>2. n \in Nat
    BY DEF Read
  <2>3. sections[j].name = s
    BY <1>1, <2>1, <2>2, UnderOne DEF Says
  <2> QED BY <2>3 DEF FindSection
<1> QED BY <1>1 DEF Meant

LEMMA NetworkDecides ==
  ASSUME Inv, stage = "NETWORK", ReadSection, stage' # "thrown", listener'
  PROVE  Meant("NETWORK", "ENABLED") # 1
<1> DEFINE now == SetSection(stage)
<1>1. now \in DOMAIN sections /\ sections[now].name = "NETWORK"
  BY SetToIt DEF Inv, CurrentOK, IniInv, ReadSection, IsThere
<1>2. Clip("ENABLED", Get(now, "NETWORK", "ENABLED")) = Meant("NETWORK", "ENABLED")
  BY <1>1, GetIsMeant DEF Inv
<1>3. Clip("ENABLED", Get(now, "NETWORK", "ENABLED")) = Get(now, "NETWORK", "ENABLED")
  BY DEF Clip
<1>4. Modes(stage, Get(now, stage, "ENABLED") = 1)
  BY DEF ReadSection
<1>5. Get(now, "NETWORK", "ENABLED") # 1
  BY <1>4 DEF Modes
<1> QED BY <1>2, <1>3, <1>5

LEMMA MeantStays == UNCHANGED <<file, next>> => \A s, t : Meant(s, t)' = Meant(s, t)
BY DEF Meant, Read, Says, Under, IsHeader

LEMMA ConstructKeepsSources ==
  ASSUME Inv, Sources, ConstructController
  PROVE  Sources'
<1>1. pc = "construct" /\ net' = net /\ net.socket # "receiver" /\ NetOK'
  BY DEF ConstructController, Sources, NetOK, netVars
<1>2. CASE Construct /\ pc' = pc
  <2>1. CASE LoadFile
    <3>1. stage = "load" /\ ~listener
      BY <2>1 DEF LoadFile, Sources
    <3>2. ~listener'
      BY <2>1, <3>1 DEF LoadFile, settingsVars
    <3> QED BY <1>1, <1>2, <3>2 DEF Sources
  <2>2. CASE ReadSection
    <3>1. UNCHANGED <<file, next>> /\ stage' \in {After[stage], "thrown"} /\ stage \in DOMAIN After
      BY <2>2 DEF ReadSection
    <3>2. stage' = "thrown" => listener' = listener
      BY <2>2 DEF ReadSection, After
    <3>3. stage' # "thrown" => Modes(stage, Get(SetSection(stage), stage, "ENABLED") = 1)
      BY <2>2 DEF ReadSection
    <3>4. CASE stage' = "thrown"
      BY <1>1, <1>2, <3>4 DEF Sources
    <3>5. CASE stage' = After[stage] /\ stage' # "thrown"
      <4>1. CASE stage = "SLEEP_TIMES" \/ stage = "RB3E"
        <5>1. stage = "SLEEP_TIMES" => ~listener'
          BY <3>3, <3>5 DEF Modes, Sources
        <5>2. stage' \in {"RB3E", "NETWORK"} /\ (stage' = "RB3E" => stage = "SLEEP_TIMES")
          BY <3>5, <4>1 DEF After
        <5> QED BY <1>1, <1>2, <5>1, <5>2 DEF Sources
      <4>2. CASE stage = "NETWORK"
        <5>1. listener' => Meant("NETWORK", "ENABLED") # 1
          BY <2>2, <3>5, <4>2, NetworkDecides
        <5>2. stage' = "STAGEKIT_CONFIG"
          BY <3>5, <4>2 DEF After
        <5> QED BY <1>1, <1>2, <3>1, <5>1, <5>2, MeantStays DEF Sources
      <4>3. CASE stage \notin {"SLEEP_TIMES", "RB3E", "NETWORK"}
        <5>1. listener' = listener
          BY <3>3, <3>5, <4>3 DEF Modes
        <5>2. /\ stage \notin {"load", "SLEEP_TIMES", "RB3E", "NETWORK", "thrown"}
              /\ stage' \notin {"load", "SLEEP_TIMES", "RB3E", "NETWORK"}
          BY <2>2, <3>5, <4>3 DEF After, ReadSection
        <5> QED BY <1>1, <1>2, <3>1, <5>1, <5>2, MeantStays DEF Sources
      <4> QED BY <4>1, <4>2, <4>3
    <3> QED BY <3>1, <3>4, <3>5
  <2>3. CASE SkipSection
    <3>1. UNCHANGED <<file, next, listener>> /\ stage \in DOMAIN After \ {"load", "strip"} /\ ~FindSection(stage)
      BY <2>3 DEF SkipSection, IsThere, iniVars
    <3>2. /\ stage' \notin {"load", "SLEEP_TIMES"}
          /\ stage' = "RB3E" => stage = "SLEEP_TIMES"
          /\ stage' \notin {"load", "SLEEP_TIMES", "RB3E", "NETWORK", "thrown"}
               => stage \notin {"load", "SLEEP_TIMES", "RB3E", "thrown"}
      BY <2>3, <3>1 DEF SkipSection, After
    <3>3. stage = "NETWORK" => Meant("NETWORK", "ENABLED") # 1
      BY <3>1, MissingSaysNothing DEF Inv, Absent, Texts
    <3> QED BY <1>1, <1>2, <3>1, <3>2, <3>3, MeantStays DEF Sources
  <2>4. CASE OpenStrip
    <3>1. UNCHANGED <<file, next, listener>> /\ stage = "strip"
      BY <2>4 DEF OpenStrip, iniVars
    <3>2. stage' \in {"thrown", "done", "NO_DATA"}
      BY <2>4 DEF OpenStrip, After
    <3> QED BY <1>1, <1>2, <3>1, <3>2, MeantStays DEF Sources
  <2> QED BY <1>2, <2>1, <2>2, <2>3, <2>4 DEF Construct
<1>3. CASE UNCHANGED <<iniVars, settingsVars>> /\ (pc' = "crashed" \/ stage = "done")
  <2>1. UNCHANGED <<file, next, stage, listener>>
    BY <1>3 DEF iniVars, settingsVars
  <2> QED BY <1>1, <1>3, <2>1, MeantStays DEF Sources
<1> QED BY <1>2, <1>3 DEF ConstructController

LEMMA SourcesStep == Inv /\ Sources /\ [Next]_vars => Sources'
<1> SUFFICES ASSUME Inv, Sources, [Next]_vars PROVE Sources'
  OBVIOUS
<1>1. CASE ConstructController
  BY <1>1, ConstructKeepsSources
<1>2. ASSUME UNCHANGED <<file, next, stage, listener>>, NetOK',
             net'.socket = "receiver" => listener /\ stage = "done",
             pc' = "construct" => net' = net,
             pc' \in {"construct", "crashed"} \/ pc # "construct",
             pc' = "construct" => pc = "construct",
             pc = "crashed" => pc' = "crashed"
      PROVE  Sources'
  BY <1>2, MeantStays DEF Sources
<1>3. UNCHANGED fixed => UNCHANGED <<file, next, stage, listener>>
  BY DEF fixed, settingsVars
<1>4. UNCHANGED net => NetOK' /\ (net'.socket = "receiver" => listener /\ stage = "done")
  BY DEF Sources, NetOK
<1>5. NetOK /\ (pc \notin {"construct", "crashed"} => stage = "done")
  BY DEF Sources
<1>6. CASE StartReceiver
  <2>1. listener /\ stage = "done" /\ pc' \in {"loop", "retry"} /\ pc = "start"
    BY <1>5, <1>6 DEF StartReceiver, Started
  <2>2. NetOK'
    BY <1>5, <1>6, SocketOf DEF StartReceiver
  <2>3. UNCHANGED fixed
    BY <1>6 DEF StartReceiver
  <2> QED BY <1>2, <1>3, <2>1, <2>2, <2>3
<1>7. CASE StartSerial
  <2>1. pc' = "connectPods" /\ pc = "start" /\ UNCHANGED fixed
    BY <1>7 DEF StartSerial
  <2>2. net' = net \/ net' = Sender(net) \/ net' = StopNetwork(net)
    BY <1>7 DEF StartSerial
  <2>3. NetOK' /\ (net'.socket = "receiver" => listener /\ stage = "done")
    BY <1>4, <1>5, <2>2, SocketOf
  <2> QED BY <1>2, <1>3, <2>1, <2>3
<1>8. CASE PollNetwork
  <2>1. pc' = pc /\ pc = "loop" /\ UNCHANGED fixed
    BY <1>8 DEF PollNetwork, mainVars
  <2>2. listener /\ stage = "done"
    BY <1>5, <1>8 DEF PollNetwork
  <2>3. NetOK'
    <3>1. PICK p \in wire : net' = IF Accepts(net, p) THEN Heard(net, p) ELSE net
      BY <1>8 DEF PollNetwork
    <3>2. CASE net' = Heard(net, p)
      BY <1>5, <3>2, SocketOf
    <3> QED BY <1>4, <3>1, <3>2
  <2> QED BY <1>2, <1>3, <2>1, <2>2, <2>3
<1>9. CASE Restart \/ StopMain \/ Destroy
  <2>1. pc \in {"restart", "stop", "destroy"} /\ pc' \in {"start", "destroy", "ended", "crashed"} /\ UNCHANGED fixed
    BY <1>9 DEF Restart, StopMain, Destroy
  <2>2. net' = net \/ net' = StopNetwork(net)
    BY <1>9 DEF Restart, StopMain, Stop, Destroy
  <2>3. NetOK' /\ (net'.socket = "receiver" => listener /\ stage = "done")
    BY <1>4, <1>5, <2>2, SocketOf
  <2> QED BY <1>2, <1>3, <2>1, <2>3
<1>10. CASE ConnectPods \/ FindPort \/ OpenAdapter \/ StopWaiting \/ Retry \/ NoData \/ PollClosed \/ LeaveLoop
  <2>1. /\ pc \notin {"construct", "crashed"} /\ pc' # "construct"
        /\ UNCHANGED fixed /\ UNCHANGED net
    BY <1>10 DEF ConnectPods, FindPort, OpenAdapter, StopWaiting, Retry, NoData, PollClosed, LeaveLoop,
                 Started, netVars
  <2> QED BY <1>2, <1>3, <1>4, <2>1
<1>11. CASE \E c \in Commands : Rumble(c)
  <2>1. pc' = pc /\ UNCHANGED fixed /\ UNCHANGED net
    BY <1>11 DEF Rumble
  <2>2. pc' = "construct" \/ pc # "construct"
    BY <2>1
  <2>3. pc = "loop"
    BY <1>11 DEF Rumble
  <2> QED BY <1>2, <1>3, <1>4, <2>1, <2>2, <2>3
<1>12. CASE Signal \/ PlugIn \/ PullOut \/ Press \/ (\E p \in wire : ThereHears(p)) \/ Network
  <2>1. pc' = pc /\ UNCHANGED fixed /\ UNCHANGED net
    BY <1>12 DEF Signal, PlugIn, PullOut, Press, ThereHears, Network, Lose, ForeignSends, mainVars, netVars
  <2>2. pc' = "construct" \/ pc # "construct"
    BY <2>1
  <2> QED BY <1>2, <1>3, <1>4, <2>1, <2>2
<1>13. CASE UNCHANGED vars
  <2>1. pc' = pc /\ UNCHANGED <<file, next, stage, listener>> /\ UNCHANGED net
    BY <1>13 DEF vars, settingsVars, mainVars, iniVars, netVars
  <2>2. pc' = "construct" \/ pc # "construct"
    BY <2>1
  <2> QED BY <1>2, <1>4, <2>1, <2>2
<1> QED BY <1>1, <1>6, <1>7, <1>8, <1>9, <1>10, <1>11, <1>12, <1>13 DEF Next, Main, StartSteps

LEMMA SourcesAlways == Spec => []Sources
<1>1. Spec => []Inv
  BY Invariant
<1> QED BY <1>1, SourcesStart, SourcesStep, PTL DEF Spec

\* However lights.ini is laid out and however often the program starts anew: it listens
\* to the network only with the adapter closed and NETWORK not enabled.
THEOREM OneSourceOnly == Spec => []OneSource
<1>1. Held /\ Sources => OneSource
  BY DEF Held, Sources, OneSource
<1> QED BY <1>1, HeldAlways, SourcesAlways, PTL

-----------------------------------------------------------------------------
(* The types *)

LimitOK ==
    <<"NO_SERIAL_DATA", "NO_SERIAL_DATA_SECONDS">> \in DOMAIN setting
      => setting[<<"NO_SERIAL_DATA", "NO_SERIAL_DATA_SECONDS">>] \in Nat

\* Silence passes the limit by one, and then is on its way to be cleared by the restart
\* it led to, which may fail but not without coming back.
Silent ==
    /\ LimitOK
    /\ silence \in Nat /\ silence <= Limit + 1
    /\ silence > Limit => pc = "restart" \/ restarting
    /\ restarting => pc \in {"start", "connectPods", "connectAdapter", "awaitAdapter", "crashed"}
    /\ pc = "construct" => silence = 0

OthersOK ==
    /\ pc \in {"construct", "start", "connectPods", "connectAdapter", "awaitAdapter", "retry",
               "loop", "restart", "stop", "destroy", "ended", "crashed"}
    /\ running \in BOOLEAN /\ restarting \in BOOLEAN
    /\ plugged \subseteq {"pods", "adapter"}
    /\ strip \in {"none", "dark", "up"}
    /\ lit \subseteq {"pods", "strip", "there"} \X Lamps
    /\ dmxified \in BOOLEAN /\ engine \in BOOLEAN

WireOK == IsFiniteSet(wire) /\ Cardinality(wire) <= Capacity

LEMMA LimitNatural == LimitOK => Limit \in Nat
BY SilenceAssumption DEF LimitOK, Limit

\* What std::stoi has not thrown at is a number.
LEMMA NumberRead ==
  ASSUME Inv, LimitOK, ReadSection
  PROVE  LimitOK'
<1> DEFINE now == SetSection(stage)
           toks == Wanted(now, stage)
           q == <<"NO_SERIAL_DATA", "NO_SERIAL_DATA_SECONDS">>
<1>1. now \in DOMAIN sections
  BY SetToIt DEF Inv, CurrentOK, IniInv, ReadSection, IsThere
<1>2. CASE UNCHANGED setting
  BY <1>2 DEF LimitOK
<1>3. CASE q \in DOMAIN setting /\ Assign(now, stage, toks)
  BY <1>3 DEF LimitOK, Assign
<1>4. CASE /\ q \notin DOMAIN setting /\ q \in DOMAIN setting'
           /\ Assign(now, stage, toks) /\ ~Throws(now, stage, toks \ Texts(stage))
  <2> DEFINE t == "NO_SERIAL_DATA_SECONDS"
  <2> HIDE DEF now
  <2>1. \E u \in toks : q = <<stage, u>>
    BY <1>4 DEF Assign
  <2>2. stage = "NO_SERIAL_DATA" /\ t \in toks
    BY <2>1
  <2>3. Texts(stage) = {}
    BY <2>2 DEF Texts
  <2>4. Get(now, stage, t) # Empty
    BY <1>4, <2>2, <2>3 DEF Throws
  <2>5. Get(now, stage, t) \in Nat
    <3>1. CASE t \in DOMAIN sections[now].tokens
      <4>1. sections[now] \in SectionType
        BY <1>1 DEF Inv, IniInv, IniTypeOK
      <4>2. PICK T \in SUBSET Tokens : sections[now].tokens \in [T -> Values]
        BY <4>1 DEF SectionType
      <4>3. sections[now].tokens[t] \in Values
        BY <3>1, <4>2
      <4> QED BY <2>4, <3>1, <4>3, ValuesAssumption DEF Get, Value, TokenExists
    <3>2. CASE t \notin DOMAIN sections[now].tokens
      BY <2>3, <3>2 DEF Get, Value, TokenExists, Absent
    <3> QED BY <3>1, <3>2
  <2>6. setting'[q] = Clip(t, Get(now, stage, t))
    BY <1>4, <2>2 DEF Assign
  <2> QED BY <2>5, <2>6 DEF Clip, LimitOK
<1> QED BY <1>2, <1>3, <1>4 DEF ReadSection, LimitOK

LEMMA LimitStep == Inv /\ LimitOK /\ [Next]_vars => LimitOK'
<1> SUFFICES ASSUME Inv, LimitOK, [Next]_vars PROVE LimitOK'
  OBVIOUS
<1>1. CASE ReadSection
  BY <1>1, NumberRead
<1>2. CASE UNCHANGED setting
  BY <1>2 DEF LimitOK
<1>3. ConstructController => ReadSection \/ UNCHANGED setting
  BY DEF ConstructController, Construct, LoadFile, SkipSection, OpenStrip, settingsVars
<1>4. UNCHANGED fixed \/ UNCHANGED vars => UNCHANGED setting
  BY DEF fixed, vars, settingsVars
<1>5. CASE StartReceiver \/ StartSerial \/ ConnectPods \/ FindPort \/ OpenAdapter \/ StopWaiting \/ Retry
  BY <1>2, <1>4, <1>5 DEF StartReceiver, StartSerial, ConnectPods, FindPort, OpenAdapter, StopWaiting, Retry
<1>6. CASE (\E c \in Commands : Rumble(c)) \/ NoData \/ PollClosed \/ PollNetwork
  BY <1>2, <1>4, <1>6 DEF Rumble, NoData, PollClosed, PollNetwork
<1>7. CASE Restart \/ LeaveLoop \/ StopMain \/ Destroy
  BY <1>2, <1>4, <1>7 DEF Restart, LeaveLoop, StopMain, Destroy
<1>8. CASE Signal \/ PlugIn \/ PullOut \/ Press \/ (\E p \in wire : ThereHears(p)) \/ Network
  BY <1>2, <1>4, <1>8 DEF Signal, PlugIn, PullOut, Press, ThereHears, Network
<1> QED BY <1>1, <1>2, <1>3, <1>4, <1>5, <1>6, <1>7, <1>8 DEF Next, Main, StartSteps

LEMMA WireStep == WireOK /\ [Next]_vars => WireOK'
<1> SUFFICES ASSUME WireOK, [Next]_vars PROVE WireOK'
  OBVIOUS
<1>1. ASSUME wire' \subseteq wire PROVE WireOK'
  <2>1. IsFiniteSet(wire') /\ Cardinality(wire') <= Cardinality(wire)
    BY <1>1, FS_Subset DEF WireOK
  <2>2. Cardinality(wire') \in Nat /\ Cardinality(wire) \in Nat
    BY <2>1, FS_CardinalityType DEF WireOK
  <2> QED BY <2>1, <2>2, CapacityAssumption DEF WireOK
<1>2. ASSUME NEW p, Put(p) PROVE WireOK'
  <2>1. PICK kept \in SUBSET wire : Cardinality(kept) < Capacity /\ wire' = kept \cup {p}
    BY <1>2 DEF Put
  <2>2. IsFiniteSet(kept) /\ Cardinality(kept) \in Nat
    BY <2>1, FS_Subset, FS_CardinalityType DEF WireOK
  <2>3. /\ IsFiniteSet(wire')
        /\ Cardinality(wire') = IF p \in kept THEN Cardinality(kept) ELSE Cardinality(kept) + 1
    BY <2>1, <2>2, FS_AddElement
  <2> QED BY <2>1, <2>2, <2>3, CapacityAssumption DEF WireOK
<1>3. CASE \E c \in Commands : Rumble(c)
  <2>1. PICK c \in Commands : SendLightEvent(net, c)
    BY <1>3 DEF Rumble
  <2> QED BY <1>1, <1>2, <2>1 DEF SendLightEvent
<1>4. CASE PollNetwork \/ (\E p \in wire : ThereHears(p))
  BY <1>1, <1>4 DEF PollNetwork, ThereHears, Receive
<1>5. CASE Network
  BY <1>1, <1>2, <1>5 DEF Network, Lose, ForeignSends
<1>6. CASE ConstructController \/ StartReceiver \/ StartSerial \/ ConnectPods \/ FindPort
             \/ OpenAdapter \/ StopWaiting \/ Retry
  BY <1>1, <1>6 DEF ConstructController, StartReceiver, StartSerial, ConnectPods, FindPort,
                    OpenAdapter, StopWaiting, Retry, netVars
<1>7. CASE NoData \/ PollClosed \/ Restart \/ LeaveLoop \/ StopMain \/ Destroy \/ Signal
             \/ PlugIn \/ PullOut \/ Press \/ UNCHANGED vars
  BY <1>1, <1>7 DEF NoData, PollClosed, Restart, LeaveLoop, StopMain, Destroy, Signal, PlugIn,
                    PullOut, Press, netVars, vars
<1> QED BY <1>3, <1>4, <1>5, <1>6, <1>7 DEF Next, Main, StartSteps

LEMMA SilentStep == Inv /\ Silent /\ [Next]_vars => Silent'
<1> SUFFICES ASSUME Inv, Silent, [Next]_vars PROVE Silent'
  OBVIOUS
<1>1. LimitOK' /\ Limit' \in Nat /\ Limit \in Nat
  <2>1. LimitOK' /\ LimitOK
    BY LimitStep DEF Silent
  <2>2. Limit' \in Nat
    BY <2>1, SilenceAssumption DEF LimitOK, Limit
  <2> QED BY <2>1, <2>2, LimitNatural
<1> USE DEF Silent
<1>2. UNCHANGED fixed => Limit' = Limit
  BY DEF fixed, settingsVars, Limit
<1>3. CASE ConstructController
  <2>1. pc = "construct" /\ silence' = silence /\ restarting' = restarting
    BY <1>3 DEF ConstructController
  <2>2. silence' = 0 /\ ~restarting
    BY <2>1
  <2>3. ~restarting'
    BY <2>1, <2>2
  <2>4. \A limit \in Nat : 0 <= limit + 1 /\ ~(0 > limit)
    OBVIOUS
  <2>5. silence' \in Nat /\ silence' <= Limit' + 1 /\ ~(silence' > Limit')
    BY <1>1, <2>2, <2>4
  <2> QED BY <1>1, <2>2, <2>3, <2>5
<1>4. ASSUME NEW ok, Started(ok), Limit' = Limit, pc \notin {"construct", "restart"}
      PROVE  Silent'
  BY <1>1, <1>4 DEF Started
<1>5. CASE StartReceiver
  BY <1>2, <1>4, <1>5 DEF StartReceiver
<1>6. CASE StartSerial
  BY <1>1, <1>2, <1>6 DEF StartSerial
<1>7. CASE ConnectPods
  <2>1. CASE pods' = "up"
    BY <1>1, <1>2, <1>7, <2>1 DEF ConnectPods
  <2>2. CASE pods' # "up"
    BY <1>2, <1>4, <1>7, <2>2 DEF ConnectPods
  <2> QED BY <2>1, <2>2
<1>8. CASE FindPort
  <2>1. pc = "connectAdapter" /\ UNCHANGED fixed
    BY <1>8 DEF FindPort
  <2>2. \/ \E ok \in BOOLEAN : Started(ok)
        \/ pc' \in {"crashed", "awaitAdapter"} /\ UNCHANGED <<restarting, silence>>
    BY <1>8 DEF FindPort
  <2>3. CASE \E ok \in BOOLEAN : Started(ok)
    BY <1>2, <1>4, <2>1, <2>3
  <2>4. CASE pc' \in {"crashed", "awaitAdapter"} /\ UNCHANGED <<restarting, silence>>
    BY <1>1, <1>2, <2>1, <2>4
  <2> QED BY <2>2, <2>3, <2>4
<1>9. CASE OpenAdapter \/ StopWaiting
  BY <1>2, <1>4, <1>9 DEF OpenAdapter, StopWaiting
<1>10. CASE Retry \/ PollClosed \/ LeaveLoop
  BY <1>1, <1>2, <1>10 DEF Retry, PollClosed, LeaveLoop
<1>11. CASE \E c \in Commands : Rumble(c)
  BY <1>1, <1>2, <1>11 DEF Rumble
<1>12. CASE NoData
  BY <1>1, <1>2, <1>12 DEF NoData
<1>13. CASE PollNetwork \/ PlugIn \/ Press \/ (\E p \in wire : ThereHears(p)) \/ Network
  BY <1>1, <1>2, <1>13 DEF PollNetwork, PlugIn, Press, ThereHears, Network, mainVars
<1>14. CASE Restart
  BY <1>1, <1>2, <1>14 DEF Restart
<1>15. CASE StopMain \/ Destroy
  BY <1>1, <1>2, <1>15 DEF StopMain, Destroy
<1>16. CASE Signal \/ PullOut
  BY <1>1, <1>2, <1>16 DEF Signal, PullOut
<1>17. CASE UNCHANGED vars
  BY <1>1, <1>17 DEF vars, settingsVars, mainVars, Limit
<1> QED BY <1>3, <1>5, <1>6, <1>7, <1>8, <1>9, <1>10, <1>11, <1>12, <1>13, <1>14, <1>15, <1>16,
           <1>17 DEF Next, Main, StartSteps

LEMMA ShowsTyped ==
  ASSUME OthersOK, NEW command, NEW outputs, outputs \subseteq {"pods", "strip", "there"}
  PROVE  Shows(command, outputs) \subseteq {"pods", "strip", "there"} \X Lamps
BY DEF Shows, OthersOK, Lamps

LEMMA HandledTyped ==
  ASSUME OthersOK, NEW command, NEW lamps \in Handled(command)
  PROVE  lamps \subseteq {"pods", "strip", "there"} \X Lamps
<1>1. Outputs \subseteq {"pods", "strip"}
  BY DEF Outputs
<1> QED BY <1>1, ShowsTyped DEF Handled, OthersOK

LEMMA EngineTyped ==
  ASSUME OthersOK, UNCHANGED engine \/ engine' = (engine \/ dmxified)
  PROVE  engine' \in BOOLEAN
BY Zenon DEF OthersOK

LEMMA OthersStep == OthersOK /\ [Next]_vars => OthersOK'
<1> SUFFICES ASSUME OthersOK, [Next]_vars PROVE OthersOK'
  OBVIOUS
<1>1. UNCHANGED fixed => strip' = strip /\ dmxified' = dmxified
  BY DEF fixed, settingsVars
<1>2. /\ \A lamps \in LitAfterStop : lamps \subseteq lit
      /\ lit' = lit \/ Disconnect => lit' \subseteq lit
  <2>1. \A lamps \in Handled("allOff") : lamps \subseteq lit
    BY OffOnly DEF Handled
  <2> QED BY <2>1, OffOnly DEF LitAfterStop, EndPods, Disconnect
<1>3. CASE ConstructController
  <2>1. strip' \in {"none", "dark", "up"} /\ dmxified' \in BOOLEAN
    BY <1>3 DEF OthersOK, ConstructController, Construct, LoadFile, ReadSection, SkipSection,
                OpenStrip, Modes, settingsVars
  <2> QED BY <1>3, <2>1 DEF OthersOK, ConstructController
<1>4. CASE StartReceiver \/ StartSerial \/ ConnectPods \/ FindPort \/ OpenAdapter \/ StopWaiting \/ Retry
  <2>1. UNCHANGED <<strip, dmxified, plugged, running, engine>> /\ lit' \subseteq lit
    BY <1>1, <1>2, <1>4 DEF StartReceiver, StartSerial, CloseConnections, ConnectPods, FindPort,
                            OpenAdapter, StopWaiting, Retry
  <2>2. /\ restarting' \in BOOLEAN
        /\ pc' \in {"loop", "retry", "connectPods", "connectAdapter", "awaitAdapter", "crashed",
                    "start", "stop"}
    BY <1>4 DEF OthersOK, StartReceiver, StartSerial, ConnectPods, FindPort, OpenAdapter, StopWaiting,
                Retry, Started
  <2> QED BY <2>1, <2>2 DEF OthersOK
<1>5. CASE (\E c \in Commands : Rumble(c)) \/ PollNetwork \/ Press \/ (\E p \in wire : ThereHears(p))
  <2>1. UNCHANGED <<pc, running, restarting, plugged, strip, dmxified>>
    BY <1>1, <1>5 DEF Rumble, PollNetwork, Press, ThereHears, mainVars
  <2>2. \/ lit' = lit
        \/ \E c : lit' \in Handled(c) \/ lit' = Shows(c, {"there"})
    BY <1>5 DEF Rumble, PollNetwork, Press, ThereHears, Handled
  <2>3. lit' \subseteq {"pods", "strip", "there"} \X Lamps
    BY <2>2, HandledTyped, ShowsTyped DEF OthersOK
  <2>4. UNCHANGED engine \/ engine' = (engine \/ dmxified)
    BY <1>5 DEF Rumble, PollNetwork, Press, ThereHears
  <2> QED BY <2>1, <2>3, <2>4, EngineTyped DEF OthersOK
<1>6. CASE NoData \/ PollClosed \/ LeaveLoop \/ Restart \/ StopMain \/ Destroy
  <2>1. UNCHANGED <<running, plugged, strip, dmxified>>
    BY <1>1, <1>6 DEF NoData, PollClosed, LeaveLoop, Restart, StopMain, Destroy
  <2>2. lit' \subseteq lit
    BY <1>2, <1>6 DEF NoData, PollClosed, LeaveLoop, Restart, StopMain, Destroy, Stop, TurnOff, EndPods
  <2>3. restarting' \in {restarting, TRUE}
    BY <1>6 DEF NoData, PollClosed, LeaveLoop, Restart, StopMain, Destroy
  <2>4. pc' \in {"loop", "restart", "stop", "start", "destroy", "ended", "crashed"}
    BY <1>6 DEF NoData, PollClosed, LeaveLoop, Restart, StopMain, Destroy
  <2>5. UNCHANGED engine \/ engine' = (engine \/ dmxified)
    BY <1>6 DEF NoData, PollClosed, LeaveLoop, Restart, StopMain, Destroy, Stop
  <2> QED BY <2>1, <2>2, <2>3, <2>4, <2>5, EngineTyped DEF OthersOK
<1>7. CASE Signal \/ PlugIn \/ PullOut \/ Network
  <2>1. UNCHANGED <<pc, restarting, strip, dmxified, engine>> /\ running' \in {running, FALSE} /\ lit' \subseteq lit
    BY <1>1, <1>7 DEF Signal, PlugIn, PullOut, Network, mainVars
  <2>2. plugged' \subseteq {"pods", "adapter"}
    BY <1>7 DEF OthersOK, Signal, PlugIn, PullOut, Network
  <2> QED BY <2>1, <2>2 DEF OthersOK
<1>8. CASE UNCHANGED vars
  BY <1>8 DEF OthersOK, vars, settingsVars, mainVars
<1> QED BY <1>3, <1>4, <1>5, <1>6, <1>7, <1>8 DEF Next, Main, StartSteps

LEMMA TypesStart == Init => Silent /\ OthersOK /\ WireOK
<1> SUFFICES ASSUME Init PROVE Silent /\ OthersOK /\ WireOK
  OBVIOUS
<1>1. LimitOK
  BY DEF Init, SettingsInit, LimitOK
<1>2. Silent
  BY <1>1, LimitNatural DEF Init, Silent
<1>3. WireOK
  BY FS_EmptySet, CapacityAssumption DEF Init, NetInit, WireOK
<1> QED BY <1>2, <1>3 DEF Init, SettingsInit, OthersOK

\* The variables keep their types for every lights.ini, limit of silence and capacity of
\* the network.
THEOREM TypeCorrect == Spec => []TypeOK
<1>1. Spec => [](Silent /\ OthersOK /\ WireOK)
  BY Invariant, TypesStart, SilentStep, OthersStep, WireStep, PTL DEF Spec
<1>2. Silent /\ OthersOK /\ WireOK /\ Held /\ Sources => TypeOK
  <2> SUFFICES ASSUME Silent, OthersOK, WireOK, Held, Sources PROVE TypeOK
    OBVIOUS
  <2>1. silence \in 0..(Limit + 1)
    BY LimitNatural DEF Silent
  <2> QED BY <2>1 DEF OthersOK, WireOK, Held, Sources, NetOK, TypeOK
<1> QED BY <1>1, <1>2, HeldAlways, SourcesAlways, PTL
=============================================================================
