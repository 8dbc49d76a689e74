-------------------------- MODULE EventEngineProofs --------------------------
(***************************************************************************)
(* Proofs about EventEngine, for every mapping file, any number of buttons *)
(* and every idle limit the assumptions of EventEngine allow.              *)
(***************************************************************************)
EXTENDS EventEngine, FiniteSetTheorems, TLAPS

\* The events the threads and the queue hand to doHandleInputEvent.
QueueType == {SK_NONE, "IDLE_ON", "IDLE_OFF"}

(***************************************************************************)
(* The number of rounds UpdateOverrides runs is a natural number, and is   *)
(* zero exactly when no output is processed.                               *)
(***************************************************************************)
LEMMA RoundsNatural ==
  ASSUME NEW id \in Inputs, NEW raw
  PROVE  /\ Cardinality(Processed(id, raw)) \in Nat
         /\ Cardinality(Processed(id, raw)) = 0 <=> Processed(id, raw) = {}
<1>1. Processed(id, raw) \subseteq 1..Len(Outputs[id])
  BY MappingAssumption DEF Processed, OutputsToProcess
<1>2. IsFiniteSet(1..Len(Outputs[id]))
  BY MappingAssumption, FS_Interval
<1>3. IsFiniteSet(Processed(id, raw))
  BY <1>1, <1>2, FS_Subset
<1> QED
  BY <1>3, FS_CardinalityType, FS_EmptySet

(***************************************************************************)
(* A lamp is a Boolean after any command.                                  *)
(***************************************************************************)
LEMMA LampBoolean ==
  ASSUME NEW was \in BOOLEAN, NEW on, NEW off, NEW id, NEW raw
  PROVE  Lamp(was, on, off, id, raw) \in BOOLEAN
BY DEF Lamp

(***************************************************************************)
(* One call of doHandleInputEvent preserves the types.  The event may be   *)
(* any value at all: an id the mapping lacks is rejected.                  *)
(***************************************************************************)
LEMMA HandleTyped ==
  ASSUME TypeOK, NEW t \in Threads, NEW id, NEW raw, NEW left \in QueueType,
         DoHandleInputEvent(t, id, raw, left), UNCHANGED threadVars
  PROVE  TypeOK'
<1> USE ClockAssumption DEF TypeOK, threadVars, clockVars, lampVars, Inside, QueueType, SK_NONE
<1>1. CASE RejectUnmapped(t, id, left)
  BY <1>1 DEF RejectUnmapped, Goto
<1>2. ASSUME IdleClock(id, left)
      PROVE  /\ timePassed' \in 0..ClockCap /\ idleCount' \in Nat
             /\ idleCleared' \in BOOLEAN /\ queuedEvent' \in QueueType
             /\ quiet' \in 0..ClockCap
  <2>1. CASE IsIdle(id)
    BY <1>2, <2>1 DEF IdleClock, IdleTimeout
  <2>2. CASE ~IsIdle(id)
    BY <1>2, <2>2 DEF IdleClock
  <2> QED BY <2>1, <2>2
<1>3. CASE IgnoreSpam(t, id, left)
  BY <1>2, <1>3 DEF IgnoreSpam, Goto
<1>4. CASE ProcessOutputs(t, id, raw, left)
  <2>1. IdleClock(id, left) /\ id \in Inputs
    BY <1>4 DEF ProcessOutputs
  <2>2. lit' \in BOOLEAN /\ strobe' \in BOOLEAN /\ fog' \in BOOLEAN
    BY <1>4, LampBoolean DEF ProcessOutputs, DriveLamps
  <2>3. dmx' \in Inputs \cup {SK_NONE}
    BY <1>4, <2>1 DEF ProcessOutputs, DriveLamps
  <2>4. overrides' \in [Slots -> [Prios -> Nat]]
    <3>1. Cardinality(Processed(id, raw)) \in Nat
      BY <2>1, RoundsNatural
    <3> DEFINE rounds == Cardinality(Processed(id, raw))
               entry(s, p) == IF s \notin OverrideListOf(id) \/ rounds = 0 THEN overrides[s][p]
                              ELSE IF IsNegation(id) THEN 0
                              ELSE overrides[s][p] + IF p = Priority[id] THEN rounds ELSE 0
    <3>2. overrides' = [s \in Slots |-> [p \in Prios |-> entry(s, p)]]
      BY <1>4 DEF ProcessOutputs, UpdateOverrides
    <3>3. ASSUME NEW s \in Slots, NEW p \in Prios
          PROVE  entry(s, p) \in Nat
      BY <3>1
    <3> HIDE DEF entry
    <3> QED BY <3>2, <3>3
  <2>5. pc' \in [Threads -> {"time", "add", "poll", "wait"} \cup Inside]
    BY <1>4 DEF ProcessOutputs, Goto
  <2>6. lastInputId' \in Inputs \cup {"SK_ALL_OFF"}
    BY <1>4, <2>1 DEF ProcessOutputs
  <2> QED BY <1>2, <2>1, <2>2, <2>3, <2>4, <2>5, <2>6
<1> QED BY <1>1, <1>3, <1>4 DEF DoHandleInputEvent

(***************************************************************************)
(* Type correctness.                                                       *)
(***************************************************************************)
LEMMA InitTyped == Init => TypeOK
<1> SUFFICES ASSUME Init PROVE TypeOK
  OBVIOUS
<1>1. overrides \in [Slots -> [Prios -> Nat]]
  <2>1. [p \in Prios |-> 0] \in [Prios -> Nat]
    OBVIOUS
  <2> QED BY <2>1 DEF Init
<1>2. pc \in [Threads -> {"time", "add", "poll", "wait"} \cup Inside]
  BY DEF Init
<1>3. /\ file \in [Buttons -> BOOLEAN]
      /\ known \in [Buttons -> BOOLEAN]
  BY DEF Init
<1>4. /\ addend \in 0..ClockCap /\ timePassed \in 0..ClockCap
      /\ quiet \in 0..ClockCap /\ idleCount \in Nat
  BY ClockAssumption DEF Init
<1> QED BY <1>1, <1>2, <1>3, <1>4 DEF Init, TypeOK

LEMMA NextTyped == TypeOK /\ [Next]_vars => TypeOK'
<1> SUFFICES ASSUME TypeOK, [Next]_vars PROVE TypeOK'
  OBVIOUS
<1>1. ASSUME NEW t \in Threads, HandleInputEvent(t) PROVE TypeOK'
  <2>1. queuedEvent \in QueueType
    BY DEF TypeOK, QueueType
  <2> QED BY <1>1, <2>1, HandleTyped DEF HandleInputEvent
<1>2. ASSUME NEW t \in Threads, ProcessQueuedEvent(t) PROVE TypeOK'
  <2>1. SK_NONE \in QueueType
    BY DEF QueueType
  <2> QED BY <1>2, <2>1, HandleTyped DEF ProcessQueuedEvent
<1> USE DEF TypeOK, threadVars, clockVars, lampVars, Goto, Inside
<1>3. ASSUME NEW t \in Threads, Return(t) PROVE TypeOK'
  <2>1. CASE t = Main
    BY <1>3, <2>1 DEF Return
  <2>2. CASE t # Main
    <3>1. t \in Buttons
      BY <2>2 DEF Threads
    <3> QED BY <1>3, <2>2, <3>1 DEF Return
  <2> QED BY <2>1, <2>2
<1>4. ASSUME NEW b \in Buttons, WatchFile(b) PROVE TypeOK'
  BY <1>4 DEF WatchFile, Threads
<1>5. ASSUME NEW b \in Buttons, ToggleFile(b) PROVE TypeOK'
  BY <1>5 DEF ToggleFile
<1>6. CASE ReadTimePassed
  BY <1>6, ClockAssumption DEF ReadTimePassed, Threads
<1>7. CASE WriteTimePassed
  BY <1>7, ClockAssumption DEF WriteTimePassed, Threads
<1>8. ASSUME NEW e \in GameEvents, PollEvent(e) PROVE TypeOK'
  BY <1>8 DEF PollEvent, Threads
<1>9. CASE PollNothing
  BY <1>9 DEF PollNothing, Threads
<1>10. CASE UNCHANGED vars
  BY <1>10 DEF vars
<1> QED
  BY <1>1, <1>2, <1>3, <1>4, <1>5, <1>6, <1>7, <1>8, <1>9, <1>10 DEF Next

\* Every variable keeps its type, whatever the mapping and the buttons do.
THEOREM TypeCorrect == Spec => []TypeOK
BY InitTyped, NextTyped, PTL DEF Spec

------------------------------------------------------------------------------
(***************************************************************************)
(* How the steps of the engine change the override list and who is held.   *)
(***************************************************************************)

\* An event that is not a button's own leaves the override list alone.
LEMMA OthersKeepOverrides ==
  ASSUME TypeOK, OnlyButtonsOverride,
         NEW t \in Threads, NEW id \in GameEvents \cup IdleEvents \cup {SK_NONE},
         NEW raw, NEW left, DoHandleInputEvent(t, id, raw, left)
  PROVE  overrides' = overrides
<1>1. CASE RejectUnmapped(t, id, left)
  BY <1>1 DEF RejectUnmapped
<1>2. CASE IgnoreSpam(t, id, left)
  BY <1>2 DEF IgnoreSpam
<1>3. CASE ProcessOutputs(t, id, raw, left)
  <2>1. ~IsNegation(id) /\ id \notin Buttons
    BY ThreadsAssumption DEF IsNegation
  <2>2. OverrideListOf(id) = {}
    BY <1>3, <2>1 DEF OverrideListOf, OnlyButtonsOverride, ProcessOutputs
  <2>3. overrides' = [s \in Slots |-> [p \in Prios |-> overrides[s][p]]]
    BY <1>3, <2>2 DEF ProcessOutputs, UpdateOverrides
  <2> QED BY <2>3 DEF TypeOK
<1> QED BY <1>1, <1>2, <1>3 DEF DoHandleInputEvent

\* Getting inside turns the pressed or released button, and no other.
LEMMA HandlingTurnsHeld ==
  ASSUME TypeOK, NEW t \in Threads, HandleInputEvent(t), NEW b \in Buttons
  PROVE  /\ Held(b)' <=> IF b = t THEN ~Held(b) ELSE Held(b)
         /\ b = t => (Held(b) <=> known[b])
<1>1. pc[t] = "wait" /\ known' = known
  BY DEF HandleInputEvent, threadVars
<1>2. \E label \in Inside : pc' = [pc EXCEPT ![t] = label]
  BY DEF HandleInputEvent, DoHandleInputEvent, RejectUnmapped, IgnoreSpam,
         ProcessOutputs, Goto, Inside
<1>3. known[b] \in BOOLEAN
  BY DEF TypeOK
<1>4. CASE b = t
  <2>1. pc[b] \notin Inside /\ pc'[b] \in Inside
    BY <1>1, <1>2, <1>4 DEF TypeOK, Inside
  <2> QED BY <2>1, <1>1, <1>3, <1>4 DEF Held
<1>5. CASE b # t
  <2>1. pc'[b] = pc[b]
    BY <1>2, <1>5 DEF TypeOK, Threads
  <2> QED BY <2>1, <1>1, <1>5 DEF Held
<1> QED BY <1>4, <1>5

\* A press adds entries of its priority for the slots it overrides.
LEMMA PressAddsEntries ==
  ASSUME TypeOK, NEW t \in Buttons, HandleInputEvent(t), ~known[t],
         NEW s \in Slots, NEW p \in Prios
  PROVE  overrides'[s][p] =
           IF s \in Overrides[t] /\ p = Priority[t]
           THEN overrides[s][p] + Cardinality(Processed(t, FALSE)) ELSE overrides[s][p]
<1>1. t # Main /\ t \in Inputs /\ ~IsIdle(t) /\ ~IsNegation(t)
  BY ThreadsAssumption DEF IsIdle, IsNegation
<1>2. DoHandleInputEvent(t, t, FALSE, queuedEvent)
  BY <1>1 DEF HandleInputEvent, Pending
<1>3. UpdateOverrides(t, FALSE)
  BY <1>1, <1>2 DEF DoHandleInputEvent, RejectUnmapped, IgnoreSpam, ProcessOutputs, IsSpam
<1>4. OverrideListOf(t) = Overrides[t]
  BY <1>1 DEF OverrideListOf
<1> DEFINE rounds == Cardinality(Processed(t, FALSE))
           old == overrides[s][p]
           new == overrides'[s][p]
<1>5. rounds \in Nat /\ old \in Nat
  BY <1>1, RoundsNatural DEF TypeOK
<1>6. new = IF s \notin Overrides[t] \/ rounds = 0 THEN old
            ELSE old + IF p = Priority[t] THEN rounds ELSE 0
  BY <1>1, <1>3, <1>4 DEF UpdateOverrides
<1> HIDE DEF rounds, old, new
<1>7. new = IF s \in Overrides[t] /\ p = Priority[t] THEN old + rounds ELSE old
  BY <1>5, <1>6
<1> QED BY <1>7 DEF rounds, old, new

\* A release removes every entry of its slots, unless it is overridden itself.
LEMMA ReleaseClearsEntries ==
  ASSUME TypeOK, WellNested, NEW t \in Buttons, HandleInputEvent(t), known[t],
         NEW s \in Slots, NEW p \in Prios
  PROVE  overrides'[s][p] =
           IF s \in Overrides[t] /\ OutputsToProcess(OffOf[t]) # {}
           THEN 0 ELSE overrides[s][p]
<1> DEFINE off == OffOf[t]
<1>1. t # Main /\ off \in Inputs /\ ~IsIdle(off) /\ IsNegation(off)
  BY ThreadsAssumption DEF IsIdle, IsNegation, WellNested
<1>2. Negated(off) = t
  BY ThreadsAssumption DEF Negated
<1>3. DoHandleInputEvent(t, off, FALSE, queuedEvent)
  BY <1>1 DEF HandleInputEvent, Pending
<1>4. UpdateOverrides(off, FALSE)
  BY <1>1, <1>3 DEF DoHandleInputEvent, RejectUnmapped, IgnoreSpam, ProcessOutputs, IsSpam
<1>5. OverrideListOf(off) = Overrides[t]
  BY <1>1, <1>2 DEF OverrideListOf
<1>6. \A k \in OutputsToProcess(off) : ~Throws(off, FALSE, k)
  BY DEF WellNested, OutputsToProcess
<1>7. Processed(off, FALSE) = OutputsToProcess(off)
  BY <1>6 DEF Processed
<1>8. Cardinality(OutputsToProcess(off)) = 0 <=> OutputsToProcess(off) = {}
  BY <1>1, <1>7, RoundsNatural
<1>9. overrides'[s][p] =
        IF s \notin Overrides[t] \/ Cardinality(OutputsToProcess(off)) = 0 THEN overrides[s][p]
        ELSE 0
  BY <1>1, <1>4, <1>5, <1>7 DEF UpdateOverrides
<1> QED BY <1>8, <1>9

\* The steps that handle no event of a button change neither.
LEMMA OtherStepsKeep ==
  ASSUME TypeOK, OnlyButtonsOverride, [Next]_vars,
         \A t \in Buttons : ~HandleInputEvent(t)
  PROVE  overrides' = overrides /\ \A b \in Buttons : Held(b)' <=> Held(b)
<1> USE DEF threadVars, clockVars, lampVars
<1>1. CASE HandleInputEvent(Main)
  <2>1. \A b \in Buttons : Held(b)' <=> Held(b)
    BY <1>1, HandlingTurnsHeld, ThreadsAssumption DEF Threads
  <2>2. event \in GameEvents \cup IdleEvents \cup {SK_NONE}
    BY DEF TypeOK
  <2>3. DoHandleInputEvent(Main, event, TRUE, queuedEvent)
    BY <1>1 DEF HandleInputEvent, Pending
  <2> QED BY <2>1, <2>2, <2>3, OthersKeepOverrides DEF Threads
<1>2. ASSUME NEW t \in Threads, ProcessQueuedEvent(t)
      PROVE  overrides' = overrides /\ \A b \in Buttons : Held(b)' <=> Held(b)
  <2>1. queuedEvent \in GameEvents \cup IdleEvents \cup {SK_NONE}
    BY DEF TypeOK, IdleEvents
  <2>2. overrides' = overrides
    BY <1>2, <2>1, OthersKeepOverrides DEF ProcessQueuedEvent
  <2>3. pc[t] \in Inside /\ known' = known
    BY <1>2 DEF ProcessQueuedEvent, Inside
  <2>4. \E label \in Inside : pc' = [pc EXCEPT ![t] = label]
    BY <1>2 DEF ProcessQueuedEvent, DoHandleInputEvent, RejectUnmapped, IgnoreSpam,
                ProcessOutputs, Goto, Inside
  <2>5. \A b \in Buttons : pc'[b] \in Inside <=> pc[b] \in Inside
    BY <2>3, <2>4 DEF TypeOK, Threads
  <2> QED BY <2>2, <2>3, <2>5 DEF Held
<1>3. ASSUME NEW t \in Threads, Return(t)
      PROVE  overrides' = overrides /\ \A b \in Buttons : Held(b)' <=> Held(b)
  <2>1. overrides' = overrides /\ pc[t] \in Inside
    BY <1>3 DEF Return, Inside
  <2>2. CASE t = Main
    <3>1. known' = known /\ \A b \in Buttons : pc'[b] = pc[b]
      BY <1>3, <2>2, ThreadsAssumption DEF Return, Goto, TypeOK, Threads
    <3> QED BY <2>1, <3>1 DEF Held
  <2>3. CASE t # Main
    <3>1. t \in Buttons
      BY <2>3 DEF Threads
    <3>2. pc'[t] \notin Inside /\ known'[t] = ~known[t]
      BY <1>3, <2>3, <3>1 DEF Return, Goto, Inside, TypeOK, Threads
    <3>3. \A b \in Buttons \ {t} : pc'[b] = pc[b] /\ known'[b] = known[b]
      BY <1>3, <2>3 DEF Return, Goto, TypeOK, Threads
    <3>4. Held(t)' <=> Held(t)
      BY <2>1, <3>1, <3>2 DEF Held, TypeOK
    <3>5. \A b \in Buttons \ {t} : Held(b)' <=> Held(b)
      BY <3>3 DEF Held
    <3> QED BY <2>1, <3>4, <3>5
  <2> QED BY <2>2, <2>3
<1>4. ASSUME NEW b \in Buttons, WatchFile(b)
      PROVE  overrides' = overrides /\ \A c \in Buttons : Held(c)' <=> Held(c)
  BY <1>4 DEF WatchFile, Goto, Held, Inside, TypeOK, Threads
<1>5. ASSUME NEW b \in Buttons, ToggleFile(b)
      PROVE  overrides' = overrides /\ \A c \in Buttons : Held(c)' <=> Held(c)
  BY <1>5 DEF ToggleFile, Held
<1>6. ASSUME ReadTimePassed \/ WriteTimePassed \/ PollNothing
             \/ \E e \in GameEvents : PollEvent(e)
      PROVE  overrides' = overrides /\ \A b \in Buttons : Held(b)' <=> Held(b)
  <2>1. overrides' = overrides /\ known' = known
    BY <1>6 DEF ReadTimePassed, WriteTimePassed, PollNothing, PollEvent
  <2>2. \A b \in Buttons : pc'[b] = pc[b]
    BY <1>6, ThreadsAssumption DEF ReadTimePassed, WriteTimePassed, PollNothing,
       PollEvent, Goto, TypeOK, Threads
  <2> QED BY <2>1, <2>2 DEF Held
<1>7. CASE UNCHANGED vars
  BY <1>7 DEF vars, Held
<1> QED
  BY <1>1, <1>2, <1>3, <1>4, <1>5, <1>6, <1>7 DEF Next, Threads

------------------------------------------------------------------------------
(***************************************************************************)
(* No stale override.  The interesting step is a release: if any of its    *)
(* outputs is processed all entries of the button's slots go, whoever they *)
(* belong to; if none is, a stronger held button overrides one of them and *)
(* by WellNested answers for all that the released button leaves behind.   *)
(***************************************************************************)
LEMMA PressKeepsNoStale ==
  ASSUME TypeOK, NoStaleOverride, NEW t \in Buttons, HandleInputEvent(t), ~known[t]
  PROVE  NoStaleOverride'
<1> SUFFICES ASSUME NEW s \in Slots, NEW p \in Prios, overrides'[s][p] > 0
             PROVE  \E b \in Buttons : Overriding(b, s)' /\ Priority[b] >= p
  BY DEF NoStaleOverride
<1>1. Held(t)' /\ ~Held(t)
  BY HandlingTurnsHeld DEF Threads
<1>2. \A b \in Buttons \ {t} : Held(b)' <=> Held(b)
  BY HandlingTurnsHeld DEF Threads
<1>3. CASE s \in Overrides[t] /\ p = Priority[t]
  <2>1. Priority[t] >= p
    BY <1>3, MappingAssumption, ThreadsAssumption
  <2>2. Overriding(t, s)'
    BY <1>1, <1>3 DEF Overriding
  <2> QED BY <2>1, <2>2
<1>4. CASE ~(s \in Overrides[t] /\ p = Priority[t])
  <2>1. overrides[s][p] > 0
    <3>1. overrides'[s][p] =
            IF s \in Overrides[t] /\ p = Priority[t]
            THEN overrides[s][p] + Cardinality(Processed(t, FALSE)) ELSE overrides[s][p]
      BY PressAddsEntries
    <3>2. overrides'[s][p] = overrides[s][p]
      BY <1>4, <3>1, Zenon
    <3> QED BY <3>2
  <2>2. PICK b \in Buttons : Overriding(b, s) /\ Priority[b] >= p
    BY <2>1 DEF NoStaleOverride
  <2> QED BY <2>2, <1>1, <1>2 DEF Overriding
<1> QED BY <1>3, <1>4

LEMMA ReleaseKeepsNoStale ==
  ASSUME TypeOK, NoStaleOverride, WellNested,
         NEW t \in Buttons, HandleInputEvent(t), known[t]
  PROVE  NoStaleOverride'
<1> SUFFICES ASSUME NEW s \in Slots, NEW p \in Prios, overrides'[s][p] > 0
             PROVE  \E b \in Buttons : Overriding(b, s)' /\ Priority[b] >= p
  BY DEF NoStaleOverride
<1> DEFINE off == OffOf[t]
<1>1. \A b \in Buttons \ {t} : Held(b)' <=> Held(b)
  BY HandlingTurnsHeld DEF Threads
<1>2. /\ ~(s \in Overrides[t] /\ OutputsToProcess(off) # {})
      /\ overrides[s][p] > 0
  BY ReleaseClearsEntries
<1>3. PICK b \in Buttons : Overriding(b, s) /\ Priority[b] >= p
  BY <1>2 DEF NoStaleOverride
<1>4. CASE b # t
  BY <1>1, <1>3, <1>4 DEF Overriding
<1>5. CASE b = t
  <2>1. off \in Inputs /\ Priority[off] = Priority[t] /\ DOMAIN Outputs[off] # {}
    BY DEF WellNested
  <2>2. OutputsToProcess(off) = {}
    BY <1>2, <1>3, <1>5 DEF Overriding
  <2>3. PICK k \in DOMAIN Outputs[off] : IsOverridden(Outputs[off][k].slot, Priority[off])
    BY <2>1, <2>2 DEF OutputsToProcess
  <2> DEFINE o == Outputs[off][k].slot
  <2>4. o \in Slots /\ o \in ReleaseSlots(t)
    BY <2>1, MappingAssumption DEF ReleaseSlots
  <2>5. PICK q \in Prios : q > Priority[t] /\ overrides[o][q] > 0
    BY <2>1, <2>3 DEF IsOverridden
  <2>6. PICK c \in Buttons : Overriding(c, o) /\ Priority[c] >= q
    BY <2>4, <2>5 DEF NoStaleOverride
  <2>7. Priority[c] > Priority[t] /\ Priority[c] >= p
    <3>1. /\ Priority[c] \in Nat /\ Priority[t] \in Nat
          /\ q \in Nat /\ p \in Nat
      BY MappingAssumption, ThreadsAssumption DEF Prios
    <3>2. Priority[t] >= p
      BY <1>3, <1>5
    <3> QED BY <2>5, <2>6, <3>1, <3>2
  <2>8. Overrides[t] \subseteq Overrides[c]
    BY <2>4, <2>6, <2>7 DEF WellNested, Overriding
  <2>9. c # t
    BY <2>7, MappingAssumption, ThreadsAssumption
  <2> QED BY <1>1, <1>3, <1>5, <2>6, <2>7, <2>8, <2>9 DEF Overriding
<1> QED BY <1>4, <1>5

LEMMA NextKeepsNoStale ==
  ASSUME WellNested, OnlyButtonsOverride, TypeOK, NoStaleOverride, [Next]_vars
  PROVE  NoStaleOverride'
<1>1. ASSUME NEW t \in Buttons, HandleInputEvent(t)
      PROVE  NoStaleOverride'
  BY <1>1, PressKeepsNoStale, ReleaseKeepsNoStale
<1>2. CASE \A t \in Buttons : ~HandleInputEvent(t)
  BY <1>2, OtherStepsKeep DEF NoStaleOverride, Overriding
<1> QED BY <1>1, <1>2

\* With a mapping whose overrides nest, no entry of the override list survives the
\* buttons it is owed to: whatever is pressed and released, in whatever order.
THEOREM NoStale == WellNested /\ OnlyButtonsOverride => (Spec => []NoStaleOverride)
<1>1. Init => NoStaleOverride
  BY DEF Init, NoStaleOverride
<1>2. WellNested /\ OnlyButtonsOverride /\ TypeOK /\ NoStaleOverride /\ [Next]_vars
      => NoStaleOverride'
  BY NextKeepsNoStale
<1>3. CASE WellNested /\ OnlyButtonsOverride
  <2>1. TypeOK /\ NoStaleOverride /\ [Next]_vars => NoStaleOverride'
    BY <1>2, <1>3
  <2> QED BY <1>1, <2>1, TypeCorrect, PTL DEF Spec
<1> QED BY <1>3

------------------------------------------------------------------------------
(***************************************************************************)
(* A supreme button keeps its overrides while it is held.  Its press is    *)
(* never fully overridden, because by NoStaleOverride an entry above its   *)
(* priority is owed to a stronger held button; and any release that shares *)
(* a slot with it is fully overridden, by the entries it keeps.            *)
(***************************************************************************)
LEMMA SupremePress ==
  ASSUME TypeOK, NoStaleOverride, NEW t \in Supremes, HandleInputEvent(t), ~known[t],
         NEW s \in Overrides[t]
  PROVE  \E p \in Prios : p >= Priority[t] /\ overrides'[s][p] > 0
<1> DEFINE o == Outputs[t][1].slot
           rounds == Cardinality(Processed(t, FALSE))
<1>1. /\ t \in Buttons /\ t \in Inputs /\ s \in Slots
      /\ Priority[t] \in Prios /\ Priority[t] \in Nat
  BY MappingAssumption, ThreadsAssumption DEF Supremes, Prios
<1>2. 1 \in DOMAIN Outputs[t] /\ o \in Slots
  BY <1>1, MappingAssumption DEF Supremes
<1>3. ~IsOverridden(o, Priority[t])
  <2> SUFFICES ASSUME NEW q \in Prios, q > Priority[t], overrides[o][q] > 0
               PROVE  FALSE
    BY DEF IsOverridden
  <2>1. PICK c \in Buttons : Overriding(c, o) /\ Priority[c] >= q
    BY <1>2 DEF NoStaleOverride
  <2>2. Priority[c] > Priority[t] /\ ~(Priority[c] <= Priority[t])
    <3>1. Priority[c] \in Nat /\ q \in Nat
      BY MappingAssumption, ThreadsAssumption DEF Prios
    <3> QED BY <1>1, <2>1, <3>1
  <2>3. c # t
    BY <1>1, <2>2
  <2> QED BY <2>1, <2>2, <2>3 DEF Supremes, Overriding
<1>4. 1 \in Processed(t, FALSE)
  <2>1. 1 \in OutputsToProcess(t)
    BY <1>2, <1>3 DEF OutputsToProcess
  <2>2. \A j \in OutputsToProcess(t) : ~Throws(t, FALSE, j)
    BY DEF OutputsToProcess, Supremes
  <2> QED BY <2>1, <2>2 DEF Processed
<1>5. rounds \in Nat /\ rounds # 0
  BY <1>1, <1>4, RoundsNatural
<1>6. overrides[s][Priority[t]] \in Nat
  BY <1>1 DEF TypeOK
<1>7. overrides'[s][Priority[t]] = overrides[s][Priority[t]] + rounds
  <2>1. overrides'[s][Priority[t]] =
          IF s \in Overrides[t] /\ Priority[t] = Priority[t]
          THEN overrides[s][Priority[t]] + rounds ELSE overrides[s][Priority[t]]
    BY <1>1, PressAddsEntries
  <2> QED BY <2>1, Zenon
<1> HIDE DEF rounds
<1>8. overrides'[s][Priority[t]] > 0 /\ Priority[t] >= Priority[t]
  BY <1>1, <1>5, <1>6, <1>7
<1> QED BY <1>1, <1>8

\* Another button's press only adds entries.
LEMMA OtherPressKeepsEntries ==
  ASSUME TypeOK, NEW t \in Buttons, HandleInputEvent(t), ~known[t],
         NEW s \in Slots, NEW p \in Prios, overrides[s][p] > 0
  PROVE  overrides'[s][p] > 0
<1>1. overrides'[s][p] =
        IF s \in Overrides[t] /\ p = Priority[t]
        THEN overrides[s][p] + Cardinality(Processed(t, FALSE)) ELSE overrides[s][p]
  BY PressAddsEntries
<1> DEFINE rounds == Cardinality(Processed(t, FALSE))
           old == overrides[s][p]
           new == overrides'[s][p]
<1>2. rounds \in Nat /\ old \in Nat /\ old > 0
  <2>1. t \in Inputs
    BY ThreadsAssumption
  <2>2. rounds \in Nat
    BY <2>1, RoundsNatural
  <2> QED BY <2>2 DEF TypeOK
<1>3. new = old + rounds \/ new = old
  BY <1>1, Zenon
<1> HIDE DEF rounds, old, new
<1>4. new > 0
  BY <1>2, <1>3
<1> QED BY <1>4 DEF new

\* Another button's release cannot touch the slots of a supreme button.
LEMMA OtherReleaseKeepsEntries ==
  ASSUME TypeOK, SupremeHolds, WellNested,
         NEW b \in Supremes, Held(b), NEW s \in Overrides[b],
         NEW t \in Buttons \ {b}, HandleInputEvent(t), known[t],
         NEW p \in Prios
  PROVE  overrides'[s][p] = overrides[s][p]
<1>1. b \in Buttons /\ s \in Slots
  BY MappingAssumption, ThreadsAssumption DEF Supremes
<1>2. overrides'[s][p] =
        IF s \in Overrides[t] /\ OutputsToProcess(OffOf[t]) # {} THEN 0 ELSE overrides[s][p]
  BY <1>1, ReleaseClearsEntries
<1>3. CASE Overrides[t] \cap Overrides[b] = {}
  BY <1>2, <1>3
<1>4. CASE Priority[t] < Priority[b] /\ ReleaseSlots(t) \subseteq Overrides[b]
  <2>1. ASSUME NEW k \in DOMAIN Outputs[OffOf[t]]
        PROVE  IsOverridden(Outputs[OffOf[t]][k].slot, Priority[OffOf[t]])
    <3> DEFINE o == Outputs[OffOf[t]][k].slot
    <3>1. o \in Overrides[b]
      BY <1>4 DEF ReleaseSlots
    <3>2. PICK q \in Prios : q >= Priority[b] /\ overrides[o][q] > 0
      BY <3>1 DEF SupremeHolds
    <3>3. Priority[OffOf[t]] = Priority[t]
      BY DEF WellNested
    <3>4. q > Priority[t]
      <4>1. q \in Nat /\ Priority[t] \in Nat /\ Priority[b] \in Nat
        BY <1>1, MappingAssumption, ThreadsAssumption DEF Prios
      <4> QED BY <1>4, <3>2, <4>1
    <3> QED BY <3>2, <3>3, <3>4 DEF IsOverridden
  <2>2. OutputsToProcess(OffOf[t]) = {}
    BY <2>1 DEF OutputsToProcess
  <2> QED BY <1>2, <2>2
<1> QED BY <1>1, <1>3, <1>4 DEF Supremes

LEMMA NextKeepsSupreme ==
  ASSUME WellNested, OnlyButtonsOverride, TypeOK, NoStaleOverride, SupremeHolds,
         [Next]_vars
  PROVE  SupremeHolds'
<1> SUFFICES ASSUME NEW b \in Supremes, Held(b)', NEW s \in Overrides[b]
             PROVE  \E p \in Prios : p >= Priority[b] /\ overrides'[s][p] > 0
  BY DEF SupremeHolds
<1>1. b \in Buttons /\ s \in Slots
  BY MappingAssumption, ThreadsAssumption DEF Supremes
<1>2. CASE \A t \in Buttons : ~HandleInputEvent(t)
  BY <1>1, <1>2, OtherStepsKeep DEF SupremeHolds
<1>3. ASSUME NEW t \in Buttons, HandleInputEvent(t)
      PROVE  \E p \in Prios : p >= Priority[b] /\ overrides'[s][p] > 0
  <2>1. CASE t = b
    <3>1. ~known[t]
      BY <1>1, <1>3, <2>1, HandlingTurnsHeld DEF Threads
    <3> QED BY <1>3, <2>1, <3>1, SupremePress
  <2>2. CASE t # b
    <3>1. Held(b)
      BY <1>1, <1>3, <2>2, HandlingTurnsHeld DEF Threads
    <3>2. PICK p \in Prios : p >= Priority[b] /\ overrides[s][p] > 0
      BY <3>1 DEF SupremeHolds
    <3>3. CASE ~known[t]
      BY <1>1, <1>3, <3>2, <3>3, OtherPressKeepsEntries
    <3>4. CASE known[t]
      BY <1>3, <2>2, <3>1, <3>2, <3>4, OtherReleaseKeepsEntries
    <3> QED BY <3>3, <3>4
  <2> QED BY <2>1, <2>2
<1> QED BY <1>2, <1>3

\* With a mapping whose overrides nest, a supreme button rules its slots for as
\* long as it is held, whatever the other buttons and the game do meanwhile.
THEOREM SupremeRules == WellNested /\ OnlyButtonsOverride => (Spec => []SupremeHolds)
<1>1. Init => SupremeHolds
  <2>1. ASSUME Init, NEW b \in Buttons PROVE ~Held(b)
    <3>1. pc[b] \in {"time", "poll"} /\ known[b] = FALSE
      BY <2>1 DEF Init, Threads
    <3>2. (pc[b] \in Inside) = FALSE
      BY <3>1 DEF Inside
    <3>3. known[b] = (pc[b] \in Inside)
      BY <3>1, <3>2
    <3> QED BY <3>3 DEF Held
  <2>2. Supremes \subseteq Buttons
    BY DEF Supremes
  <2> QED BY <2>1, <2>2 DEF SupremeHolds
<1>2. CASE WellNested /\ OnlyButtonsOverride
  <2>1. TypeOK /\ NoStaleOverride /\ SupremeHolds /\ [Next]_vars => SupremeHolds'
    BY <1>2, NextKeepsSupreme
  <2>2. Spec => []NoStaleOverride
    BY <1>2, NoStale
  <2> QED BY <1>1, <2>1, <2>2, TypeCorrect, PTL DEF Spec
<1> QED BY <1>2

------------------------------------------------------------------------------
(***************************************************************************)
(* The override list is bounded.  In a chained mapping every entry belongs *)
(* to one button, all of whose slots are overridden for as long as one     *)
(* entry stands: nothing weaker can release them, and what is stronger     *)
(* clears them all.  So a button whose release was blocked, and that left  *)
(* its entries behind, is blocked in its next press too.                   *)
(***************************************************************************)
Full(c) == \A s \in Overrides[c] : \E q \in Prios : q >= Priority[c] /\ overrides[s][q] > 0

Owned ==
  \A s \in Slots : \A p \in Prios :
    overrides[s][p] > 0 =>
      \E c \in Buttons : Priority[c] = p /\ s \in Overrides[c] /\ Full(c)

\* Button c is blocked by a stronger one whose list takes in its own.
BlockedBy(c, d) ==
  /\ Full(d)
  /\ Priority[d] > Priority[c]
  /\ Overrides[c] \cup PressSlots(c) \cup ReleaseSlots(c) \subseteq Overrides[d]

Counted ==
  \A c \in Buttons : \A s \in Overrides[c] :
    /\ overrides[s][Priority[c]] <= Len(Outputs[c])
    /\ ~Held(c) => overrides[s][Priority[c]] = 0 \/ \E d \in Buttons : BlockedBy(c, d)

LEMMA ButtonTyped ==
  ASSUME NEW b \in Buttons
  PROVE  /\ b \in Inputs /\ Priority[b] \in Nat /\ Priority[b] \in Prios
         /\ Overrides[b] \subseteq Slots /\ Len(Outputs[b]) \in Nat
         /\ Prios \subseteq Nat
BY MappingAssumption, ThreadsAssumption DEF Prios

LEMMA RoundsBounded ==
  ASSUME NEW id \in Inputs, NEW raw
  PROVE  Cardinality(Processed(id, raw)) <= Len(Outputs[id])
<1>1. Processed(id, raw) \subseteq 1..Len(Outputs[id]) /\ Len(Outputs[id]) \in Nat
  BY MappingAssumption DEF Processed, OutputsToProcess
<1>2. IsFiniteSet(1..Len(Outputs[id])) /\ Cardinality(1..Len(Outputs[id])) = Len(Outputs[id])
  BY <1>1, FS_Interval
<1> DEFINE done == Processed(id, raw)
           all == 1..Len(Outputs[id])
<1>3. done \in SUBSET all /\ IsFiniteSet(all)
  BY <1>1, <1>2
<1> HIDE DEF done, all
<1>4. Cardinality(done) <= Cardinality(all)
  BY <1>3, FS_Subset
<1> QED BY <1>2, <1>4 DEF done, all

\* What is all overridden by something stronger is not processed.
LEMMA NothingToProcess ==
  ASSUME TypeOK, NEW d \in Buttons, Full(d), NEW id \in Inputs, Priority[id] < Priority[d],
         {Outputs[id][k].slot : k \in DOMAIN Outputs[id]} \subseteq Overrides[d]
  PROVE  OutputsToProcess(id) = {}
<1>1. ASSUME NEW k \in DOMAIN Outputs[id]
      PROVE  IsOverridden(Outputs[id][k].slot, Priority[id])
  <2> DEFINE o == Outputs[id][k].slot
  <2>1. o \in Overrides[d]
    OBVIOUS
  <2>2. PICK q \in Prios : q >= Priority[d] /\ overrides[o][q] > 0
    BY <2>1 DEF Full
  <2>3. q > Priority[id]
    <3>1. q \in Nat /\ Priority[id] \in Nat /\ Priority[d] \in Nat
      BY ButtonTyped, MappingAssumption
    <3> QED BY <2>2, <3>1
  <2> QED BY <2>2, <2>3 DEF IsOverridden
<1> QED BY <1>1 DEF OutputsToProcess

LEMMA FullStays ==
  ASSUME TypeOK, WellNested, Chained, NEW t \in Buttons, HandleInputEvent(t),
         NEW c \in Buttons, Full(c)
  PROVE  \/ Full(c)'
         \/ known[t] /\ OutputsToProcess(OffOf[t]) # {} /\ Overrides[c] \subseteq Overrides[t]
<1>1. CASE ~known[t]
  <2>1. ASSUME NEW s \in Overrides[c]
        PROVE  \E q \in Prios : q >= Priority[c] /\ overrides'[s][q] > 0
    <3>1. PICK q \in Prios : q >= Priority[c] /\ overrides[s][q] > 0
      BY DEF Full
    <3>2. overrides'[s][q] > 0
      BY <1>1, <3>1, ButtonTyped, OtherPressKeepsEntries
    <3> QED BY <3>1, <3>2
  <2> QED BY <2>1 DEF Full
<1>2. CASE known[t] /\ (OutputsToProcess(OffOf[t]) = {} \/ Overrides[c] \cap Overrides[t] = {})
  <2>1. ASSUME NEW s \in Overrides[c]
        PROVE  \E q \in Prios : q >= Priority[c] /\ overrides'[s][q] > 0
    <3>1. PICK q \in Prios : q >= Priority[c] /\ overrides[s][q] > 0
      BY DEF Full
    <3>2. overrides'[s][q] =
            IF s \in Overrides[t] /\ OutputsToProcess(OffOf[t]) # {} THEN 0 ELSE overrides[s][q]
      BY <1>2, ButtonTyped, ReleaseClearsEntries
    <3>3. ~(s \in Overrides[t] /\ OutputsToProcess(OffOf[t]) # {})
      BY <1>2
    <3> QED BY <3>1, <3>2, <3>3
  <2> QED BY <2>1 DEF Full
<1>3. CASE known[t] /\ OutputsToProcess(OffOf[t]) # {} /\ Overrides[c] \cap Overrides[t] # {}
  <2>1. Priority[t] \in Nat /\ Priority[c] \in Nat
    BY ButtonTyped
  <2>2. CASE t = c
    BY <1>3, <2>2
  <2>3. CASE t # c /\ Priority[t] <= Priority[c]
    <3>1. Priority[t] < Priority[c] /\ ReleaseSlots(t) \subseteq Overrides[c]
      BY <1>3, <2>3 DEF Chained
    <3>2. OffOf[t] \in Inputs /\ Priority[OffOf[t]] = Priority[t]
      BY DEF WellNested
    <3>3. OutputsToProcess(OffOf[t]) = {}
      BY <3>1, <3>2, NothingToProcess DEF ReleaseSlots
    <3> QED BY <1>3, <3>3
  <2>4. CASE t # c /\ Priority[c] <= Priority[t]
    <3>1. Overrides[c] \subseteq Overrides[t]
      BY <1>3, <2>4 DEF Chained
    <3> QED BY <1>3, <3>1
  <2> QED BY <2>1, <2>2, <2>3, <2>4
<1> QED BY <1>1, <1>2, <1>3

LEMMA NextKeepsOwned ==
  ASSUME WellNested, OnlyButtonsOverride, Chained, TypeOK, Owned, [Next]_vars
  PROVE  Owned'
<1>1. CASE \A t \in Buttons : ~HandleInputEvent(t)
  BY <1>1, OtherStepsKeep DEF Owned, Full
<1>2. ASSUME NEW t \in Buttons, HandleInputEvent(t)
      PROVE  Owned'
  <2> SUFFICES ASSUME NEW s \in Slots, NEW p \in Prios, overrides'[s][p] > 0
               PROVE  \E c \in Buttons : Priority[c] = p /\ s \in Overrides[c] /\ Full(c)'
    BY DEF Owned
  <2> DEFINE rounds == Cardinality(Processed(t, FALSE))
  <2>1. rounds \in Nat
    BY ButtonTyped, RoundsNatural
  <2>2. CASE ~known[t] /\ s \in Overrides[t] /\ p = Priority[t] /\ rounds > 0
    <3>1. ASSUME NEW r \in Overrides[t]
          PROVE  overrides'[r][Priority[t]] > 0
      <4>1. overrides'[r][Priority[t]] =
              IF r \in Overrides[t] /\ Priority[t] = Priority[t]
              THEN overrides[r][Priority[t]] + rounds ELSE overrides[r][Priority[t]]
        BY <1>2, <2>2, ButtonTyped, PressAddsEntries
      <4>2. overrides'[r][Priority[t]] = overrides[r][Priority[t]] + rounds
        BY <4>1, Zenon
      <4>3. overrides[r][Priority[t]] \in Nat
        BY ButtonTyped DEF TypeOK
      <4> HIDE DEF rounds
      <4> QED BY <2>1, <2>2, <4>2, <4>3
    <3>2. Full(t)'
      BY <3>1, ButtonTyped DEF Full
    <3> QED BY <2>2, <3>2
  <2>3. CASE ~known[t] /\ ~(s \in Overrides[t] /\ p = Priority[t] /\ rounds > 0)
    <3>1. overrides'[s][p] =
            IF s \in Overrides[t] /\ p = Priority[t] THEN overrides[s][p] + rounds
            ELSE overrides[s][p]
      BY <1>2, <2>3, PressAddsEntries
    <3>2. overrides[s][p] \in Nat
      BY DEF TypeOK
    <3> HIDE DEF rounds
    <3>3. overrides'[s][p] = overrides[s][p]
      BY <2>1, <2>3, <3>1, <3>2
    <3>4. PICK c \in Buttons : Priority[c] = p /\ s \in Overrides[c] /\ Full(c)
      BY <3>3 DEF Owned
    <3>5. Full(c)'
      BY <1>2, <2>3, <3>4, FullStays
    <3> QED BY <3>4, <3>5
  <2>4. CASE known[t]
    <3>1. overrides'[s][p] =
            IF s \in Overrides[t] /\ OutputsToProcess(OffOf[t]) # {} THEN 0 ELSE overrides[s][p]
      BY <1>2, <2>4, ReleaseClearsEntries
    <3>2. /\ ~(s \in Overrides[t] /\ OutputsToProcess(OffOf[t]) # {})
          /\ overrides[s][p] > 0
      BY <3>1
    <3>3. PICK c \in Buttons : Priority[c] = p /\ s \in Overrides[c] /\ Full(c)
      BY <3>2 DEF Owned
    <3>4. Full(c)'
      BY <1>2, <3>2, <3>3, FullStays
    <3> QED BY <3>3, <3>4
  <2> QED BY <2>2, <2>3, <2>4
<1> QED BY <1>1, <1>2

\* A press: the button had no entries, or is blocked and adds none.
LEMMA PressKeepsCounted ==
  ASSUME WellNested, Chained, TypeOK, Counted,
         NEW t \in Buttons, HandleInputEvent(t), ~known[t]
  PROVE  Counted'
<1> SUFFICES ASSUME NEW c \in Buttons, NEW s \in Overrides[c]
             PROVE  /\ overrides'[s][Priority[c]] <= Len(Outputs[c])
                    /\ Held(c)' \/ overrides'[s][Priority[c]] = 0
                       \/ \E d \in Buttons : BlockedBy(c, d)'
  BY DEF Counted
<1> DEFINE old == overrides[s][Priority[c]]
           new == overrides'[s][Priority[c]]
           rounds == Cardinality(Processed(t, FALSE))
<1>1. /\ rounds \in Nat /\ rounds <= Len(Outputs[t])
      /\ rounds = 0 <=> Processed(t, FALSE) = {}
  BY ButtonTyped, RoundsNatural, RoundsBounded
<1>2. old \in Nat /\ old <= Len(Outputs[c])
  BY ButtonTyped DEF TypeOK, Counted
<1>3. new = IF s \in Overrides[t] /\ Priority[c] = Priority[t] THEN old + rounds ELSE old
  <2>1. s \in Slots /\ Priority[c] \in Prios
    BY ButtonTyped
  <2> QED BY <2>1, PressAddsEntries, Zenon
<1>4. ~Held(c) => old = 0 \/ \E d \in Buttons : BlockedBy(c, d)
  BY DEF Counted
<1>5. CASE c = t
  <2>1. ~Held(c) /\ Held(c)'
    BY <1>5, HandlingTurnsHeld DEF Threads
  <2>2. CASE old = 0
    <3> HIDE DEF old, new, rounds
    <3>1. new <= Len(Outputs[c])
      BY <1>1, <1>3, <1>5, <2>2, ButtonTyped
    <3> QED BY <2>1, <3>1 DEF new
  <2>3. ASSUME NEW d \in Buttons, BlockedBy(c, d)
        PROVE  new <= Len(Outputs[c])
    <3>1. OutputsToProcess(t) = {}
      BY <1>5, <2>3, ButtonTyped, NothingToProcess DEF BlockedBy, PressSlots
    <3>2. rounds = 0
      BY <1>1, <3>1 DEF Processed
    <3> HIDE DEF old, new, rounds
    <3> QED BY <1>2, <1>3, <3>2
  <2> QED BY <1>4, <2>1, <2>2, <2>3
<1>6. CASE c # t
  <2>1. ~(s \in Overrides[t] /\ Priority[c] = Priority[t])
    BY <1>6, ButtonTyped DEF Chained
  <2>2. new = old
    BY <1>3, <2>1, Zenon
  <2>3. Held(c)' <=> Held(c)
    BY <1>6, HandlingTurnsHeld DEF Threads
  <2>4. ASSUME NEW d \in Buttons, BlockedBy(c, d) PROVE BlockedBy(c, d)'
    BY <2>4, FullStays DEF BlockedBy
  <2> QED BY <1>2, <1>4, <2>2, <2>3, <2>4
<1> QED BY <1>5, <1>6

\* A release: it clears its slots, or the owner of the entry that blocks it answers.
LEMMA ReleaseKeepsCounted ==
  ASSUME WellNested, Chained, TypeOK, Owned, Counted,
         NEW t \in Buttons, HandleInputEvent(t), known[t]
  PROVE  Counted'
<1> SUFFICES ASSUME NEW c \in Buttons, NEW s \in Overrides[c]
             PROVE  /\ overrides'[s][Priority[c]] <= Len(Outputs[c])
                    /\ Held(c)' \/ overrides'[s][Priority[c]] = 0
                       \/ \E d \in Buttons : BlockedBy(c, d)'
  BY DEF Counted
<1> DEFINE old == overrides[s][Priority[c]]
           new == overrides'[s][Priority[c]]
<1>1. old \in Nat /\ old <= Len(Outputs[c]) /\ Len(Outputs[c]) \in Nat
  BY ButtonTyped DEF TypeOK, Counted
<1>2. new = IF s \in Overrides[t] /\ OutputsToProcess(OffOf[t]) # {} THEN 0 ELSE old
  BY ButtonTyped, ReleaseClearsEntries
<1>3. new <= Len(Outputs[c])
  BY <1>1, <1>2
<1>4. ~Held(c) => old = 0 \/ \E d \in Buttons : BlockedBy(c, d)
  BY DEF Counted
<1>5. ASSUME NEW d \in Buttons, BlockedBy(c, d)
      PROVE  new = 0 \/ BlockedBy(c, d)'
  <2>1. CASE OutputsToProcess(OffOf[t]) # {} /\ Overrides[d] \subseteq Overrides[t]
    <3>1. s \in Overrides[t]
      BY <1>5, <2>1 DEF BlockedBy
    <3> QED BY <1>2, <2>1, <3>1
  <2>2. CASE Full(d)'
    BY <1>5, <2>2 DEF BlockedBy
  <2> QED BY <1>5, <2>1, <2>2, FullStays DEF BlockedBy
<1>6. CASE c # t
  <2>1. Held(c)' <=> Held(c)
    BY <1>6, HandlingTurnsHeld DEF Threads
  <2>2. old = 0 => new = 0
    BY <1>2
  <2> QED BY <1>3, <1>4, <1>5, <2>1, <2>2
<1>7. CASE c = t
  <2>1. CASE OutputsToProcess(OffOf[t]) # {}
    BY <1>2, <1>3, <1>7, <2>1
  <2>2. CASE OutputsToProcess(OffOf[t]) = {}
    <3>1. OffOf[t] \in Inputs /\ Priority[OffOf[t]] = Priority[t] /\ DOMAIN Outputs[OffOf[t]] # {}
      BY DEF WellNested
    <3>2. PICK k \in DOMAIN Outputs[OffOf[t]] :
            IsOverridden(Outputs[OffOf[t]][k].slot, Priority[t])
      BY <2>2, <3>1 DEF OutputsToProcess
    <3> DEFINE o == Outputs[OffOf[t]][k].slot
    <3>3. o \in Slots /\ o \in ReleaseSlots(t)
      BY <3>1, MappingAssumption DEF ReleaseSlots
    <3>4. PICK q \in Prios : q > Priority[t] /\ overrides[o][q] > 0
      BY <3>2 DEF IsOverridden
    <3>5. PICK d \in Buttons : Priority[d] = q /\ o \in Overrides[d] /\ Full(d)
      BY <3>3, <3>4 DEF Owned
    <3>6. Priority[t] <= Priority[d] /\ t # d
      BY <3>4, <3>5, ButtonTyped
    <3>7. BlockedBy(c, d)
      BY <1>7, <3>3, <3>5, <3>6 DEF Chained, BlockedBy
    <3> QED BY <1>3, <1>5, <3>7
  <2> QED BY <2>1, <2>2
<1> QED BY <1>6, <1>7

LEMMA NextKeepsCounted ==
  ASSUME WellNested, OnlyButtonsOverride, Chained, TypeOK, Owned, Counted, [Next]_vars
  PROVE  Counted'
<1>1. CASE \A t \in Buttons : ~HandleInputEvent(t)
  BY <1>1, OtherStepsKeep DEF Counted, BlockedBy, Full
<1>2. ASSUME NEW t \in Buttons, HandleInputEvent(t)
      PROVE  Counted'
  BY <1>2, PressKeepsCounted, ReleaseKeepsCounted
<1> QED BY <1>1, <1>2

\* In a chained mapping the override list stays bounded for ever: the entries of one
\* priority in a slot are at most the outputs of the one button they belong to.
THEOREM OverridesStayBounded ==
  WellNested /\ OnlyButtonsOverride /\ Chained => (Spec => []OverridesBounded)
<1> SUFFICES ASSUME WellNested, OnlyButtonsOverride, Chained
             PROVE  Spec => []OverridesBounded
  OBVIOUS
<1>1. Init => Owned /\ Counted
  BY ButtonTyped DEF Init, Owned, Counted
<1>2. TypeOK /\ Owned /\ Counted /\ [Next]_vars => Owned' /\ Counted'
  BY NextKeepsOwned, NextKeepsCounted
<1>3. TypeOK /\ Owned /\ Counted => OverridesBounded
  <2> SUFFICES ASSUME TypeOK, Owned, Counted, NEW s \in Slots, NEW p \in Prios
               PROVE  \/ overrides[s][p] = 0
                      \/ \E b \in Buttons : Priority[b] = p /\ overrides[s][p] <= Len(Outputs[b])
    BY DEF OverridesBounded
  <2>1. overrides[s][p] \in Nat
    BY DEF TypeOK
  <2>2. CASE overrides[s][p] > 0
    <3>1. PICK c \in Buttons : Priority[c] = p /\ s \in Overrides[c]
      BY <2>2 DEF Owned
    <3>2. overrides[s][p] <= Len(Outputs[c])
      BY <3>1 DEF Counted
    <3> QED BY <3>1, <3>2
  <2> QED BY <2>1, <2>2
<1> QED BY <1>1, <1>2, <1>3, TypeCorrect, PTL DEF Spec

------------------------------------------------------------------------------
(***************************************************************************)
(* The widgets follow: an output that reaches them is not overridden, and  *)
(* the supreme button's entry would override a weaker one.                 *)
(***************************************************************************)
LEMMA WidgetsOfTheStrong ==
  ASSUME TypeOK, NEW b \in Supremes, Held(b), SupremeHolds,
         Slots \ StageKitSlots \subseteq Overrides[b],
         NEW t, NEW id, NEW raw, NEW left, DoHandleInputEvent(t, id, raw, left)
  PROVE  dmx' = dmx \/ Priority[dmx'] >= Priority[b]
<1>1. CASE dmx' = dmx
  BY <1>1
<1>2. CASE dmx' # dmx
  <2>1. id \in Inputs /\ dmx' = id /\ \E k \in Processed(id, raw) : ~IsStageKit(id, k)
    BY <1>2 DEF DoHandleInputEvent, RejectUnmapped, IgnoreSpam, ProcessOutputs, DriveLamps, lampVars
  <2>2. PICK k \in OutputsToProcess(id) : ~IsStageKit(id, k)
    BY <2>1 DEF Processed
  <2> DEFINE s == Outputs[id][k].slot
  <2>3. s \in Overrides[b] /\ ~IsOverridden(s, Priority[id])
    BY <2>1, <2>2, MappingAssumption DEF OutputsToProcess, IsStageKit
  <2>4. PICK p \in Prios : p >= Priority[b] /\ overrides[s][p] > 0
    BY <2>3 DEF SupremeHolds
  <2>5. ~(p > Priority[id])
    BY <2>3, <2>4 DEF IsOverridden
  <2>6. p \in Nat /\ Priority[id] \in Nat /\ Priority[b] \in Nat
    BY <2>1, MappingAssumption, ThreadsAssumption DEF Prios, Supremes
  <2> QED BY <2>1, <2>4, <2>5, <2>6
<1> QED BY <1>1, <1>2

\* While a button nobody outranks is held and overrides the widgets, nothing weaker
\* reaches QLC+, the engine's own events included.
THEOREM SupremeRulesQlc == WellNested /\ OnlyButtonsOverride => (Spec => SupremeRulesWidgets)
<1> SUFFICES ASSUME WellNested, OnlyButtonsOverride PROVE Spec => SupremeRulesWidgets
  OBVIOUS
<1> DEFINE Rule == \A b \in Supremes : RulesWidgets(b)
<1>1. ASSUME TypeOK, SupremeHolds, [Next]_vars PROVE Rule
  <2> SUFFICES ASSUME NEW b \in Supremes, Held(b), Slots \ StageKitSlots \subseteq Overrides[b]
               PROVE  dmx' = dmx \/ Priority[dmx'] >= Priority[b]
    BY DEF RulesWidgets
  <2>1. ASSUME NEW t, HandleInputEvent(t) \/ ProcessQueuedEvent(t)
        PROVE  dmx' = dmx \/ Priority[dmx'] >= Priority[b]
    BY <1>1, <2>1, WidgetsOfTheStrong DEF HandleInputEvent, ProcessQueuedEvent
  <2>2. CASE UNCHANGED dmx
    BY <2>2
  <2> QED BY <1>1, <2>1, <2>2 DEF Next, vars, Return, WatchFile, ToggleFile, ReadTimePassed,
               WriteTimePassed, PollEvent, PollNothing, lampVars
<1>2. Spec => []SupremeHolds
  BY SupremeRules
<1>3. TypeOK /\ SupremeHolds /\ [Next]_vars => [Rule]_vars
  BY <1>1
<1> QED BY <1>2, <1>3, TypeCorrect, PTL DEF Spec, SupremeRulesWidgets

------------------------------------------------------------------------------
(***************************************************************************)
(* The idle clock.                                                         *)
(***************************************************************************)

\* What any handling does to it: nothing, or one IdleClock step.
LEMMA HandleMovesClock ==
  ASSUME NEW t, NEW id, NEW raw, NEW left, DoHandleInputEvent(t, id, raw, left)
  PROVE  \/ UNCHANGED clockVars /\ UNCHANGED quiet /\ queuedEvent' = left
         \/ IdleClock(id, left)
BY DEF DoHandleInputEvent, RejectUnmapped, IgnoreSpam, ProcessOutputs

LEMMA NextKeepsQueueAgrees ==
  TypeOK /\ QueueAgrees /\ [Next]_vars => QueueAgrees'
<1> SUFFICES ASSUME TypeOK, QueueAgrees, [Next]_vars PROVE QueueAgrees'
  OBVIOUS
<1>1. ASSUME NEW t, NEW id, NEW raw, NEW left \in {queuedEvent, SK_NONE},
             DoHandleInputEvent(t, id, raw, left)
      PROVE  QueueAgrees'
  <2>1. CASE UNCHANGED clockVars /\ queuedEvent' = left
    BY <2>1 DEF QueueAgrees, clockVars, SK_NONE
  <2>2. CASE IdleClock(id, left) /\ IsIdle(id)
    BY <2>2 DEF IdleClock, QueueAgrees, SK_NONE, TypeOK
  <2>3. CASE IdleClock(id, left) /\ ~IsIdle(id)
    BY <2>3 DEF IdleClock, QueueAgrees, SK_NONE, TypeOK
  <2> QED BY <1>1, <2>1, <2>2, <2>3, HandleMovesClock
<1>2. ASSUME NEW t \in Threads, HandleInputEvent(t) PROVE QueueAgrees'
  BY <1>1, <1>2 DEF HandleInputEvent
<1>3. ASSUME NEW t \in Threads, ProcessQueuedEvent(t) PROVE QueueAgrees'
  BY <1>1, <1>3 DEF ProcessQueuedEvent
<1>4. CASE UNCHANGED <<queuedEvent, idleCleared>>
  BY <1>4 DEF QueueAgrees
<1> QED
  BY <1>2, <1>3, <1>4 DEF Next, vars, Return, WatchFile, ToggleFile, ReadTimePassed,
     WriteTimePassed, PollEvent, PollNothing, clockVars

\* The queue never announces the wrong change, whatever is mapped and pressed.
THEOREM QueueNeverWrong == Spec => []QueueAgrees
<1>1. Init => QueueAgrees
  BY DEF Init, QueueAgrees, SK_NONE
<1> QED BY <1>1, NextKeepsQueueAgrees, TypeCorrect, PTL DEF Spec

(***************************************************************************)
(* One thread is inside the engine at a time, and what is queued it still  *)
(* has to handle: every way out is past processQueuedEvent with an empty   *)
(* queue, or by an exception that found it empty.                          *)
(***************************************************************************)
OneInside == \A t, u \in Threads : pc[t] \in Inside /\ pc[u] \in Inside => t = u

Drained == queuedEvent # SK_NONE => \E t \in Threads : pc[t] = "drain"

LEMMA NothingFails ==
  ASSUME NothingThrows, NEW id \in Inputs, NEW raw
  PROVE  ~Failed(id, raw)
<1>1. \A k \in OutputsToProcess(id) : ~Throws(id, raw, k)
  BY DEF NothingThrows, OutputsToProcess, Throws
<1> QED BY <1>1 DEF Failed, Processed

\* A call ends at processQueuedEvent, or past it with what the queue held on entry.
LEMMA HandleGoes ==
  ASSUME NothingThrows, NEW t, NEW id, NEW raw, NEW left, DoHandleInputEvent(t, id, raw, left)
  PROVE  \/ Goto(t, "drain")
         \/ Goto(t, "unlock") /\ queuedEvent' = left
BY NothingFails DEF DoHandleInputEvent, RejectUnmapped, IgnoreSpam, ProcessOutputs

LEMMA NextKeepsDrained ==
  ASSUME NothingThrows, TypeOK, OneInside, Drained, [Next]_vars
  PROVE  OneInside' /\ Drained'
<1>1. pc \in [Threads -> {"time", "add", "poll", "wait"} \cup Inside]
  BY DEF TypeOK
<1>2. ASSUME NEW t \in Threads, NEW id, NEW raw, DoHandleInputEvent(t, id, raw, SK_NONE),
             \A u \in Threads \ {t} : pc[u] \notin Inside
      PROVE  OneInside' /\ Drained'
  <2>1. CASE Goto(t, "drain")
    BY <1>1, <1>2, <2>1 DEF Goto, OneInside, Drained, Inside
  <2>2. CASE Goto(t, "unlock") /\ queuedEvent' = SK_NONE
    BY <1>1, <1>2, <2>2 DEF Goto, OneInside, Drained, Inside
  <2> QED BY <1>2, <2>1, <2>2, HandleGoes
<1>3. ASSUME NEW t \in Threads, HandleInputEvent(t) PROVE OneInside' /\ Drained'
  <2>1. \A u \in Threads : pc[u] \notin Inside
    BY <1>3 DEF HandleInputEvent, EngineFree
  <2>2. queuedEvent = SK_NONE
    BY <2>1 DEF Drained, Inside
  <2>3. DoHandleInputEvent(t, Pending(t), t = Main, SK_NONE)
    BY <1>3, <2>2 DEF HandleInputEvent
  <2> QED BY <1>2, <2>1, <2>3
<1>4. ASSUME NEW t \in Threads, ProcessQueuedEvent(t) PROVE OneInside' /\ Drained'
  <2>1. \A u \in Threads \ {t} : pc[u] \notin Inside
    BY <1>4 DEF ProcessQueuedEvent, OneInside, Inside
  <2>2. DoHandleInputEvent(t, queuedEvent, TRUE, SK_NONE)
    BY <1>4 DEF ProcessQueuedEvent
  <2> QED BY <1>2, <2>1, <2>2
<1>5. ASSUME NEW t \in Threads, Return(t) PROVE OneInside' /\ Drained'
  <2>1. pc[t] \in Inside /\ queuedEvent = SK_NONE /\ queuedEvent' = queuedEvent
    <3>1. CASE pc[t] = "unlock"
      <4>1. \A u \in Threads : pc[u] # "drain"
        BY <3>1 DEF OneInside, Inside
      <4> QED BY <1>5, <3>1, <4>1 DEF Return, Drained, Inside
    <3>2. CASE pc[t] = "drain" /\ queuedEvent = SK_NONE
      BY <1>5, <3>2 DEF Return, Inside
    <3> QED BY <1>5, <3>1, <3>2 DEF Return
  <2>2. \E label \in {"time", "poll"} : Goto(t, label)
    BY <1>5 DEF Return
  <2> QED BY <1>1, <2>1, <2>2 DEF Goto, OneInside, Drained, Inside
<1>6. ASSUME NEW t \in Threads, NEW label \in {"time", "add", "poll", "wait"}, Goto(t, label),
             pc[t] \notin Inside, UNCHANGED queuedEvent
      PROVE  OneInside' /\ Drained'
  BY <1>1, <1>6 DEF Goto, OneInside, Drained, Inside
<1>7. ASSUME NEW b \in Buttons, WatchFile(b) PROVE OneInside' /\ Drained'
  BY <1>6, <1>7 DEF WatchFile, Threads, Inside
<1>8. CASE ReadTimePassed \/ WriteTimePassed \/ (\E e \in GameEvents : PollEvent(e)) \/ PollNothing
  BY <1>6, <1>8 DEF ReadTimePassed, WriteTimePassed, PollEvent, PollNothing, Threads, Inside
<1>9. CASE UNCHANGED <<pc, queuedEvent>>
  BY <1>9 DEF OneInside, Drained
<1> QED
  BY <1>3, <1>4, <1>5, <1>7, <1>8, <1>9 DEF Next, vars, ToggleFile

\* In a mapping whose values can be converted no internal event outlives the call that
\* queued it, for any number of threads.
THEOREM QueueIsDrained == NothingThrows => (Spec => []QueueDrained)
<1> SUFFICES ASSUME NothingThrows PROVE Spec => []QueueDrained
  OBVIOUS
<1>1. Init => OneInside /\ Drained
  BY DEF Init, OneInside, Drained, Inside
<1>2. TypeOK /\ OneInside /\ Drained /\ [Next]_vars => OneInside' /\ Drained'
  BY NextKeepsDrained
<1>3. Drained => QueueDrained
  BY DEF Drained, QueueDrained, EngineFree, Inside
<1> QED BY <1>1, <1>2, <1>3, TypeCorrect, PTL DEF Spec

(***************************************************************************)
(* Without buttons every event is main's, and main's += is alone with its  *)
(* variable.  Then the engine counts no time it did not see pass.          *)
(***************************************************************************)
LEMMA ClockStepSound ==
  ASSUME TypeOK, IdleCountSound, NEW t \in Threads, t = Main, pc[t] # "add",
         NEW id, NEW raw, NEW left, DoHandleInputEvent(t, id, raw, left)
  PROVE  IdleCountSound' /\ [IM!Next]_IM!vars
<1>1. pc'[Main] # "add"
  BY DEF DoHandleInputEvent, RejectUnmapped, IgnoreSpam, ProcessOutputs, Goto, TypeOK
<1>2. /\ timePassed \in Nat /\ idleCount \in Nat /\ quiet \in Nat
      /\ IdleTime \in Nat /\ idleCleared \in BOOLEAN
      /\ IdleTime > 0 => ClockCap > IdleTime /\ ClockCap \in Nat
  BY ClockAssumption DEF TypeOK
<1>3. quiet = ClockCap \/ idleCount + timePassed <= quiet
  BY <1>2 DEF IdleCountSound
<1>4. CASE UNCHANGED clockVars /\ UNCHANGED quiet
  BY <1>1, <1>3, <1>4 DEF clockVars, IdleCountSound, IM!vars
<1>5. CASE IdleClock(id, left) /\ IsIdle(id)
  <2>1. /\ quiet' = quiet
        /\ idleCleared' = (idleCleared /\ ~IdleTimeout)
        /\ \/ idleCount' = idleCount + timePassed /\ timePassed' = 0
           \/ UNCHANGED <<idleCount, timePassed>>
    BY <1>5 DEF IdleClock
  <2>2. IdleCountSound'
    BY <1>1, <1>2, <1>3, <2>1 DEF IdleCountSound
  <2>3. CASE ~IdleTimeout
    <3>1. UNCHANGED <<idleCleared, quiet>>
      BY <1>2, <2>1, <2>3
    <3> QED BY <2>2, <3>1 DEF IM!vars
  <2>4. CASE IdleTimeout
    <3>1. quiet > IdleTime /\ IdleTime > 0 /\ idleCleared
      BY <1>2, <1>3, <2>4 DEF IdleTimeout
    <3> QED BY <2>1, <2>2, <2>4, <3>1 DEF IM!Next, IM!GoIdle
  <2> QED BY <2>3, <2>4
<1>6. CASE IdleClock(id, left) /\ ~IsIdle(id)
  <2>1. timePassed' = 0 /\ idleCount' = 0 /\ idleCleared' = TRUE /\ quiet' = 0
    BY <1>6 DEF IdleClock
  <2>2. IdleCountSound'
    BY <1>1, <2>1 DEF IdleCountSound
  <2> QED BY <2>1, <2>2 DEF IM!Next, IM!Activity
<1> QED BY <1>4, <1>5, <1>6, HandleMovesClock

LEMMA NextRefinesIdle ==
  ASSUME Buttons = {}, TypeOK, IdleCountSound, [Next]_vars
  PROVE  IdleCountSound' /\ [IM!Next]_IM!vars
<1>1. Threads = {Main}
  BY DEF Threads
<1>2. ASSUME NEW t \in Threads, HandleInputEvent(t) \/ ProcessQueuedEvent(t)
      PROVE  IdleCountSound' /\ [IM!Next]_IM!vars
  <2>1. \E id, raw, left : pc[t] # "add" /\ DoHandleInputEvent(t, id, raw, left)
    BY <1>2 DEF HandleInputEvent, ProcessQueuedEvent
  <2> QED BY <1>1, <2>1, ClockStepSound
<1>3. CASE ReadTimePassed
  <2>1. /\ quiet \in Nat /\ ClockCap \in Nat /\ timePassed \in Nat
        /\ idleCount \in Nat /\ quiet <= ClockCap
    BY ClockAssumption DEF TypeOK
  <2>2. pc'[Main] = "add" /\ pc[Main] = "time" /\ addend' = timePassed
    BY <1>1, <1>3 DEF ReadTimePassed, Goto, TypeOK
  <2>3. /\ quiet' = IF quiet < ClockCap THEN quiet + 1 ELSE ClockCap
        /\ UNCHANGED <<timePassed, idleCount, idleCleared>>
    BY <1>3 DEF ReadTimePassed, clockVars
  <2>4. IdleCountSound'
    BY <2>1, <2>2, <2>3 DEF IdleCountSound
  <2> QED BY <2>3, <2>4 DEF IM!Next, IM!Tick
<1>4. CASE WriteTimePassed
  <2>1. /\ ClockCap \in Nat /\ timePassed \in Nat /\ timePassed <= ClockCap
        /\ idleCount \in Nat /\ quiet \in Nat
    BY ClockAssumption DEF TypeOK
  <2>2. pc[Main] = "add" /\ pc'[Main] = "poll"
    BY <1>1, <1>4 DEF WriteTimePassed, Goto, TypeOK
  <2>3. /\ timePassed' = IF addend < ClockCap THEN addend + 1 ELSE ClockCap
        /\ UNCHANGED <<idleCount, idleCleared, quiet>>
    BY <1>4 DEF WriteTimePassed
  <2>4. IdleCountSound'
    BY <2>1, <2>2, <2>3 DEF IdleCountSound
  <2> QED BY <2>3, <2>4 DEF IM!vars
<1>5. ASSUME UNCHANGED <<clockVars, quiet>>, pc'[Main] # "add"
      PROVE  IdleCountSound' /\ [IM!Next]_IM!vars
  <2>1. /\ quiet \in Nat /\ timePassed \in Nat /\ idleCount \in Nat
    BY ClockAssumption DEF TypeOK
  <2> QED BY <1>5, <2>1 DEF IdleCountSound, clockVars, IM!vars
<1>6. ASSUME NEW t \in Threads, Return(t) PROVE pc'[Main] # "add"
  BY <1>1, <1>6 DEF Return, Goto, TypeOK
<1>7. ASSUME NEW e, PollEvent(e) PROVE pc'[Main] # "add"
  BY <1>1, <1>7 DEF PollEvent, Goto, TypeOK
<1>8. CASE PollNothing
  BY <1>1, <1>5, <1>8 DEF PollNothing, Goto, TypeOK
<1>9. CASE UNCHANGED vars
  BY <1>9 DEF IdleCountSound, vars, clockVars, threadVars, IM!vars
<1>10. ASSUME NEW t \in Threads, Return(t) PROVE IdleCountSound' /\ [IM!Next]_IM!vars
  BY <1>5, <1>6, <1>10 DEF Return
<1>11. ASSUME NEW e \in GameEvents, PollEvent(e)
       PROVE  IdleCountSound' /\ [IM!Next]_IM!vars
  BY <1>5, <1>7, <1>11 DEF PollEvent
<1> QED BY <1>2, <1>3, <1>4, <1>8, <1>9, <1>10, <1>11 DEF Next

\* Without buttons the engine implements idle detection as IdleMonitor promises it:
\* every step is one of its steps or leaves idle and quiet alone.
THEOREM IdleImplemented == Buttons = {} => (Spec => IdleRefined)
<1>1. Init => IdleCountSound /\ IM!Init
  <2> SUFFICES ASSUME Init PROVE IdleCountSound /\ IM!Init
    OBVIOUS
  <2>1. pc[Main] = "time"
    BY DEF Init, Threads
  <2> QED BY <2>1 DEF Init, IdleCountSound, IM!Init
<1>2. CASE Buttons = {}
  <2>1. TypeOK /\ IdleCountSound /\ [Next]_vars => IdleCountSound' /\ [IM!Next]_IM!vars
    BY <1>2, NextRefinesIdle
  <2> QED BY <1>1, <2>1, TypeCorrect, PTL DEF Spec, IdleRefined, IM!Spec
<1> QED BY <1>2

------------------------------------------------------------------------------
(***************************************************************************)
(* The idle scene.  What the widgets show is put right by the queued event *)
(* of the same call, so the invariant says where that event is meanwhile;  *)
(* that it will not be taken for spam (the engine handles another event    *)
(* first, and in an idle spell only idle ones); and that it reaches the    *)
(* widgets: whatever overrode them above IDLE_ON has driven them too.      *)
(***************************************************************************)
Draining == \E t \in Threads : pc[t] = "drain"

ShowsRoom ==
  /\ idleCleared /\ dmx = "IDLE_ON" => queuedEvent = "IDLE_OFF" /\ Draining
  /\ ~idleCleared =>
       \/ dmx \in {"IDLE_ON", "SERIAL_RESTART"}
       \/ \E b \in Buttons : Held(b) /\ Overrides[b] \ StageKitSlots # {}
       \/ queuedEvent = "IDLE_ON" /\ Draining

NoSpamQueued ==
  /\ ~idleCleared => IsIdle(lastInputId)
  /\ Draining /\ queuedEvent # SK_NONE => lastInputId # queuedEvent

WidgetsFree == \A s \in WidgetSlots : ~IsOverridden(s, Priority["IDLE_ON"])

SceneInv ==
  /\ dmx = "IDLE_ON" => WidgetsFree
  /\ \A s, r \in WidgetSlots : \A p \in Prios : overrides[s][p] = overrides[r][p]

\* One thread at a time is inside, whatever fails.
LEMMA NextKeepsOneInside ==
  ASSUME TypeOK, OneInside, [Next]_vars
  PROVE  OneInside'
<1>1. pc \in [Threads -> {"time", "add", "poll", "wait"} \cup Inside]
  BY DEF TypeOK
<1>2. ASSUME NEW t \in Threads, NEW label, Goto(t, label),
             label \notin Inside \/ \A u \in Threads \ {t} : pc[u] \notin Inside
      PROVE  OneInside'
  BY <1>1, <1>2 DEF Goto, OneInside
<1>3. ASSUME NEW t \in Threads, HandleInputEvent(t) \/ ProcessQueuedEvent(t)
      PROVE  OneInside'
  <2>1. \A u \in Threads \ {t} : pc[u] \notin Inside
    BY <1>3 DEF HandleInputEvent, ProcessQueuedEvent, EngineFree, OneInside, Inside
  <2>2. \E label : Goto(t, label)
    BY <1>3 DEF HandleInputEvent, ProcessQueuedEvent, DoHandleInputEvent, RejectUnmapped,
                IgnoreSpam, ProcessOutputs
  <2> QED BY <1>2, <2>1, <2>2
<1>4. ASSUME NEW t \in Threads, NEW label \in {"time", "add", "poll", "wait"}, Goto(t, label)
      PROVE  OneInside'
  BY <1>2, <1>4 DEF Inside
<1>5. ASSUME NEW t \in Threads, Return(t) PROVE OneInside'
  BY <1>4, <1>5 DEF Return
<1>6. ASSUME NEW b \in Buttons, WatchFile(b) PROVE OneInside'
  BY <1>4, <1>6 DEF WatchFile, Threads
<1>7. CASE ReadTimePassed \/ WriteTimePassed \/ (\E e \in GameEvents : PollEvent(e)) \/ PollNothing
  BY <1>4, <1>7 DEF ReadTimePassed, WriteTimePassed, PollEvent, PollNothing, Threads
<1>8. CASE UNCHANGED pc
  BY <1>8 DEF OneInside
<1> QED BY <1>3, <1>5, <1>6, <1>7, <1>8 DEF Next, vars, ToggleFile

\* The events that are handled: an idle one never fails and is never a button's, and
\* no event but the queued ones is IDLE_ON or IDLE_OFF.
LEMMA EventsHandled ==
  ASSUME TypeOK, WellNested, ShowsIdle, NEW t \in Threads, HandleInputEvent(t)
  PROVE  /\ Pending(t) \notin {"IDLE_ON", "IDLE_OFF"}
         /\ t \in Buttons => ~IsIdle(Pending(t)) /\ Pending(t) \in Inputs
         /\ t \notin Buttons => t = Main
<1>1. CASE t = Main
  <2>1. t \notin Buttons /\ Pending(t) = event
    BY <1>1, ThreadsAssumption DEF Pending
  <2>2. event \notin {"IDLE_ON", "IDLE_OFF"}
    BY DEF TypeOK, ShowsIdle, SK_NONE
  <2> QED BY <1>1, <2>1, <2>2
<1>2. CASE t \in Buttons
  <2>1. Pending(t) \in {t, OffOf[t]}
    BY <1>2, ThreadsAssumption DEF Pending
  <2>2. /\ t \in Inputs /\ OffOf[t] \in Inputs
        /\ t \notin IdleEvents /\ OffOf[t] \notin IdleEvents
    BY <1>2, ThreadsAssumption DEF WellNested
  <2> QED BY <1>2, <2>1, <2>2 DEF IsIdle, IdleEvents
<1> QED BY <1>1, <1>2 DEF Threads

\* A call with a weight cannot fail.
LEMMA RawCallsSucceed ==
  ASSUME NEW id
  PROVE  Processed(id, TRUE) = OutputsToProcess(id) /\ ~Failed(id, TRUE)
BY DEF Processed, Failed, Throws, OutputsToProcess

LEMMA NextKeepsNoSpam ==
  ASSUME WellNested, ShowsIdle, TypeOK, QueueAgrees, OneInside, NoSpamQueued, [Next]_vars
  PROVE  NoSpamQueued'
<1>1. pc \in [Threads -> {"time", "add", "poll", "wait"} \cup Inside]
  BY DEF TypeOK
<1>2. ASSUME NEW t \in Threads, HandleInputEvent(t)
      PROVE  NoSpamQueued'
  <2> DEFINE id == Pending(t)
  <2>1. DoHandleInputEvent(t, id, t = Main, queuedEvent)
    BY <1>2 DEF HandleInputEvent
  <2>2. \A u \in Threads : pc[u] # "drain"
    BY <1>2 DEF HandleInputEvent, EngineFree, Inside
  <2>3. id \notin {"IDLE_ON", "IDLE_OFF"}
    BY <1>2, EventsHandled
  <2> HIDE DEF id
  <2>4. ASSUME Draining'
        PROVE  lastInputId' = id
    <3>1. ~Goto(t, "unlock")
      BY <1>1, <2>2, <2>4 DEF Goto, Draining
    <3> QED BY <2>1, <3>1 DEF DoHandleInputEvent, RejectUnmapped, IgnoreSpam, ProcessOutputs
  <2>5. queuedEvent' \in {SK_NONE, "IDLE_ON", "IDLE_OFF"}
    BY <1>2, NextTyped DEF TypeOK, Next
  <2>6. ASSUME ~idleCleared' PROVE IsIdle(lastInputId')
    <3>1. CASE UNCHANGED <<idleCleared, lastInputId>>
      BY <2>6, <3>1 DEF NoSpamQueued
    <3>2. CASE IdleClock(id, queuedEvent) /\ lastInputId' = id
      BY <2>6, <3>2 DEF IdleClock
    <3>3. CASE IdleClock(id, queuedEvent) /\ Failed(id, t = Main)
      <4>1. t \in Buttons
        BY <3>3, RawCallsSucceed DEF Threads
      <4>2. ~IsIdle(id)
        BY <1>2, <4>1, EventsHandled DEF id
      <4> QED BY <2>6, <3>3, <4>2 DEF IdleClock
    <3> QED BY <2>1, <3>1, <3>2, <3>3 DEF DoHandleInputEvent, RejectUnmapped, IgnoreSpam,
                                          ProcessOutputs, clockVars
  <2> QED BY <2>3, <2>4, <2>5, <2>6 DEF NoSpamQueued, SK_NONE
<1>3. ASSUME NEW t \in Threads, ProcessQueuedEvent(t)
      PROVE  NoSpamQueued'
  <2>1. queuedEvent \in {"IDLE_ON", "IDLE_OFF"} \cap Inputs /\ IsIdle(queuedEvent)
    BY <1>3 DEF ProcessQueuedEvent, TypeOK, ShowsIdle, IsIdle, IdleEvents
  <2>2. IdleClock(queuedEvent, SK_NONE) /\ lastInputId' = queuedEvent
    BY <1>3, <2>1, RawCallsSucceed DEF ProcessQueuedEvent, DoHandleInputEvent, RejectUnmapped,
                                       IgnoreSpam, ProcessOutputs
  <2>3. queuedEvent' # queuedEvent \/ queuedEvent' = SK_NONE
    BY <2>1, <2>2 DEF IdleClock, IdleTimeout, QueueAgrees, SK_NONE
  <2> QED BY <2>1, <2>2, <2>3 DEF NoSpamQueued
<1>4. ASSUME UNCHANGED <<queuedEvent, lastInputId, idleCleared>>, Draining' => Draining
      PROVE  NoSpamQueued'
  BY <1>4 DEF NoSpamQueued
<1>5. ASSUME NEW t \in Threads, NEW label \in {"time", "add", "poll", "wait"}, Goto(t, label)
      PROVE  Draining' => Draining
  BY <1>1, <1>5 DEF Goto, Draining
<1>6. ASSUME NEW t \in Threads, Return(t) PROVE NoSpamQueued'
  BY <1>4, <1>5, <1>6 DEF Return, clockVars
<1>7. ASSUME NEW b \in Buttons, WatchFile(b) PROVE NoSpamQueued'
  BY <1>4, <1>5, <1>7 DEF WatchFile, Threads, clockVars
<1>8. CASE ReadTimePassed \/ WriteTimePassed \/ (\E e \in GameEvents : PollEvent(e)) \/ PollNothing
  BY <1>4, <1>5, <1>8 DEF ReadTimePassed, WriteTimePassed, PollEvent, PollNothing, Threads, clockVars
<1>9. CASE UNCHANGED <<pc, queuedEvent, lastInputId, idleCleared>>
  BY <1>9 DEF NoSpamQueued, Draining
<1> QED BY <1>2, <1>3, <1>6, <1>7, <1>8, <1>9 DEF Next, vars, ToggleFile, clockVars

\* A button of at least IDLE_ON's priority, with a widget before any output that throws.
DrivesWidgets(b) ==
  /\ Priority[b] >= Priority["IDLE_ON"]
  /\ \E k \in DOMAIN Outputs[b] : ~IsStageKit(b, k) /\ \A j \in 1..k : ~Throws(b, FALSE, j)

LEMMA PressReachesWidgets ==
  ASSUME ShowsIdle, WidgetsFree, NEW t \in Buttons, DrivesWidgets(t)
  PROVE  \E k \in Processed(t, FALSE) : ~IsStageKit(t, k)
<1>1. PICK k \in DOMAIN Outputs[t] :
        ~IsStageKit(t, k) /\ \A j \in 1..k : ~Throws(t, FALSE, j)
  BY DEF DrivesWidgets
<1>2. t \in Inputs /\ DOMAIN Outputs[t] = 1..Len(Outputs[t]) /\ Len(Outputs[t]) \in Nat
  BY MappingAssumption, ThreadsAssumption
<1>3. Outputs[t][k].slot \in WidgetSlots
  BY <1>1, <1>2, MappingAssumption DEF IsStageKit, WidgetSlots
<1>4. ~IsOverridden(Outputs[t][k].slot, Priority[t])
  <2>1. Priority["IDLE_ON"] \in Nat
    BY MappingAssumption DEF ShowsIdle
  <2>2. \A p \in Prios : p > Priority[t] => p > Priority["IDLE_ON"]
    BY <2>1, ButtonTyped DEF DrivesWidgets
  <2> QED BY <1>3, <2>2 DEF WidgetsFree, IsOverridden
<1>5. k \in OutputsToProcess(t)
  BY <1>4 DEF OutputsToProcess
<1>6. ASSUME NEW j \in OutputsToProcess(t), j <= k PROVE ~Throws(t, FALSE, j)
  <2>1. k \in 1..Len(Outputs[t]) /\ j \in 1..Len(Outputs[t])
    BY <1>2 DEF OutputsToProcess
  <2>2. j \in 1..k
    BY <1>2, <1>6, <2>1
  <2> QED BY <1>1, <2>2
<1>7. k \in Processed(t, FALSE)
  BY <1>5, <1>6 DEF Processed
<1> QED BY <1>1, <1>7

\* A button's handling: the widgets show it, or something else than before, or nothing
\* of what bars IDLE_ON from them has changed.
LEMMA ButtonsKeepScene ==
  ASSUME WellNested, ShowsIdle, TypeOK, SceneInv, NEW t \in Buttons, HandleInputEvent(t)
  PROVE  SceneInv'
<1>1. ASSUME NEW s \in WidgetSlots, NEW r \in WidgetSlots, NEW p \in Prios
      PROVE  overrides'[s][p] = overrides'[r][p]
  <2>1. s \in Slots /\ r \in Slots /\ (s \in Overrides[t] <=> r \in Overrides[t])
    BY DEF ShowsIdle, WidgetSlots
  <2>2. overrides[s][p] = overrides[r][p]
    BY DEF SceneInv
  <2>3. CASE ~known[t]
    <3>1. ASSUME NEW x \in Slots
          PROVE  overrides'[x][p] =
                   IF x \in Overrides[t] /\ p = Priority[t]
                   THEN overrides[x][p] + Cardinality(Processed(t, FALSE)) ELSE overrides[x][p]
      BY <2>3, PressAddsEntries
    <3>2. CASE s \in Overrides[t] /\ p = Priority[t]
      BY <2>1, <2>2, <3>1, <3>2
    <3>3. CASE ~(s \in Overrides[t] /\ p = Priority[t])
      BY <2>1, <2>2, <3>1, <3>3
    <3> QED BY <3>2, <3>3
  <2>4. CASE known[t]
    <3>1. ASSUME NEW x \in Slots
          PROVE  overrides'[x][p] =
                   IF x \in Overrides[t] /\ OutputsToProcess(OffOf[t]) # {} THEN 0 ELSE overrides[x][p]
      BY <2>4, ReleaseClearsEntries
    <3>2. CASE s \in Overrides[t] /\ OutputsToProcess(OffOf[t]) # {}
      BY <2>1, <2>2, <3>1, <3>2
    <3>3. CASE ~(s \in Overrides[t] /\ OutputsToProcess(OffOf[t]) # {})
      BY <2>1, <2>2, <3>1, <3>3
    <3> QED BY <3>2, <3>3
  <2> QED BY <2>3, <2>4
<1>2. ASSUME dmx' = "IDLE_ON"
      PROVE  WidgetsFree'
  <2> DEFINE id == Pending(t)
  <2>1. id \in Inputs /\ ~IsIdle(id) /\ id # "IDLE_ON"
    BY EventsHandled DEF Threads
  <2>2. ProcessOutputs(t, id, FALSE, queuedEvent)
    <3>1. DoHandleInputEvent(t, id, FALSE, queuedEvent)
      BY ThreadsAssumption DEF HandleInputEvent
    <3> QED BY <2>1, <3>1 DEF DoHandleInputEvent, RejectUnmapped, IgnoreSpam, IsSpam
  <2>3. dmx = "IDLE_ON" /\ \A k \in Processed(id, FALSE) : IsStageKit(id, k)
    BY <1>2, <2>1, <2>2 DEF ProcessOutputs, DriveLamps
  <2>4. WidgetsFree
    BY <2>3 DEF SceneInv
  <2> SUFFICES ASSUME NEW s \in WidgetSlots, NEW q \in Prios, q > Priority["IDLE_ON"]
               PROVE  ~(overrides'[s][q] > 0)
    BY DEF WidgetsFree, IsOverridden
  <2>5. s \in Slots /\ ~(overrides[s][q] > 0) /\ overrides[s][q] \in Nat
    BY <2>4 DEF WidgetsFree, IsOverridden, WidgetSlots, TypeOK
  <2>6. CASE known[t]
    <3>1. overrides'[s][q] = IF s \in Overrides[t] /\ OutputsToProcess(OffOf[t]) # {} THEN 0
                             ELSE overrides[s][q]
      BY <2>5, <2>6, ReleaseClearsEntries
    <3> QED BY <2>5, <3>1
  <2>7. CASE ~known[t]
    <3>1. id = t
      BY <2>7, ThreadsAssumption DEF Pending
    <3>2. CASE Priority[t] <= Priority["IDLE_ON"] \/ WidgetSlots \cap Overrides[t] = {}
      <4>1. overrides'[s][q] = IF s \in Overrides[t] /\ q = Priority[t]
                               THEN overrides[s][q] + Cardinality(Processed(t, FALSE))
                               ELSE overrides[s][q]
        BY <2>5, <2>7, PressAddsEntries
      <4>2. ~(s \in Overrides[t] /\ q = Priority[t])
        <5>1. Priority["IDLE_ON"] \in Nat
          BY MappingAssumption DEF ShowsIdle
        <5> QED BY <3>2, <5>1, ButtonTyped
      <4>3. overrides'[s][q] = overrides[s][q]
        BY <4>1, <4>2, Zenon
      <4> QED BY <2>5, <4>3
    <3>3. CASE DrivesWidgets(t)
      BY <2>3, <2>4, <3>1, <3>3, PressReachesWidgets DEF DrivesWidgets
    <3> QED BY <3>2, <3>3 DEF ShowsIdle, DrivesWidgets
  <2> QED BY <2>6, <2>7
<1> QED BY <1>1, <1>2 DEF SceneInv

\* All other steps leave the list alone; only IDLE_ON itself can show IDLE_ON, and then
\* nothing overrides one of the widgets, and so none.
LEMMA NextKeepsScene ==
  ASSUME WellNested, OnlyButtonsOverride, ShowsIdle, TypeOK, SceneInv, [Next]_vars
  PROVE  SceneInv'
<1>1. ASSUME NEW t \in Buttons, HandleInputEvent(t)
      PROVE  SceneInv'
  BY <1>1, ButtonsKeepScene
<1>2. CASE \A t \in Buttons : ~HandleInputEvent(t)
  <2>1. overrides' = overrides
    BY <1>2, OtherStepsKeep
  <2>2. WidgetsFree' <=> WidgetsFree
    BY <2>1 DEF WidgetsFree, IsOverridden
  <2>3. CASE dmx' = dmx
    BY <2>1, <2>2, <2>3 DEF SceneInv
  <2>4. ASSUME NEW t, NEW id, NEW raw, NEW left, DoHandleInputEvent(t, id, raw, left),
               dmx' = "IDLE_ON", dmx' # dmx
        PROVE  WidgetsFree
    <3>1. id = "IDLE_ON" /\ \E k \in Processed(id, raw) : ~IsStageKit(id, k)
      BY <2>4 DEF DoHandleInputEvent, RejectUnmapped, IgnoreSpam, ProcessOutputs, DriveLamps, lampVars
    <3>2. PICK k \in OutputsToProcess(id) : ~IsStageKit(id, k)
      BY <3>1 DEF Processed
    <3> DEFINE s == Outputs[id][k].slot
    <3>3. s \in WidgetSlots /\ ~IsOverridden(s, Priority["IDLE_ON"])
      BY <3>1, <3>2, MappingAssumption DEF OutputsToProcess, IsStageKit, WidgetSlots, ShowsIdle
    <3> HIDE DEF s
    <3> QED BY <3>3 DEF SceneInv, WidgetsFree, IsOverridden
  <2>5. ASSUME NEW t, HandleInputEvent(t) \/ ProcessQueuedEvent(t), dmx' # dmx
        PROVE  SceneInv'
    BY <2>1, <2>2, <2>4, <2>5 DEF HandleInputEvent, ProcessQueuedEvent, SceneInv
  <2> QED BY <2>3, <2>5 DEF Next, vars, Return, WatchFile, ToggleFile, ReadTimePassed,
             WriteTimePassed, PollEvent, PollNothing, lampVars
<1> QED BY <1>1, <1>2

\* The events handled first are never IDLE_ON or IDLE_OFF.  One that is not idle ends
\* the spell; if the call then fails, it is a press that has reached the widgets.
LEMMA HandleKeepsShows ==
  ASSUME WellNested, ShowsIdle, TypeOK, SceneInv, NoSpamQueued, ShowsRoom,
         NEW t \in Threads, HandleInputEvent(t)
  PROVE  ShowsRoom'
<1> DEFINE id == Pending(t)
<1>1. ~Draining /\ (Goto(t, "drain") => Draining')
  BY DEF HandleInputEvent, EngineFree, Inside, Draining, Goto, TypeOK
<1>2. DoHandleInputEvent(t, id, t = Main, queuedEvent)
  BY DEF HandleInputEvent
<1>3. id \notin {"IDLE_ON", "IDLE_OFF"}
  BY EventsHandled
<1>4. idleCleared \in BOOLEAN /\ (idleCleared => dmx # "IDLE_ON")
  BY <1>1 DEF ShowsRoom, TypeOK
<1>5. t \in Buttons => ~IsIdle(id) /\ id \in Inputs
  BY EventsHandled
<1>6. t \notin Buttons => t = Main /\ \A b \in Buttons : Held(b)' <=> Held(b)
  BY HandlingTurnsHeld, EventsHandled
<1>7. t = Main => ~Failed(id, t = Main)
  BY RawCallsSucceed, Zenon
<1>8. CASE id \notin Inputs
  <2>1. UNCHANGED <<dmx, idleCleared>>
    BY <1>2, <1>8 DEF DoHandleInputEvent, RejectUnmapped, IgnoreSpam, ProcessOutputs, clockVars, lampVars
  <2> QED BY <1>1, <1>5, <1>6, <1>8, <2>1 DEF ShowsRoom
<1>9. CASE ~IsIdle(id) /\ id \in Inputs
  <2>1. ProcessOutputs(t, id, t = Main, queuedEvent)
    BY <1>2, <1>9 DEF DoHandleInputEvent, RejectUnmapped, IgnoreSpam, IsSpam
  <2>2. idleCleared' = TRUE /\ queuedEvent' = IF idleCleared THEN queuedEvent ELSE "IDLE_OFF"
    BY <1>9, <2>1 DEF ProcessOutputs, IdleClock
  <2>3. dmx' = "IDLE_ON" => /\ ~idleCleared /\ dmx = "IDLE_ON"
                            /\ \A k \in Processed(id, t = Main) : IsStageKit(id, k)
    BY <1>3, <1>4, <2>1 DEF ProcessOutputs, DriveLamps
  <2>4. dmx' = "IDLE_ON" => Goto(t, "drain")
    <3> SUFFICES ASSUME dmx' = "IDLE_ON", Failed(id, t = Main) PROVE FALSE
      BY <2>1 DEF ProcessOutputs
    <3>1. t \in Buttons /\ t # Main
      BY <1>6, <1>7
    <3>2. Failed(id, FALSE) /\ \A k \in Processed(id, FALSE) : IsStageKit(id, k)
      BY <2>3, <3>1
    <3>3. PICK j \in OutputsToProcess(id) : Throws(id, FALSE, j)
      BY <3>2 DEF Failed, Processed
    <3>4. id = t
      BY <3>1, <3>3 DEF Pending, OutputsToProcess, WellNested
    <3>5. DrivesWidgets(t)
      BY <3>1, <3>3, <3>4 DEF ShowsIdle, DrivesWidgets, OutputsToProcess
    <3>6. WidgetsFree
      BY <2>3 DEF SceneInv
    <3> QED BY <3>1, <3>2, <3>4, <3>5, <3>6, PressReachesWidgets
  <2> QED BY <1>1, <2>2, <2>3, <2>4 DEF ShowsRoom
<1>10. CASE IsIdle(id) /\ id \in Inputs
  <2>1. t = Main /\ \A b \in Buttons : Held(b)' <=> Held(b)
    BY <1>5, <1>6, <1>10
  <2>2. IdleClock(id, queuedEvent) /\ Goto(t, "drain")
    BY <1>2, <1>7, <1>10, <2>1 DEF DoHandleInputEvent, RejectUnmapped, IgnoreSpam, ProcessOutputs
  <2>3. dmx' = dmx \/ dmx' = id
    BY <1>2 DEF DoHandleInputEvent, RejectUnmapped, IgnoreSpam, ProcessOutputs, DriveLamps, lampVars
  <2>4. CASE idleCleared' = TRUE
    <3>1. idleCleared /\ dmx' # "IDLE_ON"
      BY <1>3, <1>4, <1>10, <2>2, <2>3, <2>4 DEF IdleClock
    <3> QED BY <2>4, <3>1 DEF ShowsRoom
  <2>5. CASE idleCleared' = FALSE /\ idleCleared
    <3>1. queuedEvent' = "IDLE_ON"
      BY <1>10, <2>2, <2>5 DEF IdleClock
    <3> QED BY <1>1, <2>2, <2>5, <3>1 DEF ShowsRoom
  <2>6. CASE idleCleared' = FALSE /\ ~idleCleared
    <3>1. IsIdle(lastInputId)
      BY <2>6 DEF NoSpamQueued
    <3>2. dmx' = dmx \/ dmx' = "SERIAL_RESTART"
      <4>1. CASE id = "SK_FOG_OFF"
        <5>1. IsSpam(id)
          BY <1>10, <3>1, <4>1 DEF IsSpam
        <5> QED BY <1>2, <1>10, <5>1 DEF DoHandleInputEvent, RejectUnmapped, IgnoreSpam,
                                        ProcessOutputs, lampVars
      <4>2. id \in {"SK_FOG_OFF", "SERIAL_RESTART"}
        BY <1>3, <1>10 DEF IsIdle, IdleEvents
      <4> QED BY <2>3, <4>1, <4>2
    <3> QED BY <1>1, <2>1, <2>6, <3>2 DEF ShowsRoom
  <2>7. idleCleared' \in BOOLEAN
    BY <1>4, <1>10, <2>2 DEF IdleClock
  <2> QED BY <1>4, <2>4, <2>5, <2>6, <2>7
<1> QED BY <1>8, <1>9, <1>10

\* The queued event: IDLE_OFF reaches the widgets if they show IDLE_ON, and IDLE_ON if no
\* held button overrides them.
LEMMA QueuedKeepsShows ==
  ASSUME WellNested, ShowsIdle, TypeOK, NoStaleOverride, QueueAgrees, SceneInv, NoSpamQueued,
         ShowsRoom, NEW t \in Threads, ProcessQueuedEvent(t),
         \A b \in Buttons : Held(b)' <=> Held(b)
  PROVE  ShowsRoom'
<1> DEFINE id == queuedEvent
<1>1. id \in {"IDLE_ON", "IDLE_OFF"} /\ id \in Inputs /\ IsIdle(id)
  BY DEF ProcessQueuedEvent, TypeOK, ShowsIdle, IsIdle, IdleEvents
<1>2. DoHandleInputEvent(t, id, TRUE, SK_NONE) /\ Draining
  BY DEF ProcessQueuedEvent, Draining
<1>3. ~IsSpam(id)
  BY <1>1, <1>2 DEF IsSpam, NoSpamQueued, SK_NONE
<1>4. ProcessOutputs(t, id, TRUE, SK_NONE)
  BY <1>1, <1>2, <1>3 DEF DoHandleInputEvent, RejectUnmapped, IgnoreSpam
<1>5. IdleClock(id, SK_NONE) /\ Goto(t, "drain")
  BY <1>4, RawCallsSucceed DEF ProcessOutputs
<1>6. Draining'
  BY <1>5 DEF Goto, Draining, TypeOK
<1>7. dmx' = IF \E k \in OutputsToProcess(id) : ~IsStageKit(id, k) THEN id ELSE dmx
  <2>1. Processed(id, TRUE) = OutputsToProcess(id)
    BY RawCallsSucceed
  <2> QED BY <1>4, <2>1 DEF ProcessOutputs, DriveLamps
<1>8. PICK k \in DOMAIN Outputs[id] : ~IsStageKit(id, k)
  BY <1>1 DEF ShowsIdle
<1> DEFINE s == Outputs[id][k].slot
<1>9. s \in Slots /\ s \in WidgetSlots
  BY <1>1, <1>8, MappingAssumption DEF IsStageKit, WidgetSlots
<1>10. idleCleared \in BOOLEAN
  BY DEF TypeOK
<1>11. CASE id = "IDLE_OFF"
  <2>1. idleCleared
    BY <1>11 DEF QueueAgrees
  <2>2. dmx' # "IDLE_ON"
    <3>1. CASE dmx = "IDLE_ON"
      <4>1. ~IsOverridden(s, Priority["IDLE_ON"])
        BY <1>9, <3>1 DEF SceneInv, WidgetsFree
      <4>2. ~IsOverridden(s, Priority[id])
        <5>1. Priority["IDLE_ON"] \in Nat /\ Priority["IDLE_OFF"] \in Nat /\ Prios \subseteq Nat
          BY MappingAssumption DEF ShowsIdle, Prios
        <5>2. \A p \in Prios : p > Priority["IDLE_OFF"] => p > Priority["IDLE_ON"]
          BY <5>1 DEF ShowsIdle
        <5> QED BY <1>11, <4>1, <5>2 DEF IsOverridden
      <4>3. k \in OutputsToProcess(id)
        BY <4>2 DEF OutputsToProcess
      <4> QED BY <1>7, <1>8, <1>11, <4>3
    <3>2. CASE dmx # "IDLE_ON"
      BY <1>7, <1>11, <3>2
    <3> QED BY <3>1, <3>2
  <2>3. CASE idleCleared' = TRUE
    BY <2>2, <2>3 DEF ShowsRoom
  <2>4. CASE idleCleared' = FALSE
    <3>1. queuedEvent' = "IDLE_ON"
      BY <1>1, <1>5, <2>1, <2>4 DEF IdleClock
    <3> QED BY <1>6, <2>4, <3>1 DEF ShowsRoom
  <2>5. idleCleared' \in BOOLEAN
    BY <1>1, <1>5, <1>10 DEF IdleClock
  <2> QED BY <2>3, <2>4, <2>5
<1>12. CASE id = "IDLE_ON"
  <2>1. idleCleared = FALSE /\ idleCleared' = FALSE
    BY <1>1, <1>5, <1>10, <1>12 DEF QueueAgrees, IdleClock
  <2>2. CASE k \in OutputsToProcess(id)
    BY <1>7, <1>8, <1>12, <2>1, <2>2 DEF ShowsRoom
  <2>3. CASE k \notin OutputsToProcess(id)
    <3>1. IsOverridden(s, Priority[id])
      BY <2>3 DEF OutputsToProcess
    <3>2. PICK b \in Buttons : Overriding(b, s)
      BY <1>9, <3>1 DEF IsOverridden, NoStaleOverride
    <3>3. Held(b)' /\ Overrides[b] \ StageKitSlots # {}
      BY <1>9, <3>2 DEF Overriding, WidgetSlots
    <3> QED BY <2>1, <3>3 DEF ShowsRoom
  <2> QED BY <2>2, <2>3
<1> QED BY <1>1, <1>11, <1>12

LEMMA NextKeepsShows ==
  ASSUME WellNested, OnlyButtonsOverride, ShowsIdle, TypeOK, NoStaleOverride, QueueAgrees,
         OneInside, SceneInv, NoSpamQueued, ShowsRoom, [Next]_vars
  PROVE  ShowsRoom'
<1>1. ASSUME NEW t \in Threads, HandleInputEvent(t) PROVE ShowsRoom'
  BY <1>1, HandleKeepsShows
<1>2. CASE \E t \in Threads : HandleInputEvent(t)
  BY <1>1, <1>2
<1>3. CASE ~\E t \in Threads : HandleInputEvent(t)
  <2>1. \A b \in Buttons : Held(b)' <=> Held(b)
    BY <1>3, OtherStepsKeep DEF Threads
  <2>2. ASSUME NEW t \in Threads, ProcessQueuedEvent(t) PROVE ShowsRoom'
    BY <2>1, <2>2, QueuedKeepsShows
  <2>3. ASSUME UNCHANGED <<dmx, idleCleared, queuedEvent>>,
               queuedEvent # SK_NONE => (Draining => Draining')
        PROVE  ShowsRoom'
    BY <2>1, <2>3 DEF ShowsRoom, SK_NONE
  <2>4. ASSUME NEW t \in Threads, NEW label \in {"time", "add", "poll", "wait"}, Goto(t, label),
               pc[t] # "drain" \/ queuedEvent = SK_NONE
        PROVE  queuedEvent # SK_NONE => (Draining => Draining')
    BY <2>4 DEF Goto, Draining, TypeOK
  <2>5. ASSUME NEW t \in Threads, Return(t) PROVE ShowsRoom'
    <3>1. pc[t] # "drain" \/ queuedEvent = SK_NONE
      BY <2>5 DEF Return
    <3>2. UNCHANGED <<dmx, idleCleared, queuedEvent>>
      BY <2>5 DEF Return, clockVars, lampVars
    <3>3. \E label \in {"time", "poll"} : Goto(t, label)
      BY <2>5 DEF Return
    <3> QED BY <2>3, <2>4, <3>1, <3>2, <3>3
  <2>6. ASSUME NEW b \in Buttons, WatchFile(b) PROVE ShowsRoom'
    BY <2>3, <2>4, <2>6 DEF WatchFile, Threads, clockVars, lampVars
  <2>7. CASE ReadTimePassed \/ WriteTimePassed \/ (\E e \in GameEvents : PollEvent(e)) \/ PollNothing
    BY <2>3, <2>4, <2>7 DEF ReadTimePassed, WriteTimePassed, PollEvent, PollNothing, Threads,
                            clockVars, lampVars
  <2>8. CASE UNCHANGED <<pc, dmx, idleCleared, queuedEvent>>
    BY <2>3, <2>8 DEF Draining
  <2> QED BY <1>3, <2>2, <2>5, <2>6, <2>7, <2>8 DEF Next, vars, ToggleFile, clockVars, lampVars
<1> QED BY <1>2, <1>3

\* The widgets agree with the room: whatever is pressed, released or fails, and whatever
\* the game sends, they do not show the idle scene outside an idle spell, and show it in
\* one unless a held button overrides them or the serial line was restarted.
THEOREM IdleSceneRight ==
  WellNested /\ OnlyButtonsOverride /\ ShowsIdle => (Spec => []IdleSceneAgrees)
<1> SUFFICES ASSUME WellNested, OnlyButtonsOverride, ShowsIdle
             PROVE  Spec => []IdleSceneAgrees
  OBVIOUS
<1> DEFINE Rooms == OneInside /\ SceneInv /\ NoSpamQueued /\ ShowsRoom
<1>1. Init => Rooms
  BY DEF Init, OneInside, Inside, SceneInv, NoSpamQueued, ShowsRoom, Draining, SK_NONE, WidgetSlots
<1>2. TypeOK /\ QueueAgrees /\ NoStaleOverride /\ Rooms /\ [Next]_vars => Rooms'
  BY NextKeepsOneInside, NextKeepsScene, NextKeepsNoSpam, NextKeepsShows
<1>3. Rooms => IdleSceneAgrees
  BY DEF ShowsRoom, IdleSceneAgrees, EngineFree, Draining, Inside
<1>4. Spec => []NoStaleOverride
  BY NoStale
<1> HIDE DEF Rooms
<1> QED BY <1>1, <1>2, <1>3, <1>4, TypeCorrect, QueueNeverWrong, PTL DEF Spec
==============================================================================
