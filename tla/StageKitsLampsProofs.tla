------------------------- MODULE StageKitsLampsProofs -------------------------
(***************************************************************************)
(* Proofs about the lamps of StageKits: no pod is left lit by a manager     *)
(* that has let go of it, lamps obey the configuration of their kit, and    *)
(* fog ends, for every number of pods, slots and configurations.  All       *)
(* suppose that no button thread is there, because one can write into a     *)
(* kit's report between main's filling and sending it.                      *)
(***************************************************************************)
EXTENDS StageKitsProofs

\* No step closes a kit or ends the context.
EndsNothing(s) == \A i \in 1..Len(s) : s[i].do \notin {"close", "exit"}

\* Only commands light a lamp.
OnlyLoopsLight(s) == \A i \in 1..Len(s) : s[i].on => s[i].do = "loop" \/ s[i].lamp = "status"

\* Does step s switch a lamp of kit k off?
SwitchesOff(s, do, k, lamp) == s.do = do /\ s.kit = k /\ s.lamp = lamp /\ ~s.on

\* Is the steps' way to the end in order, with the handles h, the lit lamps l and n kits?
\* Before a handle is closed each lamp its pod has on is switched off, before the context ends
\* each kit is closed, and nothing is switched on before either.
EndsDark(s, h, l, n) ==
  \A i \in 1..Len(s) :
    /\ s[i].do \in {"close", "exit"} => \A j \in 1..(i - 1) : ~s[j].on
    /\ s[i].do = "close" /\ h[s[i].kit] \in Pods =>
         \A lamp \in l[h[s[i].kit]] : \E j \in 1..(i - 1) : SwitchesOff(s[j], "set", s[i].kit, lamp)
    /\ s[i].do = "exit" =>
         \A k \in Kits : k < n /\ h[k] \in Pods => \E j \in 1..(i - 1) : s[j].do = "close" /\ s[j].kit = k

\* A report that was filled is still the one its step asks for.
ReportKept ==
  filled[Main] =>
    LET s == Current(Main)
    IN  /\ report[s.kit] = [lamp |-> s.lamp, on |-> s.on]
        /\ s.do = "loop" => s.kit < amount /\ config[s.kit] # NoConfig
        /\ s.do = "loop" /\ s.on /\ s.lamp \in {"leds", "strobe"} => config[s.kit] \in Enabled[s.lamp]

\* Is such a step still to come?
Pending(s, do, k, lamp) == \E i \in 1..Len(s) : SwitchesOff(s[i], do, k, lamp)

\* A lamp the configuration does not enable is still to be switched off.
Obeyed ==
  \A k \in Connected : \A lamp \in {"leds", "strobe"} :
    lamp \in lamps[handle[k]] => config[k] \in Enabled[lamp] \/ Pending(todo[Main], "disable", k, lamp)

Lit ==
  /\ OnlyLoopsLight(todo[Main])
  /\ EndsDark(todo[Main], handle, lamps, amount)
  /\ ReportKept
  /\ NothingLeftOn

------------------------------------------------------------------------------
(* What sequences of steps keep.                                            *)

LEMMA PlainDoesBoth == \A s : Plain(s) => EndsNothing(s) /\ OnlyLoopsLight(s)
BY DEF Plain, EndsNothing, OnlyLoopsLight

LEMMA DarkDoes == \A s : Darkens(s) => OnlyLoopsLight(s)
BY DEF Darkens, OnlyLoopsLight

LEMMA NoEndIsDark == \A s, h, l, n : EndsNothing(s) => EndsDark(s, h, l, n)
BY DEF EndsNothing, EndsDark

LEMMA EmptyDoes == \A h, l, n : EndsDark(<<>>, h, l, n) /\ OnlyLoopsLight(<<>>)
BY DEF EndsDark, OnlyLoopsLight

LEMMA OnlyLoopsTail ==
  ASSUME NEW s \in Seq(Steps), s # <<>>, OnlyLoopsLight(s)
  PROVE  OnlyLoopsLight(Tail(s))
<1>1. Len(s) \in Nat
  OBVIOUS
<1> QED BY <1>1, HeadTailProperties DEF OnlyLoopsLight

LEMMA OnlyLoopsJoined ==
  ASSUME NEW s \in Seq(Steps), NEW u \in Seq(Steps), OnlyLoopsLight(s), OnlyLoopsLight(u)
  PROVE  OnlyLoopsLight(s \o u)
<1> DEFINE w == s \o u
<1>1. /\ Len(s) \in Nat /\ Len(u) \in Nat /\ Len(w) = Len(s) + Len(u)
      /\ \A i \in 1..Len(w) : w[i] = IF i <= Len(s) THEN s[i] ELSE u[i - Len(s)]
  BY ConcatProperties
<1> HIDE DEF w
<1>2. ASSUME NEW i \in 1..Len(w)
      PROVE  \/ i \in 1..Len(s) /\ w[i] = s[i]
             \/ i - Len(s) \in 1..Len(u) /\ w[i] = u[i - Len(s)]
  BY <1>1
<1>3. OnlyLoopsLight(w)
  BY <1>2 DEF OnlyLoopsLight
<1> QED BY <1>3 DEF w

\* Handles that are lost, lamps that go off and a lower count do no harm.
LEMMA DarkShrinks ==
  ASSUME NEW s \in Seq(Steps), NEW h, NEW l, NEW n, NEW h2, NEW l2, NEW n2, EndsDark(s, h, l, n),
         \A k \in Kits : h2[k] \in Pods => h2[k] = h[k],
         \A k \in Kits : k < n2 => k < n,
         \A p \in Pods : l2[p] \subseteq l[p]
  PROVE  EndsDark(s, h2, l2, n2)
<1>1. \A i \in 1..Len(s) : s[i].kit \in Kits
  <2>1. \A i \in 1..Len(s) : s[i] \in Steps
    BY ElementOfSeq
  <2>2. \A e \in Steps : e.kit \in Kits
    BY DEF Steps
  <2> QED BY <2>1, <2>2
<1> QED BY <1>1 DEF EndsDark

\* After the first step, if it lit nothing.
LEMMA DarkInTail ==
  ASSUME NEW s \in Seq(Steps), s # <<>>, NEW h, NEW l, NEW n, EndsDark(s, h, l, n),
         Head(s).do = "set" /\ h[Head(s).kit] \in Pods => Head(s).lamp \notin l[h[Head(s).kit]],
         Head(s).do = "close" => h[Head(s).kit] \notin Pods
  PROVE  EndsDark(Tail(s), h, l, n)
<1> DEFINE u == Tail(s)
<1>1. /\ Len(s) \in Nat /\ Len(u) = Len(s) - 1 /\ Len(s) >= 1 /\ Head(s) = s[1]
      /\ \A i \in 1..Len(u) : u[i] = s[i + 1]
  BY HeadTailProperties
<1> HIDE DEF u
<1>2. SUFFICES EndsDark(u, h, l, n)
  BY DEF u
<1>3. SUFFICES ASSUME NEW i \in 1..Len(u)
      PROVE /\ u[i].do \in {"close", "exit"} => \A j \in 1..(i - 1) : ~u[j].on
            /\ u[i].do = "close" /\ h[u[i].kit] \in Pods =>
                 \A lamp \in l[h[u[i].kit]] : \E j \in 1..(i - 1) : SwitchesOff(u[j], "set", u[i].kit, lamp)
            /\ u[i].do = "exit" =>
                 \A k \in Kits : k < n /\ h[k] \in Pods => \E j \in 1..(i - 1) : u[j].do = "close" /\ u[j].kit = k
  BY DEF EndsDark
<1>4. /\ i + 1 \in 1..Len(s) /\ u[i] = s[i + 1] /\ i \in Nat
      /\ \A j \in 1..(i - 1) : j + 1 \in 1..i /\ u[j] = s[j + 1]
      /\ \A j \in 2..i : j - 1 \in 1..(i - 1) /\ u[j - 1] = s[j]
      /\ i + 1 - 1 = i
  <2>1. i + 1 \in 1..Len(s) /\ u[i] = s[i + 1] /\ i \in Nat /\ i + 1 - 1 = i
    BY <1>1
  <2>2. ASSUME NEW j \in 1..(i - 1) PROVE j + 1 \in 1..i /\ u[j] = s[j + 1]
    <3>1. j \in 1..Len(u) /\ j + 1 \in 1..i
      BY <1>1, <2>1
    <3> QED BY <1>1, <3>1
  <2>3. ASSUME NEW j \in 2..i PROVE j - 1 \in 1..(i - 1) /\ u[j - 1] = s[j]
    <3>1. j - 1 \in 1..Len(u) /\ j - 1 \in 1..(i - 1) /\ (j - 1) + 1 = j
      BY <1>1, <2>1
    <3> QED BY <1>1, <3>1
  <2> QED BY <2>1, <2>2, <2>3
<1>5. /\ u[i].do \in {"close", "exit"} => \A j \in 1..i : ~s[j].on
      /\ u[i].do = "close" /\ h[u[i].kit] \in Pods =>
           \A lamp \in l[h[u[i].kit]] : \E j \in 1..i : SwitchesOff(s[j], "set", u[i].kit, lamp)
      /\ u[i].do = "exit" =>
           \A k \in Kits : k < n /\ h[k] \in Pods => \E j \in 1..i : s[j].do = "close" /\ s[j].kit = k
  <2>1. PICK m \in 1..Len(s) : m = i + 1 /\ u[i] = s[m]
    BY <1>4
  <2>2. m - 1 = i
    BY <1>4, <2>1
  <2>3. /\ s[m].do \in {"close", "exit"} => \A j \in 1..(m - 1) : ~s[j].on
        /\ s[m].do = "close" /\ h[s[m].kit] \in Pods =>
             \A lamp \in l[h[s[m].kit]] : \E j \in 1..(m - 1) : SwitchesOff(s[j], "set", s[m].kit, lamp)
        /\ s[m].do = "exit" =>
             \A k \in Kits : k < n /\ h[k] \in Pods => \E j \in 1..(m - 1) : s[j].do = "close" /\ s[j].kit = k
    BY DEF EndsDark
  <2> QED BY <2>1, <2>2, <2>3
<1>6. u[i].do \in {"close", "exit"} => \A j \in 1..(i - 1) : ~u[j].on
  BY <1>4, <1>5
<1>7. ASSUME u[i].do = "close", h[u[i].kit] \in Pods, NEW lamp \in l[h[u[i].kit]]
      PROVE  \E j \in 1..(i - 1) : SwitchesOff(u[j], "set", u[i].kit, lamp)
  <2>1. PICK j \in 1..i : SwitchesOff(s[j], "set", u[i].kit, lamp)
    BY <1>5, <1>7
  <2>2. j # 1
    BY <1>1, <1>7, <2>1 DEF SwitchesOff
  <2>3. j \in 2..i
    BY <1>4, <2>2
  <2> QED BY <1>4, <2>1, <2>3
<1>8. ASSUME u[i].do = "exit", NEW k \in Kits, k < n, h[k] \in Pods
      PROVE  \E j \in 1..(i - 1) : u[j].do = "close" /\ u[j].kit = k
  <2>1. PICK j \in 1..i : s[j].do = "close" /\ s[j].kit = k
    BY <1>5, <1>8
  <2>2. j # 1
    BY <1>1, <1>8, <2>1
  <2>3. j \in 2..i
    BY <1>4, <2>2
  <2> QED BY <1>4, <2>1, <2>3
<1> QED BY <1>6, <1>7, <1>8

\* After a step that may have lit a lamp no end comes.
LEMMA LightEndsNothing ==
  ASSUME NEW s \in Seq(Steps), s # <<>>, NEW h, NEW l, NEW n, EndsDark(s, h, l, n),
         Head(s).on, Head(s).do \notin {"close", "exit"}
  PROVE  EndsNothing(Tail(s))
<1> DEFINE u == Tail(s)
<1>1. /\ Len(s) \in Nat /\ Len(u) = Len(s) - 1 /\ Len(s) >= 1 /\ Head(s) = s[1]
      /\ \A i \in 1..Len(u) : u[i] = s[i + 1]
  BY HeadTailProperties
<1> HIDE DEF u
<1>2. ASSUME NEW i \in 1..Len(u) PROVE u[i].do \notin {"close", "exit"}
  <2>1. i + 1 \in 1..Len(s) /\ 1 \in 1..(i + 1 - 1) /\ u[i] = s[i + 1]
    BY <1>1
  <2> QED BY <1>1, <2>1 DEF EndsDark
<1> QED BY <1>2 DEF EndsNothing, u

\* Steps that light nothing may come before.
LEMMA DarkJoined ==
  ASSUME NEW s \in Seq(Steps), NEW u \in Seq(Steps), Plain(s), Darkens(s),
         NEW h, NEW l, NEW n, EndsDark(u, h, l, n)
  PROVE  EndsDark(s \o u, h, l, n)
<1> DEFINE w == s \o u
<1>1. /\ Len(s) \in Nat /\ Len(u) \in Nat /\ Len(w) = Len(s) + Len(u)
      /\ \A i \in 1..Len(w) : w[i] = IF i <= Len(s) THEN s[i] ELSE u[i - Len(s)]
  BY ConcatProperties
<1> HIDE DEF w
<1>2. SUFFICES ASSUME NEW i \in 1..Len(w), w[i].do \in {"close", "exit"}
      PROVE /\ \A j \in 1..(i - 1) : ~w[j].on
            /\ w[i].do = "close" /\ h[w[i].kit] \in Pods =>
                 \A lamp \in l[h[w[i].kit]] : \E j \in 1..(i - 1) : SwitchesOff(w[j], "set", w[i].kit, lamp)
            /\ w[i].do = "exit" =>
                 \A k \in Kits : k < n /\ h[k] \in Pods => \E j \in 1..(i - 1) : w[j].do = "close" /\ w[j].kit = k
  BY DEF EndsDark, w
<1>3. ~(i <= Len(s))
  <2>1. SUFFICES ASSUME i <= Len(s) PROVE FALSE
    OBVIOUS
  <2>2. i \in 1..Len(s) /\ w[i] = s[i]
    BY <1>1, <2>1
  <2> QED BY <1>2, <2>2 DEF Plain
<1>4. /\ i - Len(s) \in 1..Len(u) /\ w[i] = u[i - Len(s)]
      /\ \A j \in 1..(i - Len(s) - 1) : j + Len(s) \in 1..(i - 1) /\ w[j + Len(s)] = u[j]
      /\ \A j \in 1..(i - 1) : \/ j \in 1..Len(s) /\ w[j] = s[j]
                               \/ j - Len(s) \in 1..(i - Len(s) - 1) /\ w[j] = u[j - Len(s)]
  <2>1. i \in Nat /\ i - Len(s) \in 1..Len(u) /\ w[i] = u[i - Len(s)]
    BY <1>1, <1>3
  <2>2. ASSUME NEW j \in 1..(i - Len(s) - 1) PROVE j + Len(s) \in 1..(i - 1) /\ w[j + Len(s)] = u[j]
    <3>1. j + Len(s) \in 1..(i - 1) /\ j + Len(s) \in 1..Len(w) /\ ~(j + Len(s) <= Len(s))
      BY <1>1, <2>1
    <3>2. (j + Len(s)) - Len(s) = j
      BY <1>1
    <3> QED BY <1>1, <3>1, <3>2
  <2>3. ASSUME NEW j \in 1..(i - 1)
        PROVE  \/ j \in 1..Len(s) /\ w[j] = s[j]
               \/ j - Len(s) \in 1..(i - Len(s) - 1) /\ w[j] = u[j - Len(s)]
    <3>1. j \in 1..Len(w) /\ (j \in 1..Len(s) \/ (~(j <= Len(s)) /\ j - Len(s) \in 1..(i - Len(s) - 1)))
      BY <1>1, <2>1
    <3>2. j \in 1..Len(s) => j <= Len(s)
      BY <1>1
    <3> QED BY <1>1, <3>1, <3>2
  <2> QED BY <2>1, <2>2, <2>3
<1>5. /\ \A j \in 1..(i - Len(s) - 1) : ~u[j].on
      /\ w[i].do = "close" /\ h[w[i].kit] \in Pods => \A lamp \in l[h[w[i].kit]] :
           \E j \in 1..(i - Len(s) - 1) : SwitchesOff(u[j], "set", w[i].kit, lamp)
      /\ w[i].do = "exit" => \A k \in Kits : k < n /\ h[k] \in Pods =>
           \E j \in 1..(i - Len(s) - 1) : u[j].do = "close" /\ u[j].kit = k
  <2>1. PICK m \in 1..Len(u) : m = i - Len(s) /\ w[i] = u[m] /\ u[m].do \in {"close", "exit"}
    BY <1>2, <1>4
  <2>2. /\ \A j \in 1..(m - 1) : ~u[j].on
        /\ u[m].do = "close" /\ h[u[m].kit] \in Pods => \A lamp \in l[h[u[m].kit]] :
             \E j \in 1..(m - 1) : SwitchesOff(u[j], "set", u[m].kit, lamp)
        /\ u[m].do = "exit" => \A k \in Kits : k < n /\ h[k] \in Pods =>
             \E j \in 1..(m - 1) : u[j].do = "close" /\ u[j].kit = k
    BY <2>1 DEF EndsDark
  <2> QED BY <2>1, <2>2
<1>6. \A j \in 1..(i - 1) : ~w[j].on
  BY <1>4, <1>5 DEF Darkens
<1>7. ASSUME w[i].do = "close", h[w[i].kit] \in Pods, NEW lamp \in l[h[w[i].kit]]
      PROVE  \E j \in 1..(i - 1) : SwitchesOff(w[j], "set", w[i].kit, lamp)
  <2>1. PICK j \in 1..(i - Len(s) - 1) : SwitchesOff(u[j], "set", w[i].kit, lamp)
    BY <1>5, <1>7
  <2> QED BY <1>4, <2>1
<1>8. ASSUME w[i].do = "exit", NEW k \in Kits, k < n, h[k] \in Pods
      PROVE  \E j \in 1..(i - 1) : w[j].do = "close" /\ w[j].kit = k
  <2>1. PICK j \in 1..(i - Len(s) - 1) : u[j].do = "close" /\ u[j].kit = k
    BY <1>5, <1>8
  <2> QED BY <1>4, <2>1
<1> QED BY <1>6, <1>7, <1>8

\* End itself, whatever is lit.
LEMMA EndStepsDark ==
  ASSUME Table, World
  PROVE  Darkens(EndSteps) /\ EndsDark(EndSteps, handle, lamps, amount)
<1> DEFINE s == EndSteps
<1>1. amount \in Nat /\ Len(s) = 4 * amount + 1 /\ s[4 * amount + 1] = Just("exit")
  BY EndStepsTyped, Numbers DEF Table
<1>2. \A k \in Kits : k < amount =>
        /\ s[4 * k + 1] = Step("set", k, "fog", FALSE)
        /\ s[4 * k + 2] = Step("set", k, "strobe", FALSE)
        /\ s[4 * k + 3] = Step("set", k, "leds", FALSE)
        /\ s[4 * k + 4] = Step("close", k, "none", FALSE)
  BY EndStepsAre, Zenon DEF Table
<1>3. \A i \in 1..(4 * amount) : \E k \in Kits : k < amount /\ i \in {4 * k + 1, 4 * k + 2, 4 * k + 3, 4 * k + 4}
  BY EndStepsAre, Zenon DEF Table
<1> HIDE DEF s
<1>4. s[4 * amount + 1].do = "exit" /\ ~s[4 * amount + 1].on
  BY <1>1 DEF Just, Step
<1>5. \A k \in Kits : k < amount =>
        /\ SwitchesOff(s[4 * k + 1], "set", k, "fog") /\ SwitchesOff(s[4 * k + 2], "set", k, "strobe")
        /\ SwitchesOff(s[4 * k + 3], "set", k, "leds") /\ SwitchesOff(s[4 * k + 4], "close", k, "none")
  <2>1. \A do, k, lamp : SwitchesOff(Step(do, k, lamp, FALSE), do, k, lamp)
    BY DEF SwitchesOff, Step
  <2> QED BY <1>2, <2>1, Zenon
<1>6. ASSUME NEW i \in 1..Len(s), i # 4 * amount + 1
      PROVE  \E k \in Kits :
               /\ k < amount /\ s[i].kit = k /\ ~s[i].on /\ s[i].do \in {"set", "close"}
               /\ s[i].do = "close" => i = 4 * k + 4
  <2>1. i \in 1..(4 * amount)
    BY <1>1, <1>6
  <2>2. PICK k \in Kits : k < amount /\ i \in {4 * k + 1, 4 * k + 2, 4 * k + 3, 4 * k + 4}
    BY <1>3, <2>1
  <2>3. i = 4 * k + 1 \/ i = 4 * k + 2 \/ i = 4 * k + 3 \/ i = 4 * k + 4
    BY <2>2
  <2> QED BY <1>5, <2>2, <2>3 DEF SwitchesOff
<1>7. \A i \in 1..Len(s) : ~s[i].on
  BY <1>4, <1>6
<1>8. ASSUME NEW i \in 1..Len(s), s[i].do = "close"
      PROVE  \A lamp \in Lamps : \E j \in 1..(i - 1) : SwitchesOff(s[j], "set", s[i].kit, lamp)
  <2>1. i # 4 * amount + 1
    BY <1>4, <1>8
  <2>2. PICK k \in Kits : k < amount /\ s[i].kit = k /\ i = 4 * k + 4
    BY <1>6, <1>8, <2>1
  <2>3. 4 * k + 1 \in 1..(i - 1) /\ 4 * k + 2 \in 1..(i - 1) /\ 4 * k + 3 \in 1..(i - 1)
    BY <2>2 DEF Kits
  <2> QED BY <1>5, <2>2, <2>3 DEF Lamps
<1>9. ASSUME NEW i \in 1..Len(s), s[i].do = "exit", NEW k \in Kits, k < amount
      PROVE  \E j \in 1..(i - 1) : s[j].do = "close" /\ s[j].kit = k
  <2>1. i = 4 * amount + 1
    BY <1>6, <1>9
  <2>2. 4 * k + 4 \in 1..(i - 1)
    BY <1>1, <1>9, <2>1 DEF Kits
  <2> QED BY <1>5, <1>9, <2>2 DEF SwitchesOff
<1>10. \A i \in 1..Len(s) : \A j \in 1..(i - 1) : ~s[j].on
  BY <1>1, <1>7
<1>11. \A p \in Pods : lamps[p] \subseteq Lamps
  BY DEF World
<1>12. EndsDark(s, handle, lamps, amount)
  BY <1>8, <1>9, <1>10, <1>11 DEF EndsDark
<1> QED BY <1>7, <1>12 DEF s, Darkens

------------------------------------------------------------------------------
(* Nothing is left on.                                                      *)

LEMMA LitStart == Init => Lit
<1> SUFFICES ASSUME Init PROVE Lit
  OBVIOUS
<1>1. todo[Main] = <<>> /\ ~filled[Main] /\ \A p \in Pods : lamps[p] = {}
  BY DEF Init, Threads
<1>2. ReportKept /\ NothingLeftOn
  BY <1>1 DEF ReportKept, NothingLeftOn
<1> QED BY <1>1, <1>2, EmptyDoes DEF Lit

\* Main takes a step that sends no report.
LEMMA LitTakes ==
  ASSUME Typed, Lit, todo[Main] # <<>>, Current(Main).do \notin {"close", "exit"}, Done(Main),
         ~filled'[Main], lamps' = lamps, handle' = handle, amount' = amount,
         Current(Main).do = "set" => handle[Current(Main).kit] \notin Pods
  PROVE  Lit'
<1>1. todo[Main] \in Seq(Steps) /\ todo'[Main] = Tail(todo[Main])
  BY DEF Typed, Tasks, Threads, Done
<1>2. OnlyLoopsLight(todo'[Main])
  BY <1>1, OnlyLoopsTail DEF Lit
<1>3. EndsDark(todo'[Main], handle', lamps', amount')
  BY <1>1, DarkInTail DEF Lit, Current
<1>4. NothingLeftOn'
  BY DEF Lit, NothingLeftOn, Connected
<1> QED BY <1>2, <1>3, <1>4 DEF Lit, ReportKept

\* Main gets new steps, and the lamps stay.
LEMMA LitGets ==
  ASSUME Lit, OnlyLoopsLight(todo'[Main]), EndsDark(todo'[Main], handle, lamps, amount),
         ~filled'[Main], lamps' = lamps, handle' = handle, amount' = amount
  PROVE  Lit'
<1>1. NothingLeftOn'
  BY DEF Lit, NothingLeftOn, Connected
<1> QED BY <1>1 DEF Lit, ReportKept

LEMMA LitFills ==
  ASSUME Typed, Lit, FillReport(Main)
  PROVE  Lit'
<1>1. Main \in Threads
  BY DEF Threads
<1>2. /\ todo' = todo /\ handle' = handle /\ lamps' = lamps /\ amount' = amount /\ config' = config
      /\ Current(Main)' = Current(Main) /\ todo[Main] # <<>> /\ Sends(Current(Main))
      /\ report' = [report EXCEPT ![Current(Main).kit] = [lamp |-> Current(Main).lamp, on |-> Current(Main).on]]
  BY DEF FillReport, kitVars, podVars, Current
<1>3. Current(Main).kit \in Kits
  BY <1>1, <1>2, CurrentTyped DEF Typed
<1>4. report'[Current(Main).kit] = [lamp |-> Current(Main).lamp, on |-> Current(Main).on]
  BY <1>2, <1>3 DEF Typed, Table
<1>5. /\ Current(Main).do = "loop" => /\ Current(Main).kit < amount
                                      /\ config[Current(Main).kit] # NoConfig
      /\ Current(Main).do = "loop" /\ Current(Main).on /\ Current(Main).lamp \in {"leds", "strobe"}
           => config[Current(Main).kit] \in Enabled[Current(Main).lamp]
  BY <1>2 DEF Sends, Permits
<1>6. ReportKept'
  BY <1>2, <1>4, <1>5 DEF ReportKept
<1>7. NothingLeftOn'
  BY <1>2 DEF Lit, NothingLeftOn, Connected
<1> QED BY <1>2, <1>6, <1>7 DEF Lit

\* What a transfer does to the lamps.
LEMMA Transferred ==
  ASSUME Typed, Lit, TransferReport(Main)
  PROVE  /\ todo[Main] # <<>> /\ Current(Main).do \in Reports /\ Done(Main) /\ ~filled'[Main]
         /\ handle' = handle /\ amount' = amount /\ config' = config
         /\ \A p \in Pods : p # handle[Current(Main).kit] => lamps'[p] = lamps[p]
         /\ ~Current(Main).on => \A p \in Pods : lamps'[p] \subseteq lamps[p]
         /\ ~Current(Main).on /\ handle[Current(Main).kit] \in Pods =>
              Current(Main).lamp \notin lamps'[handle[Current(Main).kit]]
         /\ \A p \in Pods : lamps'[p] \subseteq lamps[p] \cup ({Current(Main).lamp} \cap Lamps)
<1> DEFINE s == Current(Main)
           p0 == handle[s.kit]
<1>1. Main \in Threads
  BY DEF Threads
<1>2. /\ todo[Main] # <<>> /\ s.do \in Reports /\ Done(Main) /\ ~filled'[Main]
      /\ handle' = handle /\ amount' = amount /\ config' = config
      /\ report[s.kit] = [lamp |-> s.lamp, on |-> s.on]
  BY <1>1 DEF TransferReport, Typed, FilledHasStep, Tasks, kitVars, Lit, ReportKept
<1>3. lamps' = IF p0 \in Pods THEN [lamps EXCEPT ![p0] = Obey(@, report[s.kit])] ELSE lamps
  BY DEF TransferReport
<1>4. s.on \in BOOLEAN
  BY <1>1, <1>2, CurrentTyped DEF Typed
<1>5. /\ \A p \in Pods : p # p0 => lamps'[p] = lamps[p]
      /\ p0 \in Pods => lamps'[p0] = Obey(lamps[p0], report[s.kit])
  BY <1>3 DEF Typed, World
<1>6. \A on : Obey(on, report[s.kit]) = (IF s.on THEN on \cup {s.lamp} ELSE on \ {s.lamp}) \cap Lamps
  BY <1>2 DEF Obey
<1> QED BY <1>2, <1>4, <1>5, <1>6

LEMMA LitTransfers ==
  ASSUME Typed, Lit, TransferReport(Main)
  PROVE  Lit'
<1>1. /\ todo[Main] # <<>> /\ Current(Main).do \in Reports /\ Done(Main) /\ ~filled'[Main]
      /\ handle' = handle /\ amount' = amount
      /\ \A p \in Pods : p # handle[Current(Main).kit] => lamps'[p] = lamps[p]
  BY Transferred
<1>2. todo[Main] \in Seq(Steps) /\ todo'[Main] = Tail(todo[Main])
  BY <1>1 DEF Typed, Tasks, Threads, Done
<1>3. OnlyLoopsLight(todo'[Main])
  BY <1>1, <1>2, OnlyLoopsTail DEF Lit
<1>4. Current(Main).do \notin {"close", "exit"} /\ Current(Main) = todo[Main][1] /\ 1 \in 1..Len(todo[Main])
  BY <1>1, <1>2, HeadTailProperties DEF Reports, Limits, Current
<1>5. Current(Main).kit \in Kits /\ Main \in Threads
  BY <1>1, CurrentTyped DEF Typed, Threads
<1>6. CASE Current(Main).on
  <2>1. EndsNothing(Tail(todo[Main]))
    BY <1>1, <1>2, <1>4, <1>6, LightEndsNothing DEF Lit, Current
  <2>2. EndsDark(todo'[Main], handle', lamps', amount')
    BY <1>2, <2>1, NoEndIsDark
  <2>3. CASE Current(Main).lamp = "status"
    <3>1. "status" \notin Lamps
      BY DEF Lamps
    <3>2. \A p \in Pods : lamps'[p] \subseteq lamps[p]
      BY <2>3, <3>1, Transferred
    <3>3. NothingLeftOn'
      BY <1>1, <3>2 DEF Lit, NothingLeftOn, Connected
    <3> QED BY <1>1, <1>3, <2>2, <3>3 DEF Lit, ReportKept
  <2>4. CASE Current(Main).lamp # "status"
    <3>1. Current(Main).do = "loop"
      BY <1>4, <1>6, <2>4 DEF Lit, OnlyLoopsLight
    <3>2. Current(Main).kit < amount
      BY <3>1 DEF TransferReport, Lit, ReportKept
    <3>3. NothingLeftOn'
      BY <1>1, <1>5, <3>2 DEF Lit, NothingLeftOn, Connected
    <3> QED BY <1>1, <1>3, <2>2, <3>3 DEF Lit, ReportKept
  <2> QED BY <2>3, <2>4
<1>7. CASE ~Current(Main).on
  <2>1. \A p \in Pods : lamps'[p] \subseteq lamps[p]
    BY <1>7, Transferred
  <2>2. EndsDark(todo[Main], handle, lamps', amount)
    <3>1. EndsDark(todo[Main], handle, lamps, amount)
      BY DEF Lit
    <3> QED BY <1>2, <2>1, <3>1, DarkShrinks
  <2>3. EndsDark(todo'[Main], handle', lamps', amount')
    BY <1>1, <1>2, <1>4, <1>7, <2>2, DarkInTail, Transferred DEF Current
  <2>4. NothingLeftOn'
    BY <1>1, <2>1 DEF Lit, NothingLeftOn, Connected
  <2> QED BY <1>1, <1>3, <2>3, <2>4 DEF Lit, ReportKept
<1> QED BY <1>6, <1>7

LEMMA LitCloses ==
  ASSUME Typed, Lit, CloseKit
  PROVE  Lit'
<1> DEFINE k == Current(Main).kit
<1>1. /\ todo[Main] # <<>> /\ Current(Main).do = "close" /\ Done(Main) /\ filled' = filled
      /\ handle' = [handle EXCEPT ![k] = None] /\ lamps' = lamps /\ amount' = amount
  BY DEF CloseKit, podVars
<1>2. todo[Main] \in Seq(Steps) /\ todo'[Main] = Tail(todo[Main]) /\ Main \in Threads /\ k \in Kits
  BY <1>1, CurrentTyped DEF Typed, Tasks, Threads, Done
<1>3. \A j \in Kits : handle'[j] = IF j = k THEN None ELSE handle[j]
  BY <1>1, <1>2 DEF Typed, Table
<1>4. None \notin Pods
  BY KitsAssumption
<1>5. Current(Main) = todo[Main][1] /\ 1 \in 1..Len(todo[Main])
  BY <1>1, <1>2, HeadTailProperties DEF Current
<1>6. handle[k] \in Pods => lamps[handle[k]] = {}
  <2>1. \A j \in 1..(1 - 1) : FALSE
    OBVIOUS
  <2> QED BY <1>1, <1>5, <2>1 DEF Lit, EndsDark
<1>7. ~filled'[Main]
  BY <1>1, <1>2 DEF Typed, FilledHasStep, Reports, Limits
<1>8. NothingLeftOn'
  <2>1. SUFFICES ASSUME NEW p \in Pods, lamps[p] # {} PROVE \E j \in Kits : j < amount' /\ handle'[j] = p
    BY <1>1 DEF NothingLeftOn, Connected
  <2>2. PICK j \in Kits : j < amount /\ handle[j] = p
    BY <2>1 DEF Lit, NothingLeftOn, Connected
  <2>3. j # k
    BY <1>6, <2>1, <2>2
  <2> QED BY <1>1, <1>3, <2>2, <2>3
<1>9. EndsDark(todo'[Main], handle', lamps', amount')
  <2>1. \A j \in Kits : handle'[j] \in Pods => handle'[j] = handle[j]
    BY <1>3, <1>4
  <2>2. EndsDark(todo[Main], handle', lamps, amount)
    BY <1>2, <2>1, DarkShrinks DEF Lit
  <2>3. Head(todo[Main]) = Current(Main) /\ handle'[k] \notin Pods
    BY <1>2, <1>3, <1>4 DEF Current
  <2> QED BY <1>1, <1>2, <2>2, <2>3, DarkInTail
<1> QED BY <1>1, <1>2, <1>7, <1>8, <1>9, OnlyLoopsTail DEF Lit, ReportKept

LEMMA LitExits ==
  ASSUME Typed, Lit, ExitContext
  PROVE  Lit'
<1>1. /\ todo[Main] # <<>> /\ Current(Main).do = "exit" /\ Done(Main) /\ filled' = filled
      /\ amount' = 0 /\ lamps' = lamps
      /\ handle' = [k \in Kits |-> IF handle[k] = None THEN None ELSE Gone]
  BY DEF ExitContext, podVars
<1>2. todo[Main] \in Seq(Steps) /\ todo'[Main] = Tail(todo[Main]) /\ Main \in Threads
  BY <1>1 DEF Typed, Tasks, Threads, Done
<1>3. \A k \in Kits : handle'[k] \notin Pods
  BY <1>1, KitsAssumption
<1>4. Current(Main) = todo[Main][1] /\ 1 \in 1..Len(todo[Main])
  BY <1>1, <1>2, HeadTailProperties DEF Current
<1>5. \A k \in Kits : k < amount => handle[k] \notin Pods
  <2>1. \A j \in 1..(1 - 1) : FALSE
    OBVIOUS
  <2> QED BY <1>1, <1>4, <2>1 DEF Lit, EndsDark
<1>6. \A p \in Pods : lamps[p] = {}
  BY <1>5 DEF Lit, NothingLeftOn, Connected
<1>7. NothingLeftOn'
  BY <1>1, <1>6 DEF NothingLeftOn
<1>8. ~filled'[Main]
  BY <1>1, <1>2 DEF Typed, FilledHasStep, Reports, Limits
<1>9. EndsDark(todo'[Main], handle', lamps', amount')
  <2>1. \A k \in Kits : k < 0 => k < amount
    BY DEF Kits
  <2>2. EndsDark(todo[Main], handle', lamps, 0)
    BY <1>2, <1>3, <2>1, DarkShrinks DEF Lit
  <2> QED BY <1>1, <1>2, <2>2, DarkInTail DEF Current
<1> QED BY <1>1, <1>2, <1>7, <1>8, <1>9, OnlyLoopsTail DEF Lit, ReportKept

\* A scan begins with nothing lit, because nothing is connected.
LEMMA LitConnects ==
  ASSUME Typed, Sound, Lit, NEW order, NEW bad, NEW n \in 0..MaxKits, Connect(order, bad, n)
  PROVE  /\ Lit' /\ \A p \in Pods : lamps'[p] = {}
<1> DEFINE given == IF DefaultConfig = 0 THEN 1 ELSE DefaultConfig
           calls == [k \in Kits |-> SetConfigSteps(k, given)]
           count == IF DefaultConfig # 0 THEN MaxKits ELSE IF n = 1 THEN 1 ELSE 0
<1>1. ~context /\ filled' = filled /\ todo[Main] = <<>>
  BY DEF Connect
<1>2. \A k \in Kits : ~(k < amount)
  BY <1>1, Numbers DEF Sound, Typed, Table, Kits
<1>3. \A p \in Pods : lamps[p] = {}
  BY <1>2 DEF Lit, NothingLeftOn, Connected
<1>4. \A p \in Pods : lamps'[p] = {}
  BY <1>3 DEF Connect
<1>5. ~filled'[Main]
  BY <1>1 DEF Typed, FilledHasStep, Threads
<1>6. EndsNothing(todo'[Main]) /\ OnlyLoopsLight(todo'[Main])
  <2>1. CASE todo' = todo
    BY <1>1, <2>1 DEF EndsNothing, OnlyLoopsLight
  <2>2. CASE todo' = [todo EXCEPT ![Main] = ForKits(count, calls)]
    <3>1. calls \in [Kits -> [1..4 -> Steps]] /\ count \in 0..MaxKits
      BY SetConfigTyped, Numbers
    <3>2. \A k \in Kits, i \in 1..4 :
            /\ calls[k][i].do \notin {"close", "exit"}
            /\ calls[k][i].on => calls[k][i].lamp = "status"
      <4>1. TAKE k \in Kits, i \in 1..4
      <4>2. /\ SetConfigSteps(k, given)[i].do \in {"disable", "set"}
            /\ SetConfigSteps(k, given)[i].on => SetConfigSteps(k, given)[i].lamp = "status"
        BY ConfigsArePlain
      <4>3. calls[k] = SetConfigSteps(k, given)
        OBVIOUS
      <4> HIDE DEF calls, given
      <4> QED BY <4>2, <4>3
    <3> HIDE DEF calls, count
    <3>3. \A i \in 1..Len(ForKits(count, calls)) :
            /\ ForKits(count, calls)[i].do \notin {"close", "exit"}
            /\ ForKits(count, calls)[i].on => ForKits(count, calls)[i].lamp = "status"
      <4>1. TAKE i \in 1..Len(ForKits(count, calls))
      <4>2. PICK k \in Kits, j \in 1..4 : ForKits(count, calls)[i] = calls[k][j]
        <5>1. i \in 1..(4 * count)
          BY <3>1, ForKitsTyped
        <5> QED BY <3>1, <5>1, ForKitsTyped
      <4> QED BY <3>2, <4>2
    <3>4. todo'[Main] = ForKits(count, calls)
      BY <2>2 DEF Typed, Tasks, Threads
    <3> QED BY <3>3, <3>4 DEF EndsNothing, OnlyLoopsLight
  <2> QED BY <2>1, <2>2 DEF Connect
<1>7. NothingLeftOn'
  BY <1>4 DEF NothingLeftOn
<1> QED BY <1>4, <1>5, <1>6, <1>7, NoEndIsDark DEF Lit, ReportKept

LEMMA LitStep ==
  ASSUME Watchers = {}
  PROVE  Typed /\ Sound /\ Lit /\ [Next]_vars => Lit'
<1> SUFFICES ASSUME Typed, Sound, Lit, [Next]_vars PROVE Lit'
  OBVIOUS
<1>1. /\ Threads = {Main} /\ todo \in [Threads -> Seq(Steps)]
      /\ filled[Main] => todo[Main] # <<>> /\ Current(Main).do \in Reports
  BY DEF Threads, Typed, Tasks, FilledHasStep
<1>2. CASE SkipReport(Main)
  <2>1. /\ todo[Main] # <<>> /\ Current(Main).do \in Reports /\ ~Sends(Current(Main)) /\ Done(Main)
        /\ ~filled'[Main] /\ lamps' = lamps /\ handle' = handle /\ amount' = amount
    BY <1>2 DEF SkipReport, kitVars, podVars
  <2>2. Current(Main).do \notin {"close", "exit"}
    BY <2>1 DEF Reports, Limits
  <2>3. Current(Main).do = "set" => handle[Current(Main).kit] \notin Pods
    BY <2>1, KitsAssumption DEF Sends, Limits
  <2> QED BY <2>1, <2>2, <2>3, LitTakes
<1>3. CASE FillReport(Main)
  BY <1>3, LitFills
<1>4. CASE TransferReport(Main)
  BY <1>4, LitTransfers
<1>5. CASE Unlock(Main) \/ Settle
  <2>1. /\ todo[Main] # <<>> /\ Current(Main).do \in {"unlock", "settle"} /\ Done(Main) /\ filled' = filled
        /\ lamps' = lamps /\ handle' = handle /\ amount' = amount
    BY <1>5 DEF Unlock, Settle, kitVars, podVars
  <2>2. ~filled'[Main]
    BY <1>1, <2>1 DEF Reports, Limits
  <2> QED BY <2>1, <2>2, LitTakes
<1>6. CASE CloseKit
  BY <1>6, LitCloses
<1>7. CASE ExitContext
  BY <1>7, LitExits
<1>8. CASE CountTotal
  <2>1. PICK s \in Seq(Steps) : Plain(s) /\ Darkens(s) /\ todo' = [todo EXCEPT ![Main] = s \o Tail(@)]
    <3>1. /\ LimitSteps("totalLimit", TotalMax, totalTime') \in Seq(Steps) /\ <<>> \in Seq(Steps)
          /\ Plain(LimitSteps("totalLimit", TotalMax, totalTime'))
          /\ Darkens(LimitSteps("totalLimit", TotalMax, totalTime'))
      BY LimitStepsTyped, LimitsArePlain DEF Limits
    <3>2. Plain(<<>>) /\ Darkens(<<>>)
      BY DEF Plain, Darkens
    <3> QED BY <1>8, <3>1, <3>2 DEF CountTotal
  <2>2. /\ todo[Main] # <<>> /\ Current(Main).do = "total" /\ filled' = filled
        /\ lamps' = lamps /\ handle' = handle /\ amount' = amount
    BY <1>8 DEF CountTotal, kitVars, podVars
  <2>3. ~filled'[Main]
    BY <1>1, <2>2 DEF Reports, Limits
  <2>4. todo[Main] \in Seq(Steps) /\ Tail(todo[Main]) \in Seq(Steps)
    BY <1>1, <2>2
  <2>5. EndsDark(Tail(todo[Main]), handle, lamps, amount)
    BY <2>2, <2>4, DarkInTail DEF Lit, Current
  <2>6. OnlyLoopsLight(Tail(todo[Main]))
    BY <2>2, <2>4, OnlyLoopsTail DEF Lit
  <2>7. todo'[Main] = s \o Tail(todo[Main])
    BY <1>1, <2>1
  <2> QED BY <2>1, <2>2, <2>3, <2>4, <2>5, <2>6, <2>7, DarkJoined, OnlyLoopsJoined, PlainDoesBoth, LitGets
<1>9. ASSUME NEW s \in Seq(Steps), OnlyLoopsLight(s), EndsDark(s, handle, lamps, amount),
             todo[Main] = <<>>, todo' = [todo EXCEPT ![Main] = s],
             UNCHANGED <<filled, lamps, handle, amount>>
      PROVE  Lit'
  BY <1>1, <1>9, LitGets
<1>10. ASSUME NEW s \in Seq(Steps), Plain(s), todo[Main] = <<>>, todo' = [todo EXCEPT ![Main] = s],
              UNCHANGED <<filled, lamps, handle, amount>>
       PROVE  Lit'
  BY <1>9, <1>10, PlainDoesBoth, NoEndIsDark
<1>11. CASE TimeUpdate
  <2>1. PICK s \in Seq(Steps) : Plain(s) /\ todo' = [todo EXCEPT ![Main] = s \o <<Just("total"), Just("settle")>>]
    <3>1. /\ LimitSteps("instanceLimit", InstanceMax, instanceTime') \in Seq(Steps) /\ <<>> \in Seq(Steps)
          /\ Plain(LimitSteps("instanceLimit", InstanceMax, instanceTime'))
      BY LimitStepsTyped, LimitsArePlain DEF Limits
    <3>2. Plain(<<>>)
      BY DEF Plain
    <3> QED BY <1>11, <3>1, <3>2 DEF TimeUpdate
  <2>2. <<Just("total"), Just("settle")>> \in Seq(Steps) /\ Plain(<<Just("total"), Just("settle")>>)
    <3>1. <<Just("total"), Just("settle")>> \in Seq(Steps)
      BY JustTyped
    <3>2. Plain(<<Just("total"), Just("settle")>>)
      BY DEF Plain, Just, Step
    <3> QED BY <3>1, <3>2
  <2>3. /\ s \o <<Just("total"), Just("settle")>> \in Seq(Steps)
        /\ Plain(s \o <<Just("total"), Just("settle")>>)
    BY <2>1, <2>2, ConcatProperties, PlainJoined
  <2> QED BY <1>10, <1>11, <2>1, <2>3 DEF TimeUpdate, MainAt, kitVars
<1>12. ASSUME NEW command \in Commands, PollCommand(command) PROVE Lit'
  <2>1. <<Just("unlock")>> \in Seq(Steps) /\ Plain(<<Just("unlock")>>)
    BY JustTyped, OneIsPlain
  <2>2. /\ Calls(command) \o <<Just("unlock")>> \in Seq(Steps)
        /\ Plain(Calls(command) \o <<Just("unlock")>>)
    BY <2>1, CallsTyped, CallsArePlain, ConcatProperties, PlainJoined
  <2> QED BY <1>10, <1>12, <2>2 DEF PollCommand, Rumble, MainAt, kitVars, podVars
<1>13. EndSteps \in Seq(Steps) /\ OnlyLoopsLight(EndSteps) /\ EndsDark(EndSteps, handle, lamps, amount)
  BY EndStepsTyped, EndStepsDark, DarkDoes DEF Typed, Table
<1>14. ASSUME NEW s \in Seq(Steps), Plain(s), Darkens(s)
       PROVE  /\ s \o EndSteps \in Seq(Steps) /\ OnlyLoopsLight(s \o EndSteps)
              /\ EndsDark(s \o EndSteps, handle, lamps, amount)
  BY <1>13, <1>14, ConcatProperties, DarkJoined, OnlyLoopsJoined, DarkDoes
<1>15. CASE Restart
  <2>1. PICK s \in Seq(Steps) : /\ todo' = [todo EXCEPT ![Main] = s]
                                /\ OnlyLoopsLight(s) /\ EndsDark(s, handle, lamps, amount)
    <3> DEFINE u == Calls("SK_ALL_OFF") \o <<Just("unlock")>>
    <3>1. u \in Seq(Steps) /\ Plain(u) /\ Darkens(u)
      BY BeforeTheEnd
    <3>2. todo' = [todo EXCEPT ![Main] = u \o EndSteps] \/ todo' = [todo EXCEPT ![Main] = EndSteps]
      BY <1>15 DEF Restart
    <3> HIDE DEF u
    <3> QED BY <1>13, <1>14, <3>1, <3>2
  <2> QED BY <1>9, <1>15, <2>1 DEF Restart, MainAt, kitVars, podVars
<1>16. CASE RestartSender
  <2>1. PICK s \in Seq(Steps) : /\ todo' = [todo EXCEPT ![Main] = s]
                                /\ OnlyLoopsLight(s) /\ EndsDark(s, handle, lamps, amount)
    <3> DEFINE u == Loop("strobe", FALSE) \o Loop("fog", FALSE) \o Loop("leds", FALSE)
    <3>1. u \in Seq(Steps) /\ Plain(u) /\ Darkens(u)
      BY BeforeTheEnd, Zenon
    <3>2. todo' = [todo EXCEPT ![Main] = u \o EndSteps] \/ todo' = [todo EXCEPT ![Main] = <<>>]
      BY <1>16, Zenon DEF RestartSender
    <3>3. <<>> \in Seq(Steps) /\ OnlyLoopsLight(<<>>) /\ EndsDark(<<>>, handle, lamps, amount)
      BY EmptySeq, EmptyDoes
    <3> HIDE DEF u
    <3> QED BY <1>14, <3>1, <3>2, <3>3
  <2> QED BY <1>9, <1>16, <2>1 DEF RestartSender, MainAt, kitVars, podVars
<1>17. ASSUME NEW k \in Kits, PressXbox(k) PROVE Lit'
  <2>1. PICK c : todo' = [todo EXCEPT ![Main] = SetConfigSteps(k, c)]
    BY <1>17 DEF PressXbox
  <2>2. SetConfigSteps(k, c) \in Seq(Steps) /\ Plain(SetConfigSteps(k, c))
    BY SetConfigTyped, ConfigsArePlain
  <2> QED BY <1>10, <1>17, <2>1, <2>2 DEF PressXbox, MainAt
<1>18. ASSUME NEW opened \in SUBSET plugged, NEW order \in SetToSeqs(opened),
              NEW bad \in SUBSET opened, NEW n \in 0..MaxKits, Connect(order, bad, n)
       PROVE  Lit'
  BY <1>18, LitConnects
<1>19. ASSUME NEW p \in Pods, Unplug(p) PROVE Lit'
  <2>1. \A k \in Kits : handle'[k] = IF handle[k] = p THEN Gone ELSE handle[k]
    BY <1>19 DEF Unplug
  <2>2. \A q \in Pods : lamps'[q] = IF q = p THEN {} ELSE lamps[q]
    BY <1>19 DEF Unplug, Typed, World
  <2>3. Gone \notin Pods
    BY KitsAssumption
  <2>4. /\ todo' = todo /\ filled' = filled /\ amount' = amount /\ report' = report /\ config' = config
        /\ Current(Main)' = Current(Main)
    BY <1>19 DEF Unplug, Current
  <2>5. EndsDark(todo'[Main], handle', lamps', amount')
    <3>1. \A k \in Kits : handle'[k] \in Pods => handle'[k] = handle[k]
      BY <2>1, <2>3
    <3>2. \A q \in Pods : lamps'[q] \subseteq lamps[q]
      BY <2>2
    <3>3. todo[Main] \in Seq(Steps) /\ EndsDark(todo[Main], handle, lamps, amount)
      BY <1>1 DEF Lit
    <3> QED BY <2>4, <3>1, <3>2, <3>3, DarkShrinks
  <2>6. NothingLeftOn'
    BY <2>1, <2>2, <2>4 DEF Lit, NothingLeftOn, Connected
  <2>7. ReportKept'
    BY <2>4 DEF Lit, ReportKept
  <2> QED BY <2>4, <2>5, <2>6, <2>7 DEF Lit
<1>20. ASSUME UNCHANGED <<todo, filled, lamps, handle, amount, report, config>> PROVE Lit'
  BY <1>20 DEF Lit, ReportKept, NothingLeftOn, Connected, Current
<1>21. CASE PollNothing \/ CountNoData \/ PressNothing \/ (\E p \in Pods : Plug(p))
  BY <1>20, <1>21 DEF PollNothing, CountNoData, PressNothing, Plug, kitVars, podVars
<1>22. CASE UNCHANGED vars
  BY <1>20, <1>22 DEF vars, kitVars, podVars
<1> QED BY <1>1, <1>2, <1>3, <1>4, <1>5, <1>6, <1>7, <1>8, <1>11, <1>12, <1>15, <1>16, <1>17, <1>18,
           <1>19, <1>21, <1>22 DEF Next

\* Without button threads no pod is lit that the manager does not drive: whatever was
\* unplugged, failed to come up or was restarted (USB_360StageKit.cpp:89-93).
THEOREM NothingIsLeftOn == Watchers = {} => (Spec => []NothingLeftOn)
<1>1. Init => Typed /\ Sound /\ Lit
  BY TypesStart, SoundStart, LitStart DEF Typed
<1>2. ASSUME Watchers = {} PROVE Typed /\ Sound /\ Lit /\ [Next]_vars => (Typed /\ Sound /\ Lit)'
  BY <1>2, TypedStep, SoundStep, LitStep
<1>3. Lit => NothingLeftOn
  BY DEF Lit
<1>4. ASSUME Watchers = {} PROVE Spec => []NothingLeftOn
  BY <1>1, <1>2, <1>3, <1>4, PTL DEF Spec
<1> QED BY <1>4

------------------------------------------------------------------------------
(* The configurations.                                                      *)

LEMMA PendingInTail ==
  ASSUME NEW s \in Seq(Steps), s # <<>>, NEW do, NEW k, NEW lamp
  PROVE  /\ Pending(s, do, k, lamp) /\ ~SwitchesOff(Head(s), do, k, lamp) => Pending(Tail(s), do, k, lamp)
         /\ Pending(Tail(s), do, k, lamp) => Pending(s, do, k, lamp)
<1> DEFINE u == Tail(s)
<1>1. /\ Len(s) \in Nat /\ Len(u) = Len(s) - 1 /\ Len(s) >= 1 /\ Head(s) = s[1]
      /\ \A i \in 1..Len(u) : u[i] = s[i + 1]
  BY HeadTailProperties
<1> HIDE DEF u
<1>2. ASSUME NEW i \in 1..Len(s), SwitchesOff(s[i], do, k, lamp), ~SwitchesOff(Head(s), do, k, lamp)
      PROVE  \E j \in 1..Len(u) : SwitchesOff(u[j], do, k, lamp)
  <2>1. i # 1
    BY <1>1, <1>2
  <2>2. i - 1 \in 1..Len(u) /\ u[i - 1] = s[i]
    BY <1>1, <2>1
  <2> QED BY <1>2, <2>2
<1>3. ASSUME NEW j \in 1..Len(u), SwitchesOff(u[j], do, k, lamp)
      PROVE  \E i \in 1..Len(s) : SwitchesOff(s[i], do, k, lamp)
  <2>1. j + 1 \in 1..Len(s) /\ u[j] = s[j + 1]
    BY <1>1
  <2> QED BY <1>3, <2>1
<1> QED BY <1>2, <1>3 DEF Pending, u

LEMMA PendingJoined ==
  ASSUME NEW s \in Seq(Steps), NEW u \in Seq(Steps), NEW do, NEW k, NEW lamp
  PROVE  Pending(s \o u, do, k, lamp) <=> Pending(s, do, k, lamp) \/ Pending(u, do, k, lamp)
<1> DEFINE w == s \o u
<1>1. /\ Len(s) \in Nat /\ Len(u) \in Nat /\ Len(w) = Len(s) + Len(u)
      /\ \A i \in 1..Len(w) : w[i] = IF i <= Len(s) THEN s[i] ELSE u[i - Len(s)]
  BY ConcatProperties
<1> HIDE DEF w
<1>2. \A i \in 1..Len(s) : i \in 1..Len(w) /\ w[i] = s[i]
  BY <1>1
<1>3. \A i \in 1..Len(u) : i + Len(s) \in 1..Len(w) /\ w[i + Len(s)] = u[i]
  BY <1>1
<1>4. ASSUME NEW i \in 1..Len(w)
      PROVE  \/ i \in 1..Len(s) /\ w[i] = s[i]
             \/ i - Len(s) \in 1..Len(u) /\ w[i] = u[i - Len(s)]
  BY <1>1
<1>5. Pending(w, do, k, lamp) <=> Pending(s, do, k, lamp) \/ Pending(u, do, k, lamp)
  BY <1>2, <1>3, <1>4 DEF Pending
<1> QED BY <1>5 DEF w

LEMMA NothingPending == \A do, k, lamp : ~Pending(<<>>, do, k, lamp)
BY DEF Pending

\* A new configuration switches off whatever it does not enable.
LEMMA ConfigPends ==
  ASSUME NEW k \in Kits, NEW c
  PROVE  \A lamp \in {"leds", "strobe"} : Pending(SetConfigSteps(k, c), "disable", k, lamp)
<1> DEFINE s == SetConfigSteps(k, c)
<1>1. Len(s) = 4 /\ s[1] = Step("disable", k, "leds", FALSE) /\ s[2] = Step("disable", k, "strobe", FALSE)
  BY ConfigsArePlain, Zenon
<1>2. \A lamp : SwitchesOff(Step("disable", k, lamp, FALSE), "disable", k, lamp)
  BY DEF SwitchesOff, Step
<1> HIDE DEF s
<1>3. SwitchesOff(s[1], "disable", k, "leds") /\ SwitchesOff(s[2], "disable", k, "strobe")
  BY <1>1, <1>2, Zenon
<1>4. 1 \in 1..Len(s) /\ 2 \in 1..Len(s)
  BY <1>1
<1> QED BY <1>3, <1>4 DEF Pending, s

\* Where nothing is lit or connected anew, only the pending steps matter.
LEMMA ObeyedKeeps ==
  ASSUME Obeyed,
         \A k \in Kits : k < amount' /\ handle'[k] \in Pods =>
           /\ k < amount /\ handle'[k] = handle[k] /\ config'[k] = config[k]
           /\ lamps'[handle[k]] \subseteq lamps[handle[k]],
         \A k \in Kits, lamp \in {"leds", "strobe"} :
           k < amount' /\ handle'[k] \in Pods /\ lamp \in lamps'[handle'[k]] /\
           Pending(todo[Main], "disable", k, lamp)
             => config'[k] \in Enabled[lamp] \/ Pending(todo'[Main], "disable", k, lamp)
  PROVE  Obeyed'
BY DEF Obeyed, Connected

LEMMA ObeyedTransfers ==
  ASSUME Typed, Sound, Lit, Obeyed, TransferReport(Main)
  PROVE  Obeyed'
<1> DEFINE s == Current(Main)
           p0 == handle[s.kit]
<1>1. /\ todo[Main] # <<>> /\ s.do \in Reports /\ Done(Main) /\ filled[Main]
      /\ handle' = handle /\ amount' = amount /\ config' = config
  BY Transferred DEF TransferReport
<1>2. /\ todo[Main] \in Seq(Steps) /\ todo'[Main] = Tail(todo[Main]) /\ s = Head(todo[Main])
      /\ s.kit \in Kits /\ s = todo[Main][1] /\ 1 \in 1..Len(todo[Main]) /\ s.on \in BOOLEAN
  BY <1>1, CurrentTyped, HeadTailProperties DEF Typed, Tasks, Threads, Done, Current
<1>3. CASE ~s.on
  <2>1. \A p \in Pods : lamps'[p] \subseteq lamps[p]
    BY <1>3, Transferred
  <2>2. ASSUME NEW k \in Kits, NEW lamp \in {"leds", "strobe"}, handle[k] \in Pods,
               lamp \in lamps'[handle[k]], Pending(todo[Main], "disable", k, lamp)
        PROVE  Pending(todo'[Main], "disable", k, lamp)
    <3>1. ~SwitchesOff(s, "disable", k, lamp)
      BY <1>3, <2>2, Transferred DEF SwitchesOff
    <3> QED BY <1>1, <1>2, <2>2, <3>1, PendingInTail
  <2> QED BY <1>1, <2>1, <2>2, ObeyedKeeps
<1>4. CASE s.on
  <2>1. \A k, lamp : ~SwitchesOff(s, "disable", k, lamp)
    BY <1>4 DEF SwitchesOff
  <2>2. \A k, lamp : Pending(todo[Main], "disable", k, lamp) => Pending(todo'[Main], "disable", k, lamp)
    BY <1>1, <1>2, <2>1, PendingInTail
  <2>3. CASE s.lamp \notin {"leds", "strobe"}
    <3>1. SUFFICES ASSUME NEW k \in Kits, k < amount, handle[k] \in Pods, NEW lamp \in {"leds", "strobe"},
                          lamp \in lamps'[handle[k]]
                   PROVE  config[k] \in Enabled[lamp] \/ Pending(todo'[Main], "disable", k, lamp)
      BY <1>1 DEF Obeyed, Connected
    <3>2. lamp \in lamps[handle[k]]
      BY <2>3, <3>1, Transferred
    <3> QED BY <2>2, <3>1, <3>2 DEF Obeyed, Connected
  <2>4. CASE s.lamp \in {"leds", "strobe"}
    <3>1. s.do = "loop" /\ s.kit < amount /\ config[s.kit] \in Enabled[s.lamp]
      <4>1. s.do = "loop"
        BY <1>2, <1>4, <2>4 DEF Lit, OnlyLoopsLight
      <4> QED BY <1>1, <1>4, <2>4, <4>1 DEF Lit, ReportKept
    <3>2. SUFFICES ASSUME NEW k \in Kits, k < amount, handle[k] \in Pods, NEW lamp \in {"leds", "strobe"},
                          lamp \in lamps'[handle[k]]
                   PROVE  config[k] \in Enabled[lamp] \/ Pending(todo'[Main], "disable", k, lamp)
      BY <1>1 DEF Obeyed, Connected
    <3>3. CASE lamp \in lamps[handle[k]]
      BY <2>2, <3>2, <3>3 DEF Obeyed, Connected
    <3>4. CASE lamp \notin lamps[handle[k]]
      <4>1. handle[k] = p0 /\ lamp = s.lamp
        BY <3>2, <3>4, Transferred
      <4>2. k = s.kit
        BY <1>2, <3>1, <3>2, <4>1 DEF Sound
      <4> QED BY <3>1, <4>1, <4>2
    <3> QED BY <3>3, <3>4
  <2> QED BY <2>3, <2>4
<1> QED BY <1>2, <1>3, <1>4

LEMMA ObeyedStep ==
  ASSUME Watchers = {}
  PROVE  Typed /\ Sound /\ Lit /\ Obeyed /\ [Next]_vars => Obeyed'
<1> SUFFICES ASSUME Typed, Sound, Lit, Obeyed, [Next]_vars PROVE Obeyed'
  OBVIOUS
<1>1. Threads = {Main} /\ todo \in [Threads -> Seq(Steps)] /\ Main \in Threads
  BY DEF Threads, Typed, Tasks
<1>2. ASSUME todo[Main] # <<>>, Current(Main).do # "disable", todo'[Main] = Tail(todo[Main]),
             config' = config, lamps' = lamps,
             \A k \in Kits : k < amount' /\ handle'[k] \in Pods => k < amount /\ handle'[k] = handle[k]
      PROVE  Obeyed'
  <2>1. \A k, lamp : Pending(todo[Main], "disable", k, lamp) => Pending(todo'[Main], "disable", k, lamp)
    BY <1>1, <1>2, PendingInTail DEF SwitchesOff, Current
  <2> QED BY <1>2, <2>1, ObeyedKeeps
<1>3. ASSUME todo[Main] = <<>>, UNCHANGED <<lamps, handle, config, amount>> PROVE Obeyed'
  BY <1>3, NothingPending, ObeyedKeeps
<1>4. CASE SkipReport(Main)
  <2> DEFINE s == Current(Main)
  <2>1. /\ todo[Main] # <<>> /\ s.do \in Reports /\ ~Sends(s) /\ todo'[Main] = Tail(todo[Main])
        /\ UNCHANGED <<lamps, handle, config, amount>> /\ s = Head(todo[Main])
    BY <1>1, <1>4 DEF SkipReport, kitVars, podVars, Done, Current
  <2>2. ASSUME NEW k \in Kits, NEW lamp \in {"leds", "strobe"}, handle[k] \in Pods,
               Pending(todo[Main], "disable", k, lamp)
        PROVE  config[k] \in Enabled[lamp] \/ Pending(todo'[Main], "disable", k, lamp)
    <3>1. CASE ~SwitchesOff(s, "disable", k, lamp)
      BY <1>1, <2>1, <2>2, <3>1, PendingInTail
    <3>2. CASE SwitchesOff(s, "disable", k, lamp)
      <4>1. s.do = "disable" /\ s.kit = k /\ s.lamp = lamp
        BY <3>2 DEF SwitchesOff
      <4>2. Number(k) \in Enabled[lamp]
        BY <2>1, <2>2, <4>1, KitsAssumption DEF Sends, Limits
      <4>3. 0 \notin Enabled[lamp]
        BY KitsAssumption DEF Lamps
      <4> QED BY <4>2, <4>3 DEF Number
    <3> QED BY <3>1, <3>2
  <2> QED BY <2>1, <2>2, ObeyedKeeps
<1>5. CASE FillReport(Main)
  <2>1. UNCHANGED <<todo, lamps, handle, config, amount>>
    BY <1>5 DEF FillReport, kitVars, podVars
  <2> QED BY <2>1 DEF Obeyed, Connected
<1>6. CASE TransferReport(Main)
  BY <1>6, ObeyedTransfers
<1>7. CASE Unlock(Main) \/ Settle
  BY <1>1, <1>2, <1>7 DEF Unlock, Settle, kitVars, podVars, Done
<1>8. CASE CloseKit
  <2>1. \A k \in Kits : handle'[k] \in {handle[k], None}
    BY <1>8 DEF CloseKit, Typed, Table
  <2>2. None \notin Pods
    BY KitsAssumption
  <2> QED BY <1>1, <1>2, <1>8, <2>1, <2>2 DEF CloseKit, podVars, Done
<1>9. CASE ExitContext
  <2>1. \A k \in Kits : handle'[k] \notin Pods
    BY <1>9, KitsAssumption DEF ExitContext
  <2> QED BY <2>1 DEF Obeyed, Connected
<1>10. CASE CountTotal
  <2>1. PICK s \in Seq(Steps) : todo'[Main] = s \o Tail(todo[Main])
    <3>1. LimitSteps("totalLimit", TotalMax, totalTime') \in Seq(Steps) /\ <<>> \in Seq(Steps)
      BY LimitStepsTyped DEF Limits
    <3> QED BY <1>1, <1>10, <3>1 DEF CountTotal
  <2>2. /\ todo[Main] # <<>> /\ Current(Main).do = "total"
        /\ UNCHANGED <<lamps, handle, config, amount>>
    BY <1>10 DEF CountTotal, kitVars, podVars
  <2>3. todo[Main] \in Seq(Steps) /\ Tail(todo[Main]) \in Seq(Steps)
    BY <1>1, <2>2
  <2>4. ASSUME NEW k, NEW lamp, Pending(todo[Main], "disable", k, lamp)
        PROVE  Pending(todo'[Main], "disable", k, lamp)
    <3>1. ~SwitchesOff(Head(todo[Main]), "disable", k, lamp)
      BY <2>2 DEF SwitchesOff, Current
    <3>2. Pending(Tail(todo[Main]), "disable", k, lamp)
      BY <2>2, <2>3, <2>4, <3>1, PendingInTail
    <3> QED BY <2>1, <2>3, <3>2, PendingJoined
  <2> QED BY <2>2, <2>4, ObeyedKeeps
<1>11. CASE TimeUpdate \/ PollNothing \/ Restart \/ RestartSender \/ CountNoData \/ PressNothing
  BY <1>3, <1>11 DEF TimeUpdate, PollNothing, Restart, RestartSender, CountNoData, PressNothing, MainAt,
                     kitVars, podVars
<1>12. ASSUME NEW command \in Commands, PollCommand(command) PROVE Obeyed'
  BY <1>3, <1>12 DEF PollCommand, MainAt, kitVars, podVars
<1>13. ASSUME NEW k \in Kits, PressXbox(k) PROVE Obeyed'
  <2>1. PICK c : /\ todo'[Main] = SetConfigSteps(k, c) /\ todo[Main] = <<>>
                 /\ config' = [config EXCEPT ![k] = c] /\ UNCHANGED <<lamps, handle, amount>>
    BY <1>1, <1>13 DEF PressXbox, MainAt
  <2>2. \A lamp \in {"leds", "strobe"} : Pending(todo'[Main], "disable", k, lamp)
    BY <2>1, ConfigPends
  <2>3. \A j \in Kits : j # k => config'[j] = config[j]
    BY <2>1 DEF Typed, Table
  <2>4. \A j, lamp : ~Pending(todo[Main], "disable", j, lamp)
    BY <2>1, NothingPending
  <2> QED BY <2>1, <2>2, <2>3, <2>4 DEF Obeyed, Connected
<1>14. ASSUME NEW opened \in SUBSET plugged, NEW order \in SetToSeqs(opened),
              NEW bad \in SUBSET opened, NEW n \in 0..MaxKits, Connect(order, bad, n)
       PROVE  Obeyed'
  BY <1>14, LitConnects DEF Obeyed, Connected
<1>15. ASSUME NEW p \in Pods, Unplug(p) PROVE Obeyed'
  <2>1. \A k \in Kits : handle'[k] = IF handle[k] = p THEN Gone ELSE handle[k]
    BY <1>15 DEF Unplug
  <2>2. Gone \notin Pods
    BY KitsAssumption
  <2>3. \A q \in Pods : lamps'[q] \subseteq lamps[q]
    BY <1>15 DEF Unplug, Typed, World
  <2>4. UNCHANGED <<todo, config, amount>>
    BY <1>15 DEF Unplug
  <2> QED BY <2>1, <2>2, <2>3, <2>4, ObeyedKeeps
<1>16. CASE UNCHANGED vars \/ \E p \in Pods : Plug(p)
  <2>1. UNCHANGED <<todo, lamps, handle, config, amount>>
    BY <1>16 DEF vars, Plug, kitVars, podVars
  <2> QED BY <2>1 DEF Obeyed, Connected
<1> QED BY <1>1, <1>4, <1>5, <1>6, <1>7, <1>8, <1>9, <1>10, <1>11, <1>12, <1>13, <1>14, <1>15, <1>16
        DEF Next

\* Without button threads LEDs and strobe burn only where the configuration of their kit
\* enables them, through any sequence of Xbox buttons, restarts and commands
\* (lights.ini:1-6, 20-27).
THEOREM ConfigIsObeyed == Watchers = {} => (Spec => []ConfigObeyed)
<1>1. Init => Typed /\ Sound /\ Lit /\ Obeyed
  <2>1. Init => Obeyed
    BY Numbers DEF Init, Obeyed, Connected, Kits
  <2> QED BY <2>1, TypesStart, SoundStart, LitStart DEF Typed
<1>2. ASSUME Watchers = {}
      PROVE  Typed /\ Sound /\ Lit /\ Obeyed /\ [Next]_vars => (Typed /\ Sound /\ Lit /\ Obeyed)'
  BY <1>2, TypedStep, SoundStep, LitStep, ObeyedStep
<1>3. Obeyed => ConfigObeyed
  BY NothingPending DEF Obeyed, ConfigObeyed
<1>4. ASSUME Watchers = {} PROVE Spec => []ConfigObeyed
  BY <1>1, <1>2, <1>3, <1>4, PTL DEF Spec
<1> QED BY <1>4
------------------------------------------------------------------------------
(* The fog.                                                                 *)

Limit(k) == InstanceMax[Number(k)]

\* The kits FogLimited is about.
Limited == {k \in Connected : Number(k) \in Enabled["fog"] /\ Limit(k) \in 1..SongGap}

FogTime(k) == fogFor[handle[k]]

\* Steps of a time update.
Timed == Limits \cup {"total", "settle"}

\* Is a step still to come that switches the fog of k off: of a command, or of the limit?
OffSent(k) == Pending(todo[Main], "loop", k, "fog")
LimitSent(k) ==
  at = "poll" /\ Pending(todo[Main], "instanceLimit", k, "fog") /\ instanceTime >= Limit(k)

\* 1 from the count of a tick without data to the next time update.
Ticked == IF at \in {"poll", "nodata", "connect"} THEN 0 ELSE 1

\* The fog of k has its time before it: since it began the instance was counted or, after what
\* seemed a change of song set that to 0, the ticks without data were and, after these began
\* anew, the instance again.
InTime(k) ==
  \/ FogTime(k) = 0
  \/ /\ instanceTime < Limit(k)
     /\ \/ FogTime(k) <= instanceTime + 1
        \/ FogTime(k) + Ticked <= noData
        \/ FogTime(k) <= NoDataLimit + instanceTime /\ noData <= instanceTime + Ticked

TimesAgree ==
  /\ instanceTime >= 0
  /\ justOff => instanceTime = 0
  /\ \A p \in Pods : "fog" \notin lamps[p] => fogFor[p] = 0

\* Time updates are of one piece, and forget at their end that the fog just went off.
SettlesLast ==
  /\ \A i \in 1..Len(todo[Main]) : todo[Main][i].do \in Timed <=> at = "poll"
  /\ at = "poll" =>
       /\ \A i \in 1..Len(todo[Main]) : todo[Main][i].do = "settle" <=> i = Len(todo[Main])
       /\ justOff => todo[Main] # <<>>

\* Fog that goes off goes off everywhere.
OffForAll ==
  /\ (\E k \in Kits : OffSent(k)) => \A k \in Limited : OffSent(k) \/ FogTime(k) = 0
  /\ justOff /\ at # "poll" => \A k \in Limited : OffSent(k) \/ FogTime(k) = 0

FogEnds ==
  \A k \in Limited :
    InTime(k) \/ ((OffSent(k) \/ LimitSent(k)) /\ FogTime(k) <= NoDataLimit + Limit(k))

FogInv == TimesAgree /\ SettlesLast /\ OffForAll /\ FogEnds

\* No step of a time update; and a loop that switches fog off does so for every kit.
Ordinary(s) ==
  /\ \A i \in 1..Len(s) : s[i].do \notin Timed
  /\ \A j, k \in Kits : Pending(s, "loop", j, "fog") => Pending(s, "loop", k, "fog")

LEMMA OrdinaryJoined ==
  ASSUME NEW s \in Seq(Steps), NEW u \in Seq(Steps), Ordinary(s), Ordinary(u)
  PROVE  Ordinary(s \o u)
<1> DEFINE w == s \o u
<1>1. /\ Len(s) \in Nat /\ Len(u) \in Nat /\ Len(w) = Len(s) + Len(u)
      /\ \A i \in 1..Len(w) : w[i] = IF i <= Len(s) THEN s[i] ELSE u[i - Len(s)]
  BY ConcatProperties
<1>2. \A k : Pending(w, "loop", k, "fog") <=> Pending(s, "loop", k, "fog") \/ Pending(u, "loop", k, "fog")
  BY PendingJoined
<1> HIDE DEF w
<1>3. ASSUME NEW i \in 1..Len(w)
      PROVE  \/ i \in 1..Len(s) /\ w[i] = s[i]
             \/ i - Len(s) \in 1..Len(u) /\ w[i] = u[i - Len(s)]
  BY <1>1
<1>4. \A i \in 1..Len(w) : w[i].do \notin Timed
  BY <1>3 DEF Ordinary
<1> QED BY <1>2, <1>4 DEF Ordinary, w

LEMMA NoLoopIsOrdinary ==
  ASSUME NEW s, \A i \in 1..Len(s) : s[i].do \in {"disable", "set", "close", "exit", "unlock"}
  PROVE  Ordinary(s)
<1>1. \A k : ~Pending(s, "loop", k, "fog")
  BY DEF Pending, SwitchesOff
<1>2. \A i \in 1..Len(s) : s[i].do \notin Timed
  BY DEF Timed, Limits
<1> QED BY <1>1, <1>2 DEF Ordinary

LEMMA FewAreOrdinary == Ordinary(<<>>) /\ Ordinary(<<Just("unlock")>>)
BY NoLoopIsOrdinary DEF Just, Step

LEMMA LoopIsOrdinary ==
  ASSUME NEW lamp \in Lamps, NEW on \in BOOLEAN
  PROVE  Ordinary(Loop(lamp, on))
<1> DEFINE s == Loop(lamp, on)
<1>1. Len(s) = MaxKits
  BY Numbers DEF Loop
<1>2. \A i \in 1..MaxKits : s[i] = Step("loop", i - 1, lamp, on)
  BY DEF Loop
<1> HIDE DEF s
<1>3. \A i \in 1..Len(s) : s[i].do \notin Timed
  BY <1>1, <1>2 DEF Step, Timed, Limits
<1>4. ASSUME NEW j \in Kits, NEW k \in Kits, Pending(s, "loop", j, "fog")
      PROVE  Pending(s, "loop", k, "fog")
  <2>1. lamp = "fog" /\ ~on
    BY <1>1, <1>2, <1>4 DEF Pending, SwitchesOff, Step
  <2>2. k + 1 \in 1..Len(s) /\ (k + 1) - 1 = k
    BY <1>1, Numbers DEF Kits
  <2>3. s[k + 1] = Step("loop", k, lamp, on)
    BY <1>1, <1>2, <2>2
  <2> QED BY <2>1, <2>2, <2>3 DEF Pending, SwitchesOff, Step
<1> QED BY <1>3, <1>4 DEF Ordinary, s

LEMMA ThreeLoopsOrdinary ==
  ASSUME NEW a \in Lamps, NEW b \in Lamps, NEW c \in Lamps
  PROVE  Ordinary(Loop(a, FALSE) \o Loop(b, FALSE) \o Loop(c, FALSE))
<1>1. /\ Loop(a, FALSE) \in Seq(Steps) /\ Ordinary(Loop(a, FALSE))
      /\ Loop(b, FALSE) \in Seq(Steps) /\ Ordinary(Loop(b, FALSE))
      /\ Loop(c, FALSE) \in Seq(Steps) /\ Ordinary(Loop(c, FALSE))
  BY LoopTyped, LoopIsOrdinary
<1>2. Loop(a, FALSE) \o Loop(b, FALSE) \in Seq(Steps) /\ Ordinary(Loop(a, FALSE) \o Loop(b, FALSE))
  BY <1>1, ConcatProperties, OrdinaryJoined
<1> QED BY <1>1, <1>2, OrdinaryJoined

LEMMA CallsAreOrdinary == \A command : Ordinary(Calls(command) \o <<Just("unlock")>>)
<1>1. TAKE command
<1>2. \A lamp \in {"leds", "strobe", "fog"}, on \in {TRUE, FALSE} : Ordinary(Loop(lamp, on))
  BY LoopIsOrdinary DEF Lamps
<1>3. Ordinary(Calls(command))
  <2>1. CASE command \in {"SK_LED_RED", "SK_STROBE_SPEED_1", "SK_STROBE_OFF", "SK_FOG_ON",
                         "SK_FOG_OFF"}
    BY <1>2, <2>1 DEF Calls
  <2>2. CASE command = "SK_ALL_OFF"
    <3>1. Ordinary(Loop("leds", FALSE) \o Loop("strobe", FALSE) \o Loop("fog", FALSE))
      BY ThreeLoopsOrdinary, Zenon DEF Lamps
    <3> QED BY <2>2, <3>1 DEF Calls
  <2>3. CASE command \notin {"SK_LED_RED", "SK_STROBE_SPEED_1", "SK_STROBE_OFF", "SK_FOG_ON",
                            "SK_FOG_OFF", "SK_ALL_OFF"}
    <3>1. Calls(command) = <<>>
      BY <2>3 DEF Calls
    <3> QED BY <3>1, FewAreOrdinary
  <2> QED BY <2>1, <2>2, <2>3
<1>4. Calls(command) \in Seq(Steps) /\ <<Just("unlock")>> \in Seq(Steps)
  BY CallsTyped, JustTyped
<1> QED BY <1>3, <1>4, FewAreOrdinary, OrdinaryJoined

LEMMA EndIsOrdinary ==
  ASSUME amount \in 0..MaxKits
  PROVE  EndSteps \in Seq(Steps) /\ Ordinary(EndSteps)
<1> DEFINE s == EndSteps
<1>1. /\ s \in Seq(Steps) /\ Len(s) = 4 * amount + 1 /\ s[4 * amount + 1] = Just("exit")
      /\ amount \in Nat
  BY EndStepsTyped, Numbers
<1>2. ASSUME NEW i \in 1..(4 * amount) PROVE s[i].do \in {"set", "close"}
  <2>1. PICK k \in Kits : k < amount /\ i \in {4 * k + 1, 4 * k + 2, 4 * k + 3, 4 * k + 4}
    BY EndStepsAre, Zenon
  <2>2. /\ s[4 * k + 1] = Step("set", k, "fog", FALSE)
        /\ s[4 * k + 2] = Step("set", k, "strobe", FALSE)
        /\ s[4 * k + 3] = Step("set", k, "leds", FALSE)
        /\ s[4 * k + 4] = Step("close", k, "none", FALSE)
    BY <2>1, EndStepsAre, Zenon
  <2> HIDE DEF s
  <2>3. i = 4 * k + 1 \/ i = 4 * k + 2 \/ i = 4 * k + 3 \/ i = 4 * k + 4
    BY <2>1
  <2> QED BY <2>2, <2>3 DEF Step
<1> HIDE DEF s
<1>3. \A i \in 1..Len(s) : s[i].do \in {"disable", "set", "close", "exit", "unlock"}
  <2>1. s[4 * amount + 1].do = "exit"
    BY <1>1 DEF Just, Step
  <2> QED BY <1>1, <1>2, <2>1
<1> QED BY <1>1, <1>3, NoLoopIsOrdinary DEF s

LEMMA ConfigsAreOrdinary ==
  ASSUME NEW k \in Kits, NEW c
  PROVE  Ordinary(SetConfigSteps(k, c))
BY ConfigsArePlain, NoLoopIsOrdinary

LEMMA FogTyped ==
  ASSUME Typed
  PROVE  /\ NoDataLimit \in Nat /\ SongGap \in Nat /\ TimeCap \in Nat /\ instanceTime \in Int /\ noData \in Nat
         /\ noData <= NoDataLimit /\ Ticked \in {0, 1}
         /\ \A k \in Limited : /\ k \in Kits /\ FogTime(k) \in Nat /\ Limit(k) \in Nat
                               /\ 1 <= Limit(k) /\ Limit(k) <= SongGap /\ Limit(k) <= TimeCap
<1>1. NoDataLimit \in Nat /\ SongGap \in Nat /\ TimeCap \in Nat /\ FogCap \in Nat
  BY KitsAssumption
<1>2. instanceTime \in Int /\ noData \in Nat /\ noData <= NoDataLimit /\ Ticked \in {0, 1}
  BY <1>1 DEF Typed, Clock, Ticked
<1>3. ASSUME NEW k \in Limited
      PROVE  /\ k \in Kits /\ FogTime(k) \in Nat /\ Limit(k) \in Nat
             /\ 1 <= Limit(k) /\ Limit(k) <= SongGap /\ Limit(k) <= TimeCap
  <2>1. k \in Kits /\ handle[k] \in Pods /\ Limit(k) \in 1..SongGap
    BY <1>3 DEF Limited, Connected
  <2>2. FogTime(k) \in Nat
    BY <1>1, <2>1 DEF FogTime, Typed, World
  <2>3. Number(k) \in Configs
    BY <2>1, KitsAssumption DEF Number, Typed, Table, Configs
  <2>4. Limit(k) <= TimeCap
    BY <2>3, KitsAssumption DEF Limit
  <2> QED BY <1>1, <2>1, <2>2, <2>4
<1> QED BY <1>1, <1>2, <1>3

LEMMA FogStart == FogHypothesis /\ Init => FogInv
<1> SUFFICES ASSUME FogHypothesis, Init PROVE FogInv
  OBVIOUS
<1>1. todo[Main] = <<>> /\ at = "start" /\ ~justOff /\ instanceTime \in Garbage
  BY DEF Init, Threads
<1>2. Limited = {}
  BY Numbers DEF Init, Limited, Connected, Kits
<1>3. TimesAgree
  BY <1>1 DEF Init, TimesAgree, FogHypothesis
<1>4. SettlesLast
  BY <1>1 DEF SettlesLast
<1>5. OffForAll /\ FogEnds
  BY <1>2 DEF OffForAll, FogEnds
<1> QED BY <1>3, <1>4, <1>5 DEF FogInv

\* The bound itself.
LEMMA FogBound ==
  ASSUME Typed, FogEnds, NEW k \in Limited
  PROVE  FogTime(k) <= NoDataLimit + Limit(k)
BY FogTyped DEF FogEnds, InTime

\* No fog gets longer, and no kit comes under a limit with fog on it.
Shrinks ==
  \A k \in Limited' : FogTime(k)' = 0 \/ (k \in Limited /\ Limit(k)' = Limit(k) /\ FogTime(k)' = FogTime(k))

DarkIsZero == \A p \in Pods : "fog" \notin lamps[p] => fogFor[p] = 0

\* Main's steps and the clock stay.
LEMMA FogStays ==
  ASSUME FogInv, UNCHANGED <<at, todo, instanceTime, justOff, noData>>, Shrinks, DarkIsZero'
  PROVE  FogInv'
<1>1. TimesAgree' /\ SettlesLast'
  BY DEF FogInv, TimesAgree, SettlesLast, DarkIsZero
<1>2. \A k : OffSent(k)' = OffSent(k) /\ Ticked' = Ticked
  BY DEF OffSent, Ticked
<1>3. OffForAll'
  BY <1>2 DEF FogInv, OffForAll, Shrinks
<1>4. ASSUME NEW k \in Limited'
      PROVE  (InTime(k) \/ ((OffSent(k) \/ LimitSent(k)) /\ FogTime(k) <= NoDataLimit + Limit(k)))'
  <2>1. CASE FogTime(k)' = 0
    BY <2>1 DEF InTime
  <2>2. CASE k \in Limited /\ Limit(k)' = Limit(k) /\ FogTime(k)' = FogTime(k)
    <3>1. InTime(k)' = InTime(k) /\ LimitSent(k)' = LimitSent(k)
      BY <1>2, <2>2 DEF InTime, LimitSent
    <3> QED BY <1>2, <2>2, <3>1 DEF FogInv, FogEnds
  <2> QED BY <1>4, <2>1, <2>2 DEF Shrinks
<1> QED BY <1>1, <1>3, <1>4 DEF FogInv, FogEnds

\* Main at rest.
LEMMA FogAtRest ==
  ASSUME FogInv, todo[Main] = <<>>
  PROVE  \A k \in Limited : InTime(k) /\ (justOff => FogTime(k) = 0)
<1>1. \A k : ~OffSent(k) /\ ~LimitSent(k)
  BY NothingPending DEF OffSent, LimitSent
<1>2. \A k \in Limited : InTime(k)
  BY <1>1 DEF FogInv, FogEnds
<1>3. at = "poll" => ~justOff
  BY DEF FogInv, SettlesLast
<1> QED BY <1>1, <1>2, <1>3 DEF FogInv, OffForAll

\* Main at rest gets the steps of a call, or goes on.
LEMMA FogGets ==
  ASSUME FogInv, todo[Main] = <<>>, at' # "poll", Ordinary(todo'[Main]),
         UNCHANGED <<instanceTime, justOff>>, Shrinks, DarkIsZero', \A k \in Limited' : InTime(k)'
  PROVE  FogInv'
<1>1. TimesAgree' /\ SettlesLast'
  BY DEF FogInv, TimesAgree, SettlesLast, DarkIsZero, Ordinary
<1>2. \A j, k \in Kits : OffSent(j)' => OffSent(k)'
  BY DEF Ordinary, OffSent
<1>3. justOff => \A k \in Limited' : FogTime(k)' = 0
  BY FogAtRest DEF Shrinks
<1>4. \A k \in Limited' : k \in Kits
  BY DEF Limited, Connected
<1>5. OffForAll'
  BY <1>2, <1>3, <1>4 DEF OffForAll
<1> QED BY <1>1, <1>5 DEF FogInv, FogEnds

\* Main takes a step that is not the settling of a time update.
LEMMA FogTakes ==
  ASSUME Typed, FogInv, todo[Main] # <<>>, Current(Main).do \notin {"total", "settle"},
         todo'[Main] = Tail(todo[Main]), at' = at, noData' = noData, NoteFog(Current(Main)),
         Shrinks, DarkIsZero',
         \A k \in Limited' :
           SwitchesOff(Current(Main), "loop", k, "fog") \/
           (SwitchesOff(Current(Main), "instanceLimit", k, "fog") /\ instanceTime >= Limit(k))
             => FogTime(k)' = 0
  PROVE  FogInv'
<1> DEFINE s == Current(Main)
           u == todo[Main]
<1>1. /\ u \in Seq(Steps) /\ Head(u) = s /\ s = u[1] /\ Len(u) \in Nat /\ Len(u) >= 1
      /\ Len(Tail(u)) = Len(u) - 1 /\ \A i \in 1..Len(Tail(u)) : Tail(u)[i] = u[i + 1]
      /\ s.kit \in Kits /\ s.on \in BOOLEAN
  BY CurrentTyped, HeadTailProperties DEF Typed, Tasks, Threads, Current
<1>2. \A do, k : /\ Pending(u, do, k, "fog") /\ ~SwitchesOff(s, do, k, "fog") => Pending(todo'[Main], do, k, "fog")
                 /\ Pending(todo'[Main], do, k, "fog") => Pending(u, do, k, "fog")
  BY <1>1, PendingInTail
<1>3. s.do = "loop" => at # "poll"
  BY <1>1 DEF FogInv, SettlesLast, Timed, Limits
<1>4. \/ UNCHANGED <<instanceTime, justOff>>
      \/ /\ s.do = "loop" /\ s.lamp = "fog" /\ justOff'
         /\ instanceTime' = IF fogOn /\ ~s.on THEN 0 ELSE instanceTime
         /\ justOff \/ (fogOn /\ ~s.on)
      \/ s.do = "loop" /\ ~justOff /\ ~justOff' /\ instanceTime' = instanceTime
  BY DEF NoteFog, Typed, Clock
<1>5. fogOn /\ ~s.on /\ s.do = "loop" /\ s.lamp = "fog" => OffSent(s.kit)
  BY <1>1 DEF OffSent, Pending, SwitchesOff
<1>6. ASSUME NEW k \in Limited', FogTime(k)' # 0
      PROVE  /\ k \in Limited /\ Limit(k)' = Limit(k) /\ FogTime(k)' = FogTime(k)
             /\ OffSent(k) => OffSent(k)'
             /\ ~SwitchesOff(s, "loop", k, "fog")
             /\ ~(SwitchesOff(s, "instanceLimit", k, "fog") /\ instanceTime >= Limit(k))
  BY <1>2, <1>6 DEF Shrinks, OffSent
<1>7. TimesAgree'
  BY <1>4 DEF FogInv, TimesAgree, DarkIsZero
<1>8. SettlesLast'
  <2>1. \A i \in 1..Len(todo'[Main]) : i + 1 \in 1..Len(u) /\ todo'[Main][i] = u[i + 1]
    BY <1>1
  <2>2. Len(todo'[Main]) = Len(u) - 1
    BY <1>1
  <2>3. ASSUME at = "poll" PROVE todo'[Main] # <<>>
    <3>1. u[1].do = "settle" <=> 1 = Len(u)
      BY <1>1, <2>3 DEF FogInv, SettlesLast
    <3>2. u[1] = Current(Main)
      BY <1>1
    <3>3. Len(u) # 1
      BY <3>1, <3>2
    <3>4. Len(todo'[Main]) # 0
      BY <1>1, <2>2, <3>3
    <3>5. Len(<<>>) = 0
      OBVIOUS
    <3> QED BY <3>4, <3>5, Zenon
  <2>4. \A i \in 1..Len(todo'[Main]) : todo'[Main][i].do \in Timed <=> at' = "poll"
    BY <2>1 DEF FogInv, SettlesLast
  <2>5. at = "poll" => \A i \in 1..Len(todo'[Main]) : todo'[Main][i].do = "settle" <=> i = Len(todo'[Main])
    BY <1>1, <2>1, <2>2 DEF FogInv, SettlesLast
  <2> QED BY <2>3, <2>4, <2>5 DEF SettlesLast
<1>9. OffForAll'
  <2>1. ASSUME NEW j \in Kits, OffSent(j)', NEW k \in Limited' PROVE OffSent(k)' \/ FogTime(k)' = 0
    <3>1. OffSent(j)
      BY <1>2, <2>1 DEF OffSent
    <3> QED BY <1>6, <2>1, <3>1 DEF FogInv, OffForAll
  <2>2. ASSUME justOff', at' # "poll", NEW k \in Limited' PROVE OffSent(k)' \/ FogTime(k)' = 0
    <3>1. justOff \/ OffSent(s.kit)
      BY <1>4, <1>5, <2>2
    <3> QED BY <1>1, <1>6, <2>2, <3>1 DEF FogInv, OffForAll
  <2> QED BY <2>1, <2>2 DEF OffForAll
<1>10. ASSUME NEW k \in Limited'
       PROVE  (InTime(k) \/ ((OffSent(k) \/ LimitSent(k)) /\ FogTime(k) <= NoDataLimit + Limit(k)))'
  <2>1. CASE FogTime(k)' = 0
    BY <2>1 DEF InTime
  <2>2. CASE FogTime(k)' # 0
    <3>1. FogTime(k)' <= NoDataLimit + Limit(k)'
      BY <1>6, <1>10, <2>2, FogBound DEF FogInv
    <3>2. CASE OffSent(k)
      BY <1>6, <1>10, <2>2, <3>1, <3>2
    <3>3. CASE ~OffSent(k)
      <4>1. ~OffSent(s.kit)
        BY <1>1, <1>6, <1>10, <2>2, <3>3 DEF FogInv, OffForAll
      <4>2. instanceTime' = instanceTime
        BY <1>4, <1>5, <4>1
      <4>3. CASE InTime(k)
        <5>1. Ticked' = Ticked
          BY DEF Ticked
        <5>2. InTime(k)'
          BY <1>6, <1>10, <2>2, <4>2, <4>3, <5>1 DEF InTime
        <5> QED BY <5>2
      <4>4. CASE LimitSent(k)
        <5>1. LimitSent(k)'
          BY <1>2, <1>6, <1>10, <2>2, <4>2, <4>4 DEF LimitSent
        <5> QED BY <3>1, <5>1
      <4> QED BY <1>6, <1>10, <2>2, <3>3, <4>3, <4>4 DEF FogInv, FogEnds
    <3> QED BY <3>2, <3>3
  <2> QED BY <2>1, <2>2
<1> QED BY <1>7, <1>8, <1>9, <1>10 DEF FogInv, FogEnds

\* The transfer of a report that switches a limited kit's fog off.
LEMMA FogTransfers ==
  ASSUME Typed, Lit, FogInv, TransferReport(Main)
  PROVE  FogInv'
<1> DEFINE s == Current(Main)
<1>1. /\ todo[Main] # <<>> /\ s.do \in Reports /\ Done(Main)
      /\ handle' = handle /\ amount' = amount /\ config' = config
      /\ at' = at /\ noData' = noData /\ NoteFog(s)
      /\ fogFor' = [q \in Pods |-> IF "fog" \in lamps'[q] THEN fogFor[q] ELSE 0]
  BY Transferred DEF TransferReport
<1>2. todo'[Main] = Tail(todo[Main]) /\ s.do \notin {"total", "settle"}
  BY <1>1 DEF Typed, Tasks, Threads, Done, Reports, Limits
<1>3. Shrinks /\ DarkIsZero'
  BY <1>1 DEF Shrinks, DarkIsZero, Limited, Connected, FogTime, Limit, Number
<1>4. ASSUME NEW k \in Limited', \E do : SwitchesOff(s, do, k, "fog") PROVE FogTime(k)' = 0
  <2>1. s.kit = k /\ s.lamp = "fog" /\ ~s.on /\ handle[k] \in Pods
    BY <1>1, <1>4 DEF SwitchesOff, Limited, Connected
  <2>2. "fog" \notin lamps'[handle[k]]
    BY <2>1, Transferred
  <2> QED BY <1>1, <2>1, <2>2 DEF FogTime
<1> QED BY <1>1, <1>2, <1>3, <1>4, FogTakes

\* A report that is not sent was for no kit under a limit, or the limit is not reached.
LEMMA FogSkips ==
  ASSUME Typed, FogInv, SkipReport(Main)
  PROVE  FogInv'
<1> DEFINE s == Current(Main)
<1>1. /\ todo[Main] # <<>> /\ s.do \in Reports /\ Done(Main) /\ ~Sends(s)
      /\ UNCHANGED <<at, noData, handle, amount, config, lamps, fogFor>> /\ NoteFog(s)
  BY DEF SkipReport, kitVars, podVars
<1>2. todo'[Main] = Tail(todo[Main]) /\ s.do \notin {"total", "settle"}
  BY <1>1 DEF Typed, Tasks, Threads, Done, Reports, Limits
<1>3. Shrinks /\ DarkIsZero' /\ Limited' = Limited
  BY <1>1 DEF Shrinks, DarkIsZero, Limited, Connected, FogTime, Limit, Number, FogInv, TimesAgree
<1>4. ASSUME NEW k \in Limited, SwitchesOff(s, "loop", k, "fog")
      PROVE  FALSE
  <2>1. /\ s.do = "loop" /\ s.kit = k /\ s.lamp = "fog" /\ k < amount /\ handle[k] \in Pods
        /\ Number(k) \in Enabled["fog"]
    BY <1>4 DEF SwitchesOff, Limited, Connected
  <2>2. Permits(k, "fog", s.on)
    <3>1. 0 \notin Enabled["fog"]
      BY KitsAssumption DEF Lamps
    <3> QED BY <2>1, <3>1 DEF Permits, Number
  <2> QED BY <1>1, <2>1, <2>2, KitsAssumption DEF Sends, Limits
<1>5. ASSUME NEW k \in Limited, SwitchesOff(s, "instanceLimit", k, "fog"), instanceTime >= Limit(k)
      PROVE  FALSE
  <2>1. /\ s.do = "instanceLimit" /\ s.kit = k /\ s.lamp = "fog" /\ handle[k] \in Pods
        /\ Number(k) \in Enabled["fog"]
    BY <1>5 DEF SwitchesOff, Limited, Connected
  <2>2. Permits(k, "fog", s.on)
    <3>1. 0 \notin Enabled["fog"]
      BY KitsAssumption DEF Lamps
    <3> QED BY <2>1, <3>1 DEF Permits, Number
  <2>3. Reached(InstanceMax[Number(k)], instanceTime)
    <3>1. Limit(k) # 0
      BY FogTyped
    <3> QED BY <1>5, <3>1 DEF Reached, Limit
  <2> QED BY <1>1, <2>1, <2>2, <2>3, KitsAssumption DEF Sends, Limits
<1> QED BY <1>1, <1>2, <1>3, <1>4, <1>5, FogTakes

\* Main takes another step, and no pod is touched.
LEMMA FogLeaves ==
  ASSUME Typed, FogInv, todo[Main] # <<>>, Current(Main).do \in {"unlock", "close", "exit"}, Done(Main),
         UNCHANGED <<at, clockVars, config, lamps, fogFor>>,
         \A k \in Kits : k < amount' /\ handle'[k] \in Pods => k < amount /\ handle'[k] = handle[k]
  PROVE  FogInv'
<1>1. todo'[Main] = Tail(todo[Main]) /\ NoteFog(Current(Main))
  BY DEF Typed, Tasks, Threads, Done, NoteFog, clockVars
<1>2. Shrinks /\ DarkIsZero'
  BY DEF Shrinks, DarkIsZero, Limited, Connected, FogTime, Limit, Number, FogInv, TimesAgree
<1>3. \A do, k : do \in {"loop", "instanceLimit"} => ~SwitchesOff(Current(Main), do, k, "fog")
  BY DEF SwitchesOff
<1> QED BY <1>1, <1>2, <1>3, FogTakes DEF clockVars

\* The steps of a limit that is reached concern every kit.
LEMMA LimitStepsAre ==
  ASSUME NEW limit, NEW max, NEW time
  PROVE  /\ \A i \in 1..Len(LimitSteps(limit, max, time)) : LimitSteps(limit, max, time)[i].do = limit
         /\ \A j, k \in Kits : Reached(max[Number(j)], time) => Pending(LimitSteps(limit, max, time), limit, k, "fog")
<1> DEFINE s == [i \in 1..MaxKits |-> Step(limit, i - 1, "fog", FALSE)]
<1>1. Len(s) = MaxKits /\ \A i \in 1..MaxKits : s[i] = Step(limit, i - 1, "fog", FALSE)
  BY Numbers
<1>2. LimitSteps(limit, max, time) = IF \E k \in Kits : Reached(max[Number(k)], time) THEN s ELSE <<>>
  BY DEF LimitSteps
<1>3. Len(<<>>) = 0
  OBVIOUS
<1> HIDE DEF s
<1>4. \A i \in 1..Len(s) : s[i].do = limit
  BY <1>1 DEF Step
<1>5. ASSUME NEW k \in Kits PROVE Pending(s, limit, k, "fog")
  <2>1. k + 1 \in 1..Len(s) /\ (k + 1) - 1 = k
    BY <1>1, Numbers DEF Kits
  <2>2. s[k + 1] = Step(limit, k, "fog", FALSE)
    BY <1>1, <2>1
  <2> QED BY <2>1, <2>2 DEF Pending, SwitchesOff, Step
<1> QED BY <1>2, <1>3, <1>4, <1>5

LEMMA FogCountsTotal ==
  ASSUME Typed, FogInv, CountTotal
  PROVE  FogInv'
<1> DEFINE s == Current(Main)
           u == todo[Main]
           v == Tail(u)
<1>1. /\ u # <<>> /\ s.do = "total"
      /\ UNCHANGED <<at, handle, amount, config, lamps, fogFor, instanceTime, justOff, noData>>
  BY DEF CountTotal, kitVars, podVars
<1>2. /\ u \in Seq(Steps) /\ v \in Seq(Steps) /\ Head(u) = s /\ s = u[1] /\ Len(u) \in Nat /\ Len(u) >= 1
      /\ Len(v) = Len(u) - 1 /\ \A i \in 1..Len(v) : v[i] = u[i + 1]
  BY <1>1, CurrentTyped, HeadTailProperties DEF Typed, Tasks, Threads, Current
<1>3. PICK t \in Seq(Steps) : /\ todo'[Main] = t \o v
                              /\ \A i \in 1..Len(t) : t[i].do = "totalLimit"
  <2> DEFINE l == LimitSteps("totalLimit", TotalMax, totalTime')
  <2>1. l \in Seq(Steps) /\ <<>> \in Seq(Steps)
    BY LimitStepsTyped DEF Limits
  <2>2. (\A i \in 1..Len(l) : l[i].do = "totalLimit") /\ Len(<<>>) = 0
    BY LimitStepsAre
  <2>3. todo'[Main] = l \o v \/ todo'[Main] = <<>> \o v
    BY DEF CountTotal, Typed, Tasks, Threads
  <2> HIDE DEF l, v
  <2>4. CASE todo'[Main] = l \o v
    BY <2>1, <2>2, <2>4
  <2>5. CASE todo'[Main] = <<>> \o v
    <3>1. \A i \in 1..Len(<<>>) : FALSE
      BY <2>2
    <3>2. \A i \in 1..Len(<<>>) : <<>>[i].do = "totalLimit"
      BY <3>1, Zenon
    <3> QED BY <2>1, <2>5, <3>2, Zenon
  <2> QED BY <2>3, <2>4, <2>5
<1> DEFINE w == todo'[Main]
<1> HIDE DEF w, v, u
<1>4. /\ Len(t) \in Nat /\ Len(w) = Len(t) + Len(v)
      /\ \A i \in 1..Len(w) : w[i] = IF i <= Len(t) THEN t[i] ELSE v[i - Len(t)]
  <2>1. t \in Seq(Steps) /\ v \in Seq(Steps) /\ w = t \o v
    BY <1>2, <1>3 DEF w
  <2> QED BY <2>1, ConcatProperties
<1>5. \A k, do : do # "totalLimit" /\ do # "total" => (Pending(w, do, k, "fog") <=> Pending(u, do, k, "fog"))
  <2>1. \A k, do : do # "totalLimit" => ~Pending(t, do, k, "fog")
    BY <1>3 DEF Pending, SwitchesOff
  <2>2. \A k, do : do # "total" => ~SwitchesOff(Head(u), do, k, "fog")
    BY <1>1, <1>2 DEF SwitchesOff
  <2>3. \A k, do : Pending(w, do, k, "fog") <=> Pending(t, do, k, "fog") \/ Pending(v, do, k, "fog")
    BY <1>2, <1>3, PendingJoined DEF w
  <2>4. \A k, do : do # "total" => (Pending(v, do, k, "fog") <=> Pending(u, do, k, "fog"))
    BY <1>1, <1>2, <2>2, PendingInTail DEF v
  <2> QED BY <2>1, <2>3, <2>4
<1>6. at = "poll" /\ 1 # Len(u)
  BY <1>1, <1>2 DEF FogInv, SettlesLast, Timed, u
<1>7. SettlesLast'
  <2>1. ASSUME NEW i \in 1..Len(w)
        PROVE  /\ w[i].do \in Timed
               /\ w[i].do = "settle" <=> i = Len(w)
    <3>1. CASE i <= Len(t)
      <4>1. w[i].do = "totalLimit" /\ i # Len(w)
        BY <1>2, <1>3, <1>4, <1>6, <2>1, <3>1
      <4> QED BY <4>1 DEF Timed, Limits
    <3>2. CASE ~(i <= Len(t))
      <4>1. /\ i - Len(t) \in 1..Len(v) /\ w[i] = v[i - Len(t)] /\ i - Len(t) + 1 \in 1..Len(u)
            /\ i - Len(t) + 1 = Len(u) <=> i = Len(w)
        BY <1>2, <1>4, <2>1, <3>2
      <4>2. w[i] = u[i - Len(t) + 1]
        BY <1>2, <4>1
      <4> QED BY <1>6, <4>1, <4>2 DEF FogInv, SettlesLast, u
    <3> QED BY <3>1, <3>2
  <2>2. w # <<>>
    <3>1. Len(w) # 0
      BY <1>2, <1>4, <1>6
    <3>2. Len(<<>>) = 0
      OBVIOUS
    <3> QED BY <3>1, <3>2, Zenon
  <2> QED BY <1>1, <1>6, <2>1, <2>2 DEF SettlesLast, w
<1>8. TimesAgree'
  BY <1>1 DEF FogInv, TimesAgree
<1>9. Limited' = Limited
  BY <1>1 DEF Limited, Connected, Limit, Number
<1>10. ASSUME NEW k \in Kits
       PROVE  /\ OffSent(k)' <=> OffSent(k)
              /\ LimitSent(k)' <=> LimitSent(k)
              /\ InTime(k)' <=> InTime(k)
              /\ FogTime(k)' = FogTime(k) /\ Limit(k)' = Limit(k)
  <2>1. FogTime(k)' = FogTime(k) /\ Limit(k)' = Limit(k) /\ Ticked' = Ticked
    BY <1>1 DEF FogTime, Limit, Number, Ticked
  <2>2. InTime(k)' <=> InTime(k)
    BY <1>1, <2>1 DEF InTime
  <2>3. OffSent(k)' <=> OffSent(k)
    BY <1>5 DEF OffSent, w, u
  <2>4. LimitSent(k)' <=> LimitSent(k)
    BY <1>1, <1>5, <2>1 DEF LimitSent, w, u
  <2> QED BY <2>1, <2>2, <2>3, <2>4
<1>11. \A k \in Limited : k \in Kits
  BY DEF Limited, Connected
<1>12. OffForAll'
  BY <1>1, <1>9, <1>10, <1>11 DEF FogInv, OffForAll
<1>13. FogEnds'
  BY <1>9, <1>10, <1>11 DEF FogInv, FogEnds
<1> QED BY <1>7, <1>8, <1>12, <1>13 DEF FogInv

\* The end of a time update.  What looks like a change of song starts the instance anew only
\* where the count of ticks without data is past every limit.
LEMMA FogSettles ==
  ASSUME Typed, FogInv, Settle
  PROVE  FogInv'
<1> DEFINE u == todo[Main]
<1>1. /\ u # <<>> /\ Current(Main).do = "settle" /\ ~justOff' /\ todo'[Main] = Tail(u)
      /\ UNCHANGED <<at, handle, amount, config, lamps, fogFor, noData>>
      /\ instanceTime' = IF noData >= SongGap THEN 0 ELSE instanceTime
  BY DEF Settle, kitVars, podVars, Done, Typed, Tasks, Threads, Clock
<1>2. /\ u \in Seq(Steps) /\ Current(Main) = u[1] /\ Len(u) \in Nat /\ Len(u) >= 1 /\ Len(Tail(u)) = Len(u) - 1
  BY <1>1, CurrentTyped, HeadTailProperties DEF Typed, Tasks, Threads, Current
<1>3. at = "poll" /\ Len(u) = 1
  <2>1. u[1].do = "settle" /\ 1 \in 1..Len(u)
    BY <1>1, <1>2
  <2>2. at = "poll"
    BY <2>1 DEF FogInv, SettlesLast, Timed
  <2> QED BY <1>2, <2>1, <2>2 DEF FogInv, SettlesLast
<1>4. todo'[Main] = <<>>
  <2>1. Tail(u) \in Seq(Steps) /\ Len(Tail(u)) = 0
    BY <1>1, <1>2, <1>3
  <2> QED BY <1>1, <2>1, EmptySeq
<1>5. \A k : ~OffSent(k) /\ ~LimitSent(k)
  BY <1>1, <1>2, <1>3 DEF OffSent, LimitSent, Pending, SwitchesOff
<1>6. Limited' = Limited
  BY <1>1 DEF Limited, Connected, Limit, Number
<1>7. ASSUME NEW k \in Limited PROVE InTime(k)'
  <2>1. FogTime(k)' = FogTime(k) /\ Limit(k)' = Limit(k) /\ Ticked' = 0 /\ Ticked = 0
    BY <1>1, <1>3 DEF FogTime, Limit, Number, Ticked
  <2>2. InTime(k)
    BY <1>5, <1>7 DEF FogInv, FogEnds
  <2>3. CASE noData >= SongGap
    <3>1. FogTime(k) = 0 \/ FogTime(k) <= noData
      BY <1>7, <2>1, <2>2, <2>3, FogTyped DEF InTime
    <3>2. 0 < Limit(k)'
      BY <1>7, <2>1, FogTyped
    <3> QED BY <1>1, <1>7, <2>1, <2>3, <3>1, <3>2, FogTyped DEF InTime
  <2>4. CASE ~(noData >= SongGap)
    BY <1>1, <2>1, <2>2, <2>4 DEF InTime
  <2> QED BY <2>3, <2>4
<1>8. TimesAgree'
  BY <1>1 DEF FogInv, TimesAgree
<1>9. SettlesLast'
  <2>1. \A i \in 1..Len(<<>>) : FALSE
    OBVIOUS
  <2> QED BY <1>1, <1>4, <2>1 DEF SettlesLast
<1>10. OffForAll'
  BY <1>1, <1>4, NothingPending DEF OffForAll, OffSent
<1> QED BY <1>6, <1>7, <1>8, <1>9, <1>10 DEF FogInv, FogEnds

\* A tick: the fog is one older and, unless it just went off, so is the instance; a limit that is
\* reached is one every kit is told of.
LEMMA FogTimes ==
  ASSUME NoDataLimit >= 1, Typed, FogInv, TimeUpdate
  PROVE  FogInv'
<1> DEFINE l == IF justOff THEN <<>> ELSE LimitSteps("instanceLimit", InstanceMax, instanceTime')
           e == <<Just("total"), Just("settle")>>
           w == todo'[Main]
<1>1. /\ todo[Main] = <<>> /\ at = "time" /\ at' = "poll" /\ w = l \o e
      /\ UNCHANGED <<handle, amount, config, lamps, justOff, noData>>
      /\ instanceTime' = IF justOff THEN instanceTime ELSE Later(instanceTime, TimeCap)
      /\ \A p \in Pods : fogFor'[p] = IF "fog" \in lamps[p] THEN Later(fogFor[p], FogCap) ELSE 0
  BY DEF TimeUpdate, MainAt, kitVars, Typed, Tasks, Threads
<1>2. /\ l \in Seq(Steps) /\ \A i \in 1..Len(l) : l[i].do = "instanceLimit"
  <2>1. LimitSteps("instanceLimit", InstanceMax, instanceTime') \in Seq(Steps)
    BY LimitStepsTyped DEF Limits
  <2>2. \A i \in 1..Len(LimitSteps("instanceLimit", InstanceMax, instanceTime')) :
          LimitSteps("instanceLimit", InstanceMax, instanceTime')[i].do = "instanceLimit"
    BY LimitStepsAre
  <2>3. <<>> \in Seq(Steps) /\ \A i \in 1..Len(<<>>) : <<>>[i].do = "instanceLimit"
    OBVIOUS
  <2> QED BY <2>1, <2>2, <2>3
<1>3. e \in Seq(Steps) /\ Len(e) = 2 /\ e[1].do = "total" /\ e[2].do = "settle"
  BY JustTyped DEF Just, Step
<1>4. ~justOff => \A j, k \in Kits :
        Reached(InstanceMax[Number(j)], instanceTime') => Pending(l, "instanceLimit", k, "fog")
  BY LimitStepsAre
<1> HIDE DEF l, e, w
<1>5. /\ Len(l) \in Nat /\ Len(w) = Len(l) + 2
      /\ \A i \in 1..Len(w) : w[i] = IF i <= Len(l) THEN l[i] ELSE e[i - Len(l)]
  <2>1. Len(w) = Len(l) + Len(e) /\ \A i \in 1..Len(w) : w[i] = IF i <= Len(l) THEN l[i] ELSE e[i - Len(l)]
    <3>1. l \in Seq(Steps) /\ e \in Seq(Steps) /\ w = l \o e
      BY <1>1, <1>2, <1>3
    <3> QED BY <3>1, ConcatProperties
  <2>2. Len(l) \in Nat
    BY <1>2
  <2> QED BY <1>3, <2>1, <2>2
<1>6. ASSUME NEW i \in 1..Len(w)
      PROVE  /\ w[i].do \in Limits \cup {"total", "settle"}
             /\ w[i].do = "settle" <=> i = Len(w)
  <2>1. CASE i <= Len(l)
    <3>1. i \in 1..Len(l) /\ w[i] = l[i] /\ i # Len(w)
      BY <1>5, <2>1
    <3> QED BY <1>2, <3>1 DEF Limits
  <2>2. CASE ~(i <= Len(l))
    <3>1. i - Len(l) \in {1, 2} /\ w[i] = e[i - Len(l)] /\ (i - Len(l) = 2 <=> i = Len(w))
      BY <1>5, <2>2
    <3> QED BY <1>3, <3>1
  <2> QED BY <2>1, <2>2
<1>7. SettlesLast'
  <2>1. Len(w) # 0
    BY <1>5
  <2>2. Len(<<>>) = 0
    OBVIOUS
  <2>3. w # <<>>
    BY <2>1, <2>2, Zenon
  <2> QED BY <1>1, <1>6, <2>3 DEF SettlesLast, Timed, w
<1>8. \A k : ~OffSent(k)'
  <2>1. \A i \in 1..Len(w) : w[i].do # "loop"
    BY <1>6 DEF Limits
  <2> QED BY <2>1 DEF OffSent, Pending, SwitchesOff, w
<1>9. OffForAll'
  BY <1>1, <1>8 DEF OffForAll
<1>10. TimesAgree'
  <2>1. instanceTime' >= 0
    BY <1>1, FogTyped DEF Later, FogInv, TimesAgree
  <2>2. justOff' => instanceTime' = 0
    BY <1>1 DEF FogInv, TimesAgree
  <2> QED BY <1>1, <2>1, <2>2 DEF TimesAgree
<1>11. Limited' = Limited
  BY <1>1 DEF Limited, Connected, Limit, Number
<1>12. ASSUME NEW k \in Limited
       PROVE  (InTime(k) \/ ((OffSent(k) \/ LimitSent(k)) /\ FogTime(k) <= NoDataLimit + Limit(k)))'
  <2>1. /\ Limit(k)' = Limit(k) /\ Ticked' = 0 /\ Ticked = 1 /\ k \in Kits /\ handle[k] \in Pods
        /\ InTime(k) /\ (justOff => FogTime(k) = 0)
    BY <1>1, <1>12, FogAtRest DEF Limit, Number, Ticked, Limited, Connected
  <2>2. FogTime(k)' \in Nat /\ FogTime(k)' <= FogTime(k) + 1
    <3>1. fogFor[handle[k]] \in Nat /\ FogCap \in Nat
      BY <2>1, KitsAssumption DEF Typed, World
    <3> QED BY <1>1, <2>1, <3>1 DEF FogTime, Later
  <2>3. /\ NoDataLimit \in Nat /\ SongGap \in Nat /\ TimeCap \in Nat /\ instanceTime \in Int /\ noData \in Nat
        /\ noData <= NoDataLimit /\ FogTime(k) \in Nat /\ Limit(k) \in Nat /\ instanceTime >= 0
        /\ 1 <= Limit(k) /\ Limit(k) <= SongGap /\ Limit(k) <= TimeCap
    BY <1>12, FogTyped DEF FogInv, TimesAgree
  <2>4. CASE justOff
    <3>1. instanceTime' = 0 /\ FogTime(k)' <= 1
      BY <1>1, <2>1, <2>2, <2>3, <2>4 DEF FogInv, TimesAgree
    <3>2. InTime(k)'
      BY <2>1, <2>2, <2>3, <3>1 DEF InTime
    <3> QED BY <3>2
  <2>5. CASE ~justOff
    <3>1. instanceTime' = Later(instanceTime, TimeCap)
      BY <1>1, <2>5
    <3>2. CASE instanceTime' < Limit(k)
      <4>1. instanceTime' = instanceTime + 1
        BY <2>3, <3>1, <3>2 DEF Later
      <4>2. \/ FogTime(k)' <= instanceTime' + 1
            \/ FogTime(k)' + Ticked' <= noData'
            \/ FogTime(k)' <= NoDataLimit + instanceTime' /\ noData' <= instanceTime' + Ticked'
        BY <1>1, <2>1, <2>2, <2>3, <4>1 DEF InTime
      <4>3. InTime(k)'
        BY <2>1, <3>2, <4>2 DEF InTime
      <4> QED BY <4>3
    <3>3. CASE ~(instanceTime' < Limit(k))
      <4>1. instanceTime' >= Limit(k) /\ instanceTime' <= instanceTime + 1
        BY <2>3, <3>1, <3>3 DEF Later
      <4>2. FogTime(k)' <= NoDataLimit + Limit(k)
        BY <2>1, <2>2, <2>3, <4>1 DEF InTime
      <4>3. Pending(l, "instanceLimit", k, "fog")
        BY <1>4, <2>1, <2>3, <2>5, <4>1 DEF Reached, Limit
      <4>4. Pending(w, "instanceLimit", k, "fog")
        BY <1>1, <1>2, <1>3, <4>3, PendingJoined
      <4>5. LimitSent(k)'
        BY <1>1, <2>1, <4>1, <4>4 DEF LimitSent, w
      <4> QED BY <2>1, <4>2, <4>5
    <3> QED BY <3>2, <3>3
  <2> QED BY <2>4, <2>5
<1> QED BY <1>7, <1>9, <1>10, <1>11, <1>12 DEF FogInv, FogEnds

\* A scan finds no fog.
LEMMA FogConnects ==
  ASSUME Typed, Sound, Lit, FogInv, NEW order, NEW bad, NEW n \in 0..MaxKits, Connect(order, bad, n)
  PROVE  FogInv'
<1> DEFINE given == IF DefaultConfig = 0 THEN 1 ELSE DefaultConfig
           calls == [k \in Kits |-> SetConfigSteps(k, given)]
           count == IF DefaultConfig # 0 THEN MaxKits ELSE IF n = 1 THEN 1 ELSE 0
<1>1. /\ ~context /\ todo[Main] = <<>> /\ fogFor' = fogFor /\ at' \in {"start", "time", "nodata"}
      /\ UNCHANGED <<instanceTime, justOff, noData>>
      /\ todo' = todo \/ todo' = [todo EXCEPT ![Main] = ForKits(count, calls)]
  BY DEF Connect, clockVars
<1>2. \A k \in Kits : ~(k < amount)
  BY <1>1, Numbers DEF Sound, Typed, Table, Kits
<1>3. \A p \in Pods : lamps[p] = {}
  BY <1>2 DEF Lit, NothingLeftOn, Connected
<1>4. \A p \in Pods : fogFor[p] = 0
  BY <1>3 DEF FogInv, TimesAgree
<1>5. \A k \in Limited' : FogTime(k)' = 0
  BY <1>1, <1>4 DEF Limited, Connected, FogTime
<1>6. Ordinary(todo'[Main])
  <2>1. calls \in [Kits -> [1..4 -> Steps]] /\ count \in 0..MaxKits
    BY SetConfigTyped, Numbers
  <2>2. \A k \in Kits, i \in 1..4 : calls[k][i].do \in {"disable", "set"}
    BY ConfigsArePlain
  <2> HIDE DEF calls, count
  <2>3. \A i \in 1..Len(ForKits(count, calls)) : ForKits(count, calls)[i].do \in {"disable", "set"}
    <3>1. TAKE i \in 1..Len(ForKits(count, calls))
    <3>2. PICK k \in Kits, j \in 1..4 : ForKits(count, calls)[i] = calls[k][j]
      <4>1. i \in 1..(4 * count)
        BY <2>1, ForKitsTyped
      <4> QED BY <2>1, <4>1, ForKitsTyped
    <3> QED BY <2>2, <3>2
  <2>4. Ordinary(ForKits(count, calls))
    BY <2>3, NoLoopIsOrdinary
  <2>5. todo'[Main] = <<>> \/ todo'[Main] = ForKits(count, calls)
    BY <1>1 DEF Typed, Tasks, Threads
  <2> QED BY <2>4, <2>5, FewAreOrdinary
<1>7. Shrinks /\ DarkIsZero' /\ \A k \in Limited' : InTime(k)'
  BY <1>1, <1>4, <1>5 DEF Shrinks, DarkIsZero, InTime
<1> QED BY <1>1, <1>6, <1>7, FogGets

LEMMA FogStep ==
  ASSUME FogHypothesis
  PROVE  Typed /\ Sound /\ Lit /\ FogInv /\ [Next]_vars => FogInv'
<1> SUFFICES ASSUME Typed, Sound, Lit, FogInv, [Next]_vars PROVE FogInv'
  OBVIOUS
<1>1. /\ Threads = {Main} /\ todo \in [Threads -> Seq(Steps)] /\ NoDataLimit >= 1 /\ DarkIsZero
      /\ amount \in 0..MaxKits
  BY DEF Threads, Typed, Tasks, Table, FogHypothesis, FogInv, TimesAgree, DarkIsZero
\* Where no pod and no configuration is touched.
<1>2. ASSUME UNCHANGED <<handle, amount, config, lamps, fogFor>>
      PROVE  /\ Shrinks /\ DarkIsZero' /\ Limited' = Limited
             /\ \A k \in Limited : FogTime(k)' = FogTime(k) /\ Limit(k)' = Limit(k)
  BY <1>1, <1>2 DEF Shrinks, DarkIsZero, Limited, Connected, FogTime, Limit, Number
<1>3. CASE SkipReport(Main)
  BY <1>3, FogSkips
<1>4. CASE FillReport(Main)
  <2>1. UNCHANGED <<at, todo, clockVars, handle, amount, config, lamps, fogFor>>
    BY <1>4 DEF FillReport, kitVars, podVars
  <2> QED BY <1>2, <2>1, FogStays DEF clockVars
<1>5. CASE TransferReport(Main)
  BY <1>5, FogTransfers
<1>6. CASE Unlock(Main)
  <2>1. /\ todo[Main] # <<>> /\ Current(Main).do = "unlock" /\ Done(Main)
        /\ UNCHANGED <<at, clockVars, handle, amount, config, lamps, fogFor>>
    BY <1>6 DEF Unlock, kitVars, podVars
  <2> QED BY <2>1, FogLeaves
<1>7. CASE CloseKit
  <2>1. /\ todo[Main] # <<>> /\ Current(Main).do = "close" /\ Done(Main) /\ amount' = amount
        /\ UNCHANGED <<at, clockVars, config, lamps, fogFor>>
    BY <1>7 DEF CloseKit, podVars
  <2>2. \A k \in Kits : handle'[k] \in {handle[k], None}
    BY <1>7 DEF CloseKit, Typed, Table
  <2>3. None \notin Pods
    BY KitsAssumption
  <2> QED BY <2>1, <2>2, <2>3, FogLeaves
<1>8. CASE ExitContext
  <2>1. /\ todo[Main] # <<>> /\ Current(Main).do = "exit" /\ Done(Main)
        /\ UNCHANGED <<at, clockVars, config, lamps, fogFor>>
    BY <1>8 DEF ExitContext, podVars
  <2>2. \A k \in Kits : handle'[k] \notin Pods
    BY <1>8, KitsAssumption DEF ExitContext
  <2> QED BY <2>1, <2>2, FogLeaves
<1>9. CASE CountTotal
  BY <1>9, FogCountsTotal
<1>10. CASE Settle
  BY <1>10, FogSettles
<1>11. ASSUME NEW opened \in SUBSET plugged, NEW order \in SetToSeqs(opened),
              NEW bad \in SUBSET opened, NEW n \in 0..MaxKits, Connect(order, bad, n)
       PROVE  FogInv'
  BY <1>11, FogConnects
<1>12. CASE TimeUpdate
  BY <1>1, <1>12, FogTimes
\* Main at rest goes on without a count of the ticks.
<1>13. ASSUME todo[Main] = <<>>, Ordinary(todo'[Main]), at' # "poll", Ticked' = Ticked,
              UNCHANGED <<instanceTime, justOff, noData, handle, amount, config, lamps, fogFor>>
       PROVE  FogInv'
  <2>1. ASSUME NEW k \in Limited PROVE InTime(k)'
    <3>1. InTime(k) /\ FogTime(k)' = FogTime(k) /\ Limit(k)' = Limit(k)
      BY <1>2, <1>13, <2>1, FogAtRest
    <3> QED BY <1>13, <3>1 DEF InTime
  <2> QED BY <1>2, <1>13, <2>1, FogGets
<1>14. CASE PollNothing \/ PressNothing
  <2>1. /\ todo[Main] = <<>> /\ todo'[Main] = <<>> /\ at' # "poll"
        /\ UNCHANGED <<instanceTime, justOff, noData, handle, amount, config, lamps, fogFor>>
    BY <1>14 DEF PollNothing, PressNothing, MainAt, kitVars, podVars, clockVars
  <2>2. Ticked' = Ticked
    BY <1>14 DEF PollNothing, PressNothing, MainAt, Ticked
  <2> QED BY <1>13, <2>1, <2>2, FewAreOrdinary
<1>15. EndSteps \in Seq(Steps) /\ Ordinary(EndSteps)
  BY <1>1, EndIsOrdinary
<1>16. CASE Restart
  <2> DEFINE s == Calls("SK_ALL_OFF") \o <<Just("unlock")>>
  <2>1. s \in Seq(Steps) /\ Ordinary(s)
    BY BeforeTheEnd, CallsAreOrdinary, Zenon
  <2>2. todo' = [todo EXCEPT ![Main] = s \o EndSteps] \/ todo' = [todo EXCEPT ![Main] = EndSteps]
    BY <1>16 DEF Restart
  <2>3. /\ todo[Main] = <<>> /\ at = "poll" /\ at' = "connect"
        /\ UNCHANGED <<instanceTime, justOff, noData, handle, amount, config, lamps, fogFor>>
    BY <1>16 DEF Restart, MainAt, kitVars, podVars, clockVars
  <2>4. Ticked' = Ticked
    BY <2>3 DEF Ticked
  <2> HIDE DEF s
  <2>5. Ordinary(s \o EndSteps)
    BY <1>15, <2>1, OrdinaryJoined
  <2>6. todo'[Main] = s \o EndSteps \/ todo'[Main] = EndSteps
    BY <1>1, <2>2
  <2>7. Ordinary(todo'[Main])
    BY <1>15, <2>5, <2>6
  <2> QED BY <1>13, <2>3, <2>4, <2>7
<1>17. CASE RestartSender
  <2> DEFINE s == Loop("strobe", FALSE) \o Loop("fog", FALSE) \o Loop("leds", FALSE)
  <2>1. s \in Seq(Steps) /\ Ordinary(s)
    BY BeforeTheEnd, ThreeLoopsOrdinary, Zenon DEF Lamps
  <2>2. todo' = [todo EXCEPT ![Main] = s \o EndSteps] \/ todo' = [todo EXCEPT ![Main] = <<>>]
    BY <1>17, Zenon DEF RestartSender
  <2>3. /\ todo[Main] = <<>> /\ at = "poll" /\ at' = "connect"
        /\ UNCHANGED <<instanceTime, justOff, noData, handle, amount, config, lamps, fogFor>>
    BY <1>17 DEF RestartSender, MainAt, kitVars, podVars, clockVars
  <2>4. Ticked' = Ticked
    BY <2>3 DEF Ticked
  <2> HIDE DEF s
  <2>5. Ordinary(s \o EndSteps)
    BY <1>15, <2>1, OrdinaryJoined
  <2>6. todo'[Main] = s \o EndSteps \/ todo'[Main] = <<>>
    BY <1>1, <2>2
  <2>7. Ordinary(todo'[Main])
    BY <2>5, <2>6, FewAreOrdinary
  <2> QED BY <1>13, <2>3, <2>4, <2>7
<1>18. CASE CountNoData
  <2>1. /\ todo[Main] = <<>> /\ todo'[Main] = <<>> /\ at = "nodata" /\ at' = "buttons"
        /\ UNCHANGED <<instanceTime, justOff, handle, amount, config, lamps, fogFor>>
        /\ noData' = IF noData + 1 > NoDataLimit THEN 0 ELSE noData + 1
    BY <1>18 DEF CountNoData, MainAt, kitVars, podVars
  <2>2. Ticked = 0 /\ Ticked' = 1
    BY <2>1 DEF Ticked
  <2>3. ASSUME NEW k \in Limited PROVE InTime(k)'
    <3>1. InTime(k) /\ FogTime(k)' = FogTime(k) /\ Limit(k)' = Limit(k)
      BY <1>2, <2>1, <2>3, FogAtRest
    <3>2. /\ NoDataLimit \in Nat /\ instanceTime \in Int /\ noData \in Nat /\ noData <= NoDataLimit
          /\ FogTime(k) \in Nat /\ Limit(k) \in Nat /\ instanceTime >= 0
      BY <2>3, FogTyped DEF FogInv, TimesAgree
    <3>3. \/ FogTime(k)' = 0
          \/ /\ instanceTime' < Limit(k)'
             /\ \/ FogTime(k)' <= instanceTime' + 1
                \/ FogTime(k)' + Ticked' <= noData'
                \/ FogTime(k)' <= NoDataLimit + instanceTime' /\ noData' <= instanceTime' + Ticked'
      BY <2>1, <2>2, <3>1, <3>2 DEF InTime
    <3> QED BY <3>3 DEF InTime
  <2> QED BY <1>2, <2>1, <2>3, FogGets, FewAreOrdinary
<1>19. ASSUME NEW command \in Commands, PollCommand(command) PROVE FogInv'
  <2>1. /\ todo[Main] = <<>> /\ todo'[Main] = Calls(command) \o <<Just("unlock")>> /\ at = "poll" /\ at' = "nodata"
        /\ UNCHANGED <<instanceTime, justOff, handle, amount, config, lamps, fogFor>>
        /\ noData' = noData \/ noData' = 0
    BY <1>1, <1>19 DEF PollCommand, Rumble, MainAt, kitVars, podVars
  <2>2. Ticked = 0 /\ Ticked' = 0
    BY <2>1 DEF Ticked
  <2>3. ASSUME NEW k \in Limited PROVE InTime(k)'
    <3>1. InTime(k) /\ FogTime(k)' = FogTime(k) /\ Limit(k)' = Limit(k)
      BY <1>2, <2>1, <2>3, FogAtRest
    <3>2. /\ NoDataLimit \in Nat /\ instanceTime \in Int /\ noData \in Nat /\ noData <= NoDataLimit
          /\ FogTime(k) \in Nat /\ Limit(k) \in Nat /\ instanceTime >= 0
      BY <2>3, FogTyped DEF FogInv, TimesAgree
    <3>3. \/ FogTime(k)' = 0
          \/ /\ instanceTime' < Limit(k)'
             /\ \/ FogTime(k)' <= instanceTime' + 1
                \/ FogTime(k)' + Ticked' <= noData'
                \/ FogTime(k)' <= NoDataLimit + instanceTime' /\ noData' <= instanceTime' + Ticked'
      BY <2>1, <2>2, <3>1, <3>2 DEF InTime
    <3> QED BY <3>3 DEF InTime
  <2>4. Ordinary(todo'[Main])
    BY <2>1, CallsAreOrdinary
  <2> QED BY <1>2, <2>1, <2>3, <2>4, FogGets
<1>20. ASSUME NEW k0 \in Kits, PressXbox(k0) PROVE FogInv'
  <2>1. PICK c : /\ todo'[Main] = SetConfigSteps(k0, c) /\ todo[Main] = <<>> /\ at = "buttons" /\ at' = "time"
                 /\ config' = [config EXCEPT ![k0] = c]
                 /\ fogFor' = [fogFor EXCEPT ![handle[k0]] = 0] /\ handle[k0] \in Pods
                 /\ UNCHANGED <<instanceTime, justOff, noData, handle, amount, lamps>>
    BY <1>1, <1>20 DEF PressXbox, MainAt, clockVars
  <2>2. \A p \in Pods : fogFor'[p] \in {fogFor[p], 0}
    BY <2>1 DEF Typed, World
  <2>3. DarkIsZero'
    BY <1>1, <2>1, <2>2 DEF DarkIsZero
  <2>4. ASSUME NEW k \in Limited', FogTime(k)' # 0
        PROVE  k \in Limited /\ Limit(k)' = Limit(k) /\ FogTime(k)' = FogTime(k)
    <3>1. k \in Kits /\ k < amount /\ handle[k] \in Pods /\ fogFor'[handle[k]] # 0
      BY <2>1, <2>4 DEF Limited, Connected, FogTime
    <3>2. k # k0
      BY <2>1, <3>1 DEF Typed, World
    <3>3. config'[k] = config[k] /\ fogFor'[handle[k]] = fogFor[handle[k]]
      BY <2>1, <2>2, <3>1, <3>2 DEF Typed, Table
    <3> QED BY <2>1, <2>4, <3>1, <3>3 DEF Limited, Connected, FogTime, Limit, Number
  <2>5. Shrinks
    BY <2>4 DEF Shrinks
  <2>6. ASSUME NEW k \in Limited' PROVE InTime(k)'
    <3>1. CASE FogTime(k)' = 0
      BY <3>1 DEF InTime
    <3>2. CASE FogTime(k)' # 0
      <4>1. InTime(k) /\ FogTime(k)' = FogTime(k) /\ Limit(k)' = Limit(k)
        BY <2>1, <2>4, <2>6, <3>2, FogAtRest
      <4>2. Ticked' = Ticked
        BY <2>1 DEF Ticked
      <4> QED BY <2>1, <4>1, <4>2 DEF InTime
    <3> QED BY <3>1, <3>2
  <2>7. Ordinary(todo'[Main])
    BY <2>1, ConfigsAreOrdinary
  <2> QED BY <2>1, <2>3, <2>5, <2>6, <2>7, FogGets
<1>21. ASSUME NEW p \in Pods, Unplug(p) PROVE FogInv'
  <2>1. /\ \A k \in Kits : handle'[k] = IF handle[k] = p THEN Gone ELSE handle[k]
        /\ \A q \in Pods : fogFor'[q] = IF q = p THEN 0 ELSE fogFor[q]
        /\ \A q \in Pods : q # p => lamps'[q] = lamps[q]
        /\ UNCHANGED <<at, todo, clockVars, config, amount>>
    BY <1>21 DEF Unplug, Typed, World
  <2>2. Gone \notin Pods
    BY KitsAssumption
  <2>3. Shrinks /\ DarkIsZero'
    BY <1>1, <2>1, <2>2 DEF Shrinks, DarkIsZero, Limited, Connected, FogTime, Limit, Number
  <2> QED BY <2>1, <2>3, FogStays DEF clockVars
<1>22. CASE UNCHANGED vars \/ \E p \in Pods : Plug(p)
  <2>1. UNCHANGED <<at, todo, clockVars, handle, amount, config, lamps, fogFor>>
    BY <1>22 DEF vars, Plug, kitVars, podVars
  <2> QED BY <1>2, <2>1, FogStays DEF clockVars
<1> QED BY <1>1, <1>3, <1>4, <1>5, <1>6, <1>7, <1>8, <1>9, <1>10, <1>11, <1>12, <1>14, <1>16, <1>17,
           <1>18, <1>19, <1>20, <1>21, <1>22 DEF Next, FogHypothesis

\* Without button threads fog ends where the configuration limits an instance to no more than
\* SongGap: after that time or, if a change of song seems to come meanwhile, NoDataLimit later;
\* for every such configuration and number of pods, whatever is sent, pressed, unplugged or
\* restarted meanwhile, and whatever the two fog times of 0 or more held at first
\* (StageKitManager.cpp:248-261).
THEOREM FogIsLimited == FogHypothesis => (Spec => []FogLimited)
<1>1. FogHypothesis /\ Init => Typed /\ Sound /\ Lit /\ FogInv
  BY TypesStart, SoundStart, LitStart, FogStart DEF Typed
<1>2. FogHypothesis /\ Typed /\ Sound /\ Lit /\ FogInv /\ [Next]_vars => (Typed /\ Sound /\ Lit /\ FogInv)'
  BY TypedStep, SoundStep, LitStep, FogStep DEF FogHypothesis
<1>3. Typed /\ FogInv => FogLimited
  <2> SUFFICES ASSUME Typed, FogInv, NEW k \in Connected, Number(k) \in Enabled["fog"],
                      InstanceMax[Number(k)] \in 1..SongGap
               PROVE  fogFor[handle[k]] <= NoDataLimit + InstanceMax[Number(k)]
    BY DEF FogLimited
  <2>1. k \in Limited
    BY DEF Limited, Limit
  <2>2. FogTime(k) <= NoDataLimit + Limit(k)
    BY <2>1, FogBound DEF FogInv
  <2> QED BY <2>2 DEF FogTime, Limit
<1>4. ASSUME FogHypothesis PROVE Spec => []FogLimited
  BY <1>1, <1>2, <1>3, <1>4, PTL DEF Spec
<1> QED BY <1>4
==============================================================================
