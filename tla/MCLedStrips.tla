----------------------------- MODULE MCLedStrips -----------------------------
(***************************************************************************)
(* Three LEDs, two colours of two groups each.  LED 3 is in no group and   *)
(* so the strobe's; group 1 of green has none; number 9 is out of range.   *)
(***************************************************************************)
EXTENDS LedStrips

MCColours == {"red", "green"}
MCGroups == [c \in MCColours |-> [b \in Bits |->
  CASE c = "red" /\ b = 1 -> {1}
    [] c = "red" /\ b = 2 -> {9}
    [] c = "green" /\ b = 1 -> {}
    [] c = "green" /\ b = 2 -> {2}]]
MCLights == {<<"red", {1}>>, <<"red", {2}>>, <<"green", {1, 2}>>}
MCRates == <<4, 3>>

\* A turn that is a tick late, or not at all, takes no longer than a period.
ASSUME PeriodsLongEnough == (\A d \in Late : d <= 1) => TurnsInTime /\ Floor > 0
==============================================================================
