---------------------------- MODULE MCSerialLink ----------------------------
(***************************************************************************)
(* Small instances of SerialLink.  One console says much, in a buffer that  *)
(* was never set whatever ends a frame; with one m_timeout wears out; one   *)
(* goes off and on; and with one, which asks once, both happen.             *)
(***************************************************************************)
EXTENDS SerialLink

Console(cuts, wears, m, n, garbage) ==
  [cuts |-> cuts, wears |-> wears, maxReports |-> m, maxRequests |-> n, garbage |-> garbage]

MCConsoles == {Console(FALSE, FALSE, 3, 4, {0, 255}), Console(FALSE, TRUE, 1, 1, {0}),
               Console(TRUE, FALSE, 1, 1, {0}), Console(TRUE, TRUE, 0, 1, {0})}

\* The console lights.ini speaks of.
MCPowerCuts == {Console(TRUE, TRUE, 1, 1, {0})}
=============================================================================
