---------------------------- MODULE OutputRelay ----------------------------
(***************************************************************************)
(* What the way to QLC+ promises: outputs, numbered as they are processed, *)
(* arrive in that order and none arrives twice.  Any may be lost.          *)
(***************************************************************************)
EXTENDS Naturals, Sequences

VARIABLES
    asked,      \* the outputs processed so far
    pending,    \* those under way
    got         \* the last that arrived

relayVars == <<asked, pending, got>>

Init == asked = 0 /\ pending = <<>> /\ got = 0

Ask == asked' = asked + 1 /\ UNCHANGED <<pending, got>>

\* Only the output processed last is sent, and only once.
Accept ==
    /\ asked > got
    /\ \A i \in DOMAIN pending : pending[i] < asked
    /\ pending' = Append(pending, asked)
    /\ UNCHANGED <<asked, got>>

Arrive ==
    /\ pending # <<>>
    /\ got' = Head(pending) /\ got' > got
    /\ pending' = Tail(pending)
    /\ UNCHANGED asked

LoseAll == pending' = <<>> /\ UNCHANGED <<asked, got>>

Next == Ask \/ Accept \/ Arrive \/ LoseAll

Spec == Init /\ [][Next]_relayVars
=============================================================================
