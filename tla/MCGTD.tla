------------------------------- MODULE MCGTD -------------------------------
(* Two producers, two priorities and a two-tick second: deadlines a tick    *)
(* apart may share a second or not, and a stamp may be late at the mutex.   *)
EXTENDS GTD

MCTypes == {SEND, REQ_IPS}

MCDelay == {0, 1, 3}
=============================================================================
