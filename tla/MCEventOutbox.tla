---------------------------- MODULE MCEventOutbox ----------------------------
(* Small instances of EventOutbox.                                         *)
EXTENDS EventOutbox, TLC

TwoNotices == {1, 2}
=============================================================================
