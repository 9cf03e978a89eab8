---------------------------- MODULE MCChannelJob ----------------------------
(* Small instances of ChannelJob.                                          *)
EXTENDS ChannelJob

CONSTANTS r1, r2

TwoRounds == {r1, r2}
=============================================================================
