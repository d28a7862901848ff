---------------------------- MODULE MCRTExecutor ----------------------------
(* The executor with two timer channels, for TLC.                          *)
EXTENDS RTExecutor

MCChannels == 0..1

=============================================================================
