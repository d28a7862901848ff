---------------------------- MODULE MCRtssTimer ----------------------------
(* The timer driver with two channels and one or two tasks, for TLC.       *)
EXTENDS RtssTimer

MCChannels == 0..1

(* One period is rejected and would be negative. *)
MCNsPeriods == {-1, 2}

=============================================================================
