---------------------------- MODULE MCFrameLogging ----------------------------
(* A camera of two frames a second whose log rate is off, below, or above    *)
(* the frame rate.                                                           *)
EXTENDS FrameLogging

MCRates == {0, 1, 3}
==============================================================================
