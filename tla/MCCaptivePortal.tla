-------------------------- MODULE MCCaptivePortal --------------------------
(* Small instances of CaptivePortal for TLC. *)
EXTENDS CaptivePortal
=============================================================================
