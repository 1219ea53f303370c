----------------------------- MODULE MCLiveTraces -----------------------------
(* Instances of LiveTraces for TLC. *)
EXTENDS LiveTraces, TLC

CONSTANTS t1, t2, d1
=============================================================================
