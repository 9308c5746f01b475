----------------------------- MODULE MCMonitor -----------------------------
(***************************************************************************)
(* Both targets, a timer that stops after four ticks, a second of two      *)
(* periods, and a period that is missed.                                   *)
(***************************************************************************)
EXTENDS Monitor

MCArches == {"x86_64", "aarch64"}
=============================================================================
