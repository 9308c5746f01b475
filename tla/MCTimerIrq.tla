---------------------------- MODULE MCTimerIrq -----------------------------
(* Both targets, and a timer that stops after four ticks. *)
EXTENDS TimerIrq

MCArches == {"x86_64", "aarch64"}
MCX86 == {"x86_64"}
MCAarch64 == {"aarch64"}
=============================================================================
