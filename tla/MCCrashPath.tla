---------------------------- MODULE MCCrashPath ----------------------------
(* Both targets, and up to three handlers stacked over the thread: a panic *)
(* in the crash screen of a panic, or a fault in the dump of a fault.      *)
EXTENDS CrashPath

MCArches == {"x86_64", "aarch64"}
=============================================================================
