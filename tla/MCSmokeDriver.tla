--------------------------- MODULE MCSmokeDriver ---------------------------
(* Both targets, the attempts of the code, a lost key and a hasty retry.   *)
EXTENDS SmokeDriver

Targets == {"x64", "arm64"}
=============================================================================
