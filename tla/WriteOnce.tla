----------------------------- MODULE WriteOnce ------------------------------
(***************************************************************************)
(* What a set-once cell promises to its readers: it is empty, then one of  *)
(* the offered values, and it never changes again.                         *)
(***************************************************************************)
CONSTANTS Offers, Empty

VARIABLE cell

Init == cell = Empty

Install(v) ==
  /\ cell = Empty
  /\ cell' = v

Next == \E v \in Offers : Install(v)

Spec == Init /\ [][Next]_cell
=============================================================================
