------------------------------- MODULE MCHeap -------------------------------
(***************************************************************************)
(* Small instances of Heap.  The map offers a region too short for a       *)
(* block, a reserved one, and two usable ones of which the longer starts   *)
(* off every alignment above 8; the requests leave odd ends, slivers below *)
(* MIN_BLOCK, paddings of more than one word, and refusals; the largest    *)
(* fits only a heap that has been put together again.                      *)
(***************************************************************************)
EXTENDS Heap

Entry(b, n, u) == [base |-> b, len |-> n, usable |-> u]

MCMemoryMaps ==
  {<<Entry(16, 40, TRUE), Entry(64, 400, FALSE), Entry(500, 100, TRUE),
     Entry(1000, 248, TRUE)>>,
   <<Entry(16, 40, TRUE), Entry(64, 400, FALSE)>>}

MCStaticArena == [base |-> 4096, len |-> 196]

MCRequests == {<<0, 1>>, <<8, 8>>, <<20, 4>>, <<40, 16>>, <<9, 64>>, <<150, 8>>}
=============================================================================
