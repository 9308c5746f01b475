---------------------------- MODULE MCHeapLinks ----------------------------
(***************************************************************************)
(* A small instance of HeapLinks: a region of 30 words holds six of the    *)
(* smallest blocks, so the list grows to several nodes and blocks merge on *)
(* either side, on both and on none.                                       *)
(*                                                                         *)
(* States are compared by Relevant, which leaves out the words that no     *)
(* header, padding or grant occupies: what absorbed headers and returned   *)
(* grants left behind.  Every operation and property is a function of the  *)
(* rest, and the memory itself keeps its stale content.                    *)
(***************************************************************************)
EXTENDS HeapLinks

MCMemoryMaps == {<<[base |-> 1000, len |-> 240, usable |-> TRUE]>>}
MCStaticArena == [base |-> 4096, len |-> 96]
MCRequests == {<<0, 1>>, <<8, 8>>, <<20, 16>>, <<9, 64>>}

ListWords == UNION {{b, b + 8, b + 16} : b \in ToSet(Nodes)}
PadWords == {p - HEADER_GAP : p \in Ptrs}
SizeWords == {HeaderOf(p) : p \in Ptrs}
GrantWords ==
  {a \in DOMAIN s.mem : \E g \in live : Touches(a, g.ptr, g.size)}

Relevant ==
  LET used == DOMAIN s.mem \cap
                (ListWords \cup PadWords \cup SizeWords \cup GrantWords)
  IN  <<start, end, s.head, [a \in used |-> s.mem[a]], live, reply, region>>
=============================================================================
