----------------------------- MODULE HeapLinks ------------------------------
(***************************************************************************)
(* The kernel heap (ferric-unsafe-core, heap.rs) at the level of memory:   *)
(* headers, links and padding words are words of the region, next to the   *)
(* callers' bytes.                                                         *)
(*                                                                         *)
(* s.mem[a] is the 8-byte word at address a and s.head the field           *)
(* Heap.free.  A header is three words: size, next, prev; a null pointer   *)
(* is 0.  Whoever gets a grant fills all of it with User, so a header,     *)
(* link or padding that a caller can reach reads as User afterwards, and a *)
(* store of the allocator into a grant shows as a word that is not User.   *)
(* The words of absorbed headers keep their stale content.                 *)
(*                                                                         *)
(* start, end, live, reply and region are those of Heap.  Its free, size   *)
(* and pad are not state of this machine: View makes them what one reads   *)
(* by walking the memory, and no action here looks at them.                *)
(***************************************************************************)
EXTENDS Heap

VARIABLE s

memVars == <<vars, s>>

User == -1

(* Layout takes powers of two only: 1, 2, 4 or a multiple of 8. *)
ASSUME AlignAssumption ==
  \A r \in Requests : r[2] \in {1, 2, 4} \/ r[2] % 8 = 0

SizeOf(h, b) == h.mem[b]
NextOf(h, b) == h.mem[b + 8]
PrevOf(h, b) == h.mem[b + 16]

Store(h, a, v) == [h EXCEPT !.mem[a] = v]

(* Sets the next field of p, or the list head where p is null; its twin.   *)
LinkNext(h, p, v) == IF p = 0 THEN [h EXCEPT !.head = v] ELSE Store(h, p + 8, v)

(* A bug to compare with: the back link of the successor is forgotten. *)
MutantLinkPrev(h, p, v) == h

LinkPrev(h, p, v) == IF p = 0 THEN h ELSE Store(h, p + 16, v)

(* The list from the head, following at most as many links as there are    *)
(* words.                                                                  *)
NodesOf(h) ==
  LET words == Cardinality(DOMAIN h.mem)
      walk[n \in 0 .. words] ==
        [b \in Int |-> IF n = 0 \/ b \notin DOMAIN h.mem THEN <<>>
                       ELSE Cons(b, walk[n - 1][NextOf(h, b)])]
  IN  walk[words][h.head]

Nodes == NodesOf(s)

(* dealloc finds the header of p through the word below it. *)
HeaderOf(p) == p - HEADER_SIZE - s.mem[p - HEADER_GAP]

Ptrs == {g.ptr : g \in live}

Sizes == [b \in ToSet(Nodes) \cup {HeaderOf(p) : p \in Ptrs} |-> SizeOf(s, b)]
Pads == [p \in Ptrs |-> s.mem[p - HEADER_GAP]]

View == free = Nodes /\ size = Sizes /\ pad = Pads
-----------------------------------------------------------------------------
MemInit ==
  /\ start = 0 /\ end = 0
  /\ s = [head |-> 0, mem |-> <<>>]
  /\ live = {} /\ reply = Nothing /\ region = <<>>
  /\ View

Words(lo, hi) == {a \in lo .. hi - 8 : a % 8 = 0}

Format(r) ==
  LET b == RegionStart(r) IN
    /\ start' = b
    /\ end' = RegionEnd(r)
    /\ s' = [head |-> b,
             mem |-> [a \in Words(b, RegionEnd(r)) |->
                        IF a = b THEN RegionEnd(r) - b ELSE 0]]
    /\ region' = <<r>>

MemInstall(m) ==
  /\ region = <<>>
  /\ \/ \E i \in DOMAIN m : /\ IsBest(m, i)
                            /\ Accepts(EntryRegion(m[i]))
                            /\ Format(EntryRegion(m[i]))
     \/ /\ \A i \in DOMAIN m : IsBest(m, i) => ~Accepts(EntryRegion(m[i]))
        /\ Format(StaticArena)
  /\ UNCHANGED <<live, reply>>
-----------------------------------------------------------------------------
FitsAt(b, n, a) == NeedEnd(b, n, a) <= b + SizeOf(s, b)

SplitsAt(b, n, a) ==
  LET bend == b + SizeOf(s, b) IN
    /\ bend - NeedEnd(b, n, a) >= MIN_BLOCK
    /\ bend - TailAddr(b, n, a) >= MIN_BLOCK

(* The header of the tail, with the links of the block it is cut from. *)
TailHeader(h, b, t) ==
  LET h1 == Store(h, t, (b + SizeOf(h, b)) - t)
      h2 == Store(h1, t + 8, NextOf(h1, b))
  IN  Store(h2, t + 16, PrevOf(h2, b))

(* Puts the tail where the block was in the list. *)
Cut(h, b, t) ==
  LET h1 == TailHeader(h, b, t)
      h2 == LinkNext(h1, PrevOf(h1, b), t)
      h3 == LinkPrev(h2, NextOf(h2, b), t)
  IN  Store(h3, b, t - b)

Unlink(h, b) ==
  LinkPrev(LinkNext(h, PrevOf(h, b), NextOf(h, b)), NextOf(h, b), PrevOf(h, b))

(* A bug to compare with: the padding is stored at the end of the header.  *)
MutantPadSlot(b, p) == b + HEADER_SIZE

PadSlot(b, p) == p - HEADER_GAP

(* Word a holds some of the n bytes from p on. *)
Touches(a, p, n) == a < p + n /\ p < a + 8

(* The caller writes every byte it was given. *)
Fill(h, p, n) ==
  [h EXCEPT !.mem = [a \in DOMAIN h.mem |->
                       IF Touches(a, p, n) THEN User ELSE h.mem[a]]]

MemAlloc(n, a) ==
  \E k \in DOMAIN Nodes :
    LET b == Nodes[k]
        p == PayloadOf(b, a)
        taken == IF SplitsAt(b, n, a) THEN Cut(s, b, TailAddr(b, n, a))
                                      ELSE Unlink(s, b)
    IN /\ FitsAt(b, n, a)
       /\ \A j \in 1 .. k - 1 : ~FitsAt(Nodes[j], n, a)
       /\ s' = Fill(Store(taken, PadSlot(b, p), p - (b + HEADER_SIZE)), p, n)
       /\ live' = live \cup {[ptr |-> p, size |-> n, align |-> a]}
       /\ reply' = p
       /\ UNCHANGED <<start, end, region>>

MemAllocNull(n, a) ==
  /\ \A k \in DOMAIN Nodes : ~FitsAt(Nodes[k], n, a)
  /\ reply' = 0
  /\ UNCHANGED <<start, end, s, live, region>>
-----------------------------------------------------------------------------
InRange(p) ==
  /\ start + HEADER_SIZE <= p /\ p < end
  /\ start <= HeaderOf(p) /\ HeaderOf(p) < end

(* The walk keeps the last node in N, null when none is. *)
LastNode(N) ==
  LET I == {i \in DOMAIN Nodes : Nodes[i] \in N}
  IN  IF I = {} THEN 0 ELSE Nodes[Max(I)]

AbsorbRight(h, b, right) ==
  IF right = 0 THEN h
  ELSE Unlink(Store(h, b, SizeOf(h, b) + SizeOf(h, right)), right)

Prepend(h, b) ==
  LET h1 == Store(Store(h, b + 8, h.head), b + 16, 0)
      h2 == LinkPrev(h1, h1.head, b)
  IN  [h2 EXCEPT !.head = b]

Merge(b) ==
  LET bend == b + SizeOf(s, b)
      left == LastNode({x \in ToSet(Nodes) : x + SizeOf(s, x) = b})
      right == LastNode({bend})
      h == AbsorbRight(s, b, right)
  IN  IF left # 0 THEN Store(h, left, SizeOf(h, left) + SizeOf(h, b))
                  ELSE Prepend(h, b)

MemDealloc(g) ==
  /\ s' = IF InRange(g.ptr) THEN Merge(HeaderOf(g.ptr)) ELSE s
  /\ live' = live \ {g}
  /\ reply' = Nothing
  /\ UNCHANGED <<start, end, region>>

MemNext ==
  /\ \/ \E m \in MemoryMaps : MemInstall(m)
     \/ \E r \in Requests : MemAlloc(r[1], r[2]) \/ MemAllocNull(r[1], r[2])
     \/ \E g \in live : MemDealloc(g)
  /\ free' = Nodes' /\ size' = Sizes' /\ pad' = Pads'

MemSpec == MemInit /\ [][MemNext]_memVars
-----------------------------------------------------------------------------
(* The list is doubly linked and ends: every next has its prev, the head   *)
(* has none, and no walk meets a node twice.                               *)
ListWellFormed ==
  LET L == Nodes IN
    /\ \A i \in DOMAIN L :
         /\ PrevOf(s, L[i]) = (IF i = 1 THEN 0 ELSE L[i - 1])
         /\ i = Len(L) => NextOf(s, L[i]) = 0
    /\ \A i, j \in DOMAIN L : L[i] = L[j] => i = j
    /\ s.head = 0 <=> L = <<>>

(* No store of the allocator ever lands in bytes a caller owns, whichever  *)
(* blocks are split, merged or unlinked around them.                       *)
CallerBytesIntact ==
  \A g \in live : \A a \in DOMAIN s.mem :
    Touches(a, g.ptr, g.size) => s.mem[a] = User

(* Whatever is split, merged or unlinked, the memory is sound: a list that *)
(* can be walked both ways, beside the bytes of the callers (heap.rs).     *)
MemorySound == ListWellFormed /\ CallerBytesIntact

(* Read through its headers, links and paddings, the memory is the state   *)
(* of Heap, and every operation on it is that operation of Heap.           *)
ImplementsHeap == Spec
=============================================================================
