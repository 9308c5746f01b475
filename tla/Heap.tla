-------------------------------- MODULE Heap --------------------------------
(***************************************************************************)
(* The kernel heap (ferric-unsafe-core, heap.rs): a first-fit free list of *)
(* blocks inside one region, at the level of blocks.                       *)
(*                                                                         *)
(* size[b] is the size field of the header at address b, for every block,  *)
(* free or allocated; free is the free list in list order (the links       *)
(* themselves are in HeapLinks); pad[p] is the word below payload p that   *)
(* lets dealloc find the header again.  live is the caller's side: the     *)
(* grants it has not given back.  Every operation runs under the crate's   *)
(* Spinlock (see SharedCell), so each is one step.                         *)
(***************************************************************************)
EXTENDS HeapLayout

VARIABLES start, end,   \* Heap.start, Heap.end
          free,         \* the free list
          size,         \* the size fields, on the addresses of blocks
          pad,          \* the stored paddings, on the live payloads
          live,         \* grants outstanding, [ptr, size, align]
          reply,        \* what the last call returned, 0 for null
          region        \* history: what init was given, <<>> before

vars == <<start, end, free, size, pad, live, reply, region>>

Heads == DOMAIN size
FreeSet == ToSet(free)
Without(b) == [x \in Heads \ {b} |-> size[x]]
-----------------------------------------------------------------------------
Init ==
  /\ start = 0 /\ end = 0
  /\ free = <<>>
  /\ size = <<>>
  /\ pad = <<>>
  /\ live = {}
  /\ reply = Nothing
  /\ region = <<>>

InitRegion(r) ==
  /\ start' = RegionStart(r)
  /\ end' = RegionEnd(r)
  /\ free' = <<RegionStart(r)>>
  /\ size' = [b \in {RegionStart(r)} |-> RegionEnd(r) - RegionStart(r)]
  /\ region' = <<r>>

(* install_from_boot_info: the boot path calls it once. *)
InstallFromBootInfo(m) ==
  /\ region = <<>>
  /\ \/ \E i \in DOMAIN m : /\ IsBest(m, i)
                            /\ Accepts(EntryRegion(m[i]))
                            /\ InitRegion(EntryRegion(m[i]))
     \/ /\ \A i \in DOMAIN m : IsBest(m, i) => ~Accepts(EntryRegion(m[i]))
        /\ InitRegion(StaticArena)
  /\ UNCHANGED <<pad, live, reply>>
-----------------------------------------------------------------------------
(* Heap::alloc *)
BlockEnd(b) == b + size[b]

(* A bug to compare with: the fit is measured without the padding. *)
MutantFits(b, n, a) == HEADER_SIZE + HEADER_GAP + Max1(n) <= size[b]

Fits(b, n, a) == NeedEnd(b, n, a) <= BlockEnd(b)

(* A bug to compare with: any tail that can hold a word is cut off.        *)
MutantSplits(b, n, a) == BlockEnd(b) - TailAddr(b, n, a) >= HEADER_GAP

Splits(b, n, a) ==
  /\ BlockEnd(b) - NeedEnd(b, n, a) >= MIN_BLOCK
  /\ BlockEnd(b) - TailAddr(b, n, a) >= MIN_BLOCK

FirstFit(k, n, a) ==
  /\ k \in DOMAIN free
  /\ Fits(free[k], n, a)
  /\ \A j \in 1 .. k - 1 : ~Fits(free[j], n, a)

(* A bug to compare with: the tail is cut off and put on no list. *)
MutantCarveTail(k, t) ==
  LET b == free[k] IN
    /\ free' = RemoveAt(free, k)
    /\ size' = [x \in Heads \cup {t} |->
                  IF x = b THEN t - b
                  ELSE IF x = t THEN BlockEnd(b) - t
                  ELSE size[x]]

(* The tail takes over the list position of the block it is cut from. *)
CarveTail(k, t) ==
  LET b == free[k] IN
    /\ free' = ReplaceAt(free, k, t)
    /\ size' = [x \in Heads \cup {t} |->
                  IF x = b THEN t - b
                  ELSE IF x = t THEN BlockEnd(b) - t
                  ELSE size[x]]

TakeWhole(k) ==
  /\ free' = RemoveAt(free, k)
  /\ UNCHANGED size

Hand(b, n, a) ==
  LET p == PayloadOf(b, a) IN
    /\ pad' = [x \in DOMAIN pad \cup {p} |->
                 IF x = p THEN p - (b + HEADER_SIZE) ELSE pad[x]]
    /\ live' = live \cup {[ptr |-> p, size |-> n, align |-> a]}
    /\ reply' = p

Alloc(n, a) ==
  \E k \in DOMAIN free :
    /\ FirstFit(k, n, a)
    /\ IF Splits(free[k], n, a) THEN CarveTail(k, TailAddr(free[k], n, a))
                                ELSE TakeWhole(k)
    /\ Hand(free[k], n, a)
    /\ UNCHANGED <<start, end, region>>

AllocNull(n, a) ==
  /\ \A k \in DOMAIN free : ~Fits(free[k], n, a)
  /\ reply' = 0
  /\ UNCHANGED <<start, end, free, size, pad, live, region>>
-----------------------------------------------------------------------------
(* Heap::dealloc *)
BlockOf(p) == p - HEADER_SIZE - pad[p]

Recovers(p) ==
  /\ start + HEADER_SIZE <= p /\ p < end
  /\ start <= BlockOf(p) /\ BlockOf(p) < end

(* A bug to compare with: a freed block never grows over its successor. *)
MutantRight(b) == {}

(* The free blocks that end where b begins, and begin where b ends. *)
LeftOf(b) == {k \in DOMAIN free : BlockEnd(free[k]) = b}
RightOf(b) == {k \in DOMAIN free : free[k] = BlockEnd(b)}

MergeNone(b) ==
  /\ LeftOf(b) = {} /\ RightOf(b) = {}
  /\ free' = Cons(b, free)
  /\ UNCHANGED size

MergeRight(b) ==
  \E k \in RightOf(b) :
    /\ LeftOf(b) = {}
    /\ free' = Cons(b, RemoveAt(free, k))
    /\ size' = [Without(free[k]) EXCEPT ![b] = size[b] + size[free[k]]]

MergeLeft(b) ==
  \E l \in LeftOf(b) :
    /\ RightOf(b) = {}
    /\ free' = free
    /\ size' = [Without(b) EXCEPT ![free[l]] = size[free[l]] + size[b]]

MergeBoth(b) ==
  \E l \in LeftOf(b), k \in RightOf(b) :
    /\ free' = RemoveAt(free, k)
    /\ size' = [x \in Heads \ {b, free[k]} |->
                  IF x = free[l] THEN size[x] + size[b] + size[free[k]]
                                 ELSE size[x]]

Coalesce(b) == MergeNone(b) \/ MergeRight(b) \/ MergeLeft(b) \/ MergeBoth(b)

(* Called with a pointer alloc returned; one that fails the range checks   *)
(* is ignored, and its block would be lost.                                *)
Dealloc(g) ==
  /\ IF Recovers(g.ptr) THEN Coalesce(BlockOf(g.ptr))
                        ELSE UNCHANGED <<free, size>>
  /\ live' = live \ {g}
  /\ pad' = [p \in DOMAIN pad \ {g.ptr} |-> pad[p]]
  /\ reply' = Nothing
  /\ UNCHANGED <<start, end, region>>

Next ==
  \/ \E m \in MemoryMaps : InstallFromBootInfo(m)
  \/ \E r \in Requests : Alloc(r[1], r[2]) \/ AllocNull(r[1], r[2])
  \/ \E g \in live : Dealloc(g)

Spec == Init /\ [][Next]_vars
-----------------------------------------------------------------------------
Installed == region # <<>>
GrantBlock(g) == BlockOf(g.ptr)

(* Every variable stays in its range; the size field of a block and the    *)
(* padding of a grant are always there to be read.                         *)
TypeOK ==
  /\ start \in Nat /\ end \in Nat
  /\ free \in Seq(Heads)
  /\ size \in [Heads -> Nat] /\ Heads \subseteq Nat \ {0}
  /\ live \subseteq [ptr : Nat \ {0}, size : Nat, align : Nat \ {0}]
  /\ pad \in [{g.ptr : g \in live} -> Nat]
  /\ reply \in Nat \cup {Nothing}
  /\ region = <<>> \/ region \in Seq(Region)

(* The blocks partition the heap: they begin at start, each is followed by *)
(* the next or by the end, none overlaps another, and every header is      *)
(* aligned and has room for the smallest allocation.                       *)
Tiled ==
  Installed =>
    /\ start \in Heads
    /\ \A b \in Heads :
         /\ b % 8 = 0
         /\ start <= b
         /\ size[b] >= HEADER_SIZE + HEADER_GAP
         /\ BlockEnd(b) = end \/ BlockEnd(b) \in Heads
         /\ BlockEnd(b) <= end
    /\ \A b, c \in Heads : b < c => BlockEnd(b) <= c

(* No byte is lost or owned twice: each block is on the free list, once,   *)
(* or it carries exactly one grant, and a grant leads back to its block    *)
(* through the padding word below it.                                      *)
BlocksAccounted ==
  /\ \A i, j \in DOMAIN free : free[i] = free[j] => i = j
  /\ \A g \in live : GrantBlock(g) \in Heads \ FreeSet
  /\ \A g, h \in live : GrantBlock(g) = GrantBlock(h) => g = h
  /\ \A b \in Heads \ FreeSet : \E g \in live : GrantBlock(g) = b

(* What the caller may write, [ptr, ptr + size), is aligned as asked and   *)
(* lies in its own block above the header and the padding word: together   *)
(* with Tiled, no caller can reach a header or another caller's bytes.     *)
GrantsInside ==
  \A g \in live :
    /\ GrantBlock(g) + HEADER_SIZE + HEADER_GAP <= g.ptr
    /\ g.ptr + Max1(g.size) <= BlockEnd(GrantBlock(g))
    /\ g.ptr % g.align = 0

(* dealloc leaves no two free neighbours behind, whatever the order of the *)
(* frees: otherwise a request could fail although its bytes are free.      *)
NoAdjacentFree == \A b \in FreeSet : BlockEnd(b) \notin FreeSet

(* The heap keeps inside the bytes it was given when they begin on a       *)
(* multiple of 8, as those of the boot code do.  Heap::init rounds the     *)
(* start up and leaves the length, so that any other region may be overrun *)
(* at its end, by less than a word.                                        *)
HeapInRegion ==
  Installed =>
    LET r == region[1]
    IN  /\ r.base <= start
        /\ end < r.base + r.len + 8
        /\ r.base % 8 = 0 => end <= r.base + r.len

(* The heap keeps the promises of Allocator. *)
Abstract == INSTANCE Allocator WITH
  arena <- [lo |-> start, hi |-> end],
  Overhead <- HEADER_SIZE + HEADER_GAP

ImplementsAllocator == Abstract!Spec
=============================================================================
