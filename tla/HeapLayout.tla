----------------------------- MODULE HeapLayout -----------------------------
(***************************************************************************)
(* The arithmetic of the kernel heap (ferric-unsafe-core, heap.rs): where  *)
(* a region begins and ends, where a payload lands in a block, where the   *)
(* rest of the block begins.  No state.                                    *)
(***************************************************************************)
EXTENDS Integers, SequencesExt

CONSTANTS MemoryMaps,   \* the memory maps a loader may report
          HhdmOffset,   \* added to a physical address to reach it
          StaticArena,  \* the fallback region [base, len]
          Requests      \* pairs <<size, align>> of the layouts asked for

Nothing == -1   \* what a call that returns no pointer leaves in a reply

HEADER_SIZE == 24
HEADER_GAP == 8
MIN_BLOCK == 2 * HEADER_SIZE

Region == [base : Nat, len : Nat]

ASSUME RegionAssumption ==
  /\ HhdmOffset \in Nat \ {0}
  /\ StaticArena \in Region
  /\ StaticArena.base > 0 /\ StaticArena.len >= MIN_BLOCK
  /\ \A m \in MemoryMaps :
       m \in Seq([base : Nat, len : Nat, usable : BOOLEAN])

ASSUME RequestAssumption == Requests \subseteq Nat \X (Nat \ {0})

Max1(n) == IF n = 0 THEN 1 ELSE n

(* (value + (align - 1)) & !(align - 1), for align a power of two *)
AlignUp(v, a) == (v + (a - 1)) - ((v + (a - 1)) % a)
-----------------------------------------------------------------------------
(* Heap::init: round the start up, the end down, keep one free block. *)
RegionStart(r) == AlignUp(r.base, 8)
RegionEnd(r) == (RegionStart(r) + r.len) - ((RegionStart(r) + r.len) % 8)
Accepts(r) == RegionEnd(r) - RegionStart(r) >= MIN_BLOCK

(* The first of the longest USABLE entries that could hold a block. *)
Usable(m) == {i \in DOMAIN m : m[i].usable /\ m[i].len >= MIN_BLOCK}

IsBest(m, i) ==
  /\ i \in Usable(m)
  /\ \A j \in Usable(m) : IF j < i THEN m[j].len < m[i].len
                                   ELSE m[j].len <= m[i].len

EntryRegion(e) == [base |-> e.base + HhdmOffset, len |-> e.len]
-----------------------------------------------------------------------------
(* Heap::alloc: a block at b, a layout of n bytes aligned to a. *)
PayloadOf(b, a) == AlignUp(b + HEADER_SIZE + HEADER_GAP, a)
NeedEnd(b, n, a) == PayloadOf(b, a) + Max1(n)
TailAddr(b, n, a) == AlignUp(NeedEnd(b, n, a), 8)
=============================================================================
