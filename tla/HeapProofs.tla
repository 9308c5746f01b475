----------------------------- MODULE HeapProofs -----------------------------
(***************************************************************************)
(* Proofs about Heap and HeapLinks, for every memory map, region and set   *)
(* of layouts.                                                             *)
(*                                                                         *)
(* First the arithmetic of AlignUp and the three list operations used on   *)
(* the free list; then the inductive invariant IInv of Heap, and one lemma *)
(* per way an operation changes the blocks: a block is cut (CarveStep),    *)
(* handed out whole (TakeStep), or grows over its neighbours (MergeStep,   *)
(* of which the four cases of dealloc are instances); its theorems.        *)
(*                                                                         *)
(* Then HeapLinks.  A memory h is Linked along a list F when head, next    *)
(* and prev are those of F; then the walk returns F.  One lemma per list   *)
(* operation of heap.rs says what it makes of F and which words it writes. *)
(* With them each operation on the memory is the operation of Heap on what *)
(* is read from it, and the invariant of Heap gives the rest.              *)
(***************************************************************************)
EXTENDS HeapLinks, SequenceTheorems, FiniteSetTheorems, WellFoundedInduction,
        NaturalsInduction, TLAPS

Injective(f) == \A i, j \in DOMAIN f : f[i] = f[j] => i = j
-----------------------------------------------------------------------------
LEMMA AlignUpBounds ==
  ASSUME NEW v \in Nat, NEW a \in Nat \ {0}
  PROVE  /\ AlignUp(v, a) \in Nat
         /\ v <= AlignUp(v, a)
         /\ AlignUp(v, a) < v + a
<1>1. (v + (a - 1)) % a \in 0 .. a - 1
  OBVIOUS
<1>. QED  BY <1>1 DEF AlignUp

LEMMA AlignUpAligned ==
  ASSUME NEW v \in Nat, NEW a \in Nat \ {0}
  PROVE  AlignUp(v, a) % a = 0
<1> DEFINE t == v + (a - 1)
<1>1. t \in Nat /\ t % a \in 0 .. a - 1
  OBVIOUS
<1>2. t = a * (t \div a) + (t % a)
  BY <1>1
<1>. QED BY <1>1, <1>2 DEF AlignUp

LEMMA AlignUp8 ==
  ASSUME NEW v \in Nat
  PROVE  /\ AlignUp(v, 8) \in Nat
         /\ v <= AlignUp(v, 8)
         /\ AlignUp(v, 8) < v + 8
         /\ AlignUp(v, 8) % 8 = 0
         /\ \A w \in Nat : v <= w /\ w % 8 = 0 => AlignUp(v, 8) <= w
  BY DEF AlignUp

LEMMA RemoveAtProps ==
  ASSUME NEW S, NEW q \in Seq(S), Injective(q), NEW k \in DOMAIN q
  PROVE  /\ RemoveAt(q, k) \in Seq(S \ {q[k]})
         /\ Injective(RemoveAt(q, k))
         /\ ToSet(RemoveAt(q, k)) = ToSet(q) \ {q[k]}
<1> DEFINE r == RemoveAt(q, k)
           n == Len(q)
           head == SubSeq(q, 1, k - 1)
           tail == SubSeq(q, k + 1, n)
<1>1. k \in 1 .. n /\ n \in Nat /\ DOMAIN q = 1 .. n
  OBVIOUS
<1>2. /\ head \in Seq(S) /\ Len(head) = k - 1
      /\ \A i \in 1 .. k - 1 : head[i] = q[i]
  BY <1>1, SubSeqProperties
<1>3. /\ tail \in Seq(S) /\ Len(tail) = n - k
      /\ \A i \in 1 .. n - k : tail[i] = q[k + i]
  BY SMTT(60), <1>1
<1>4. /\ r \in Seq(S)
      /\ Len(r) = n - 1
      /\ DOMAIN r = 1 .. n - 1
      /\ \A i \in 1 .. n - 1 : r[i] = IF i < k THEN q[i] ELSE q[i + 1]
  <2>1. r = head \o tail
    BY DEF RemoveAt
  <2> HIDE DEF head, tail, r
  <2>0. /\ r \in Seq(S)
        /\ Len(r) = Len(head) + Len(tail)
        /\ \A i \in 1 .. Len(head) + Len(tail) :
             r[i] = IF i <= Len(head) THEN head[i] ELSE tail[i - Len(head)]
    BY SMTT(60), <1>2, <1>3, <2>1, ConcatProperties
  <2>2. /\ r \in Seq(S)
        /\ Len(r) = n - 1
        /\ \A i \in 1 .. n - 1 : r[i] = IF i <= k - 1 THEN head[i]
                                                 ELSE tail[i - (k - 1)]
    BY SMTT(60), <1>1, <1>2, <1>3, <2>0
  <2>3. ASSUME NEW i \in 1 .. n - 1
        PROVE  r[i] = IF i < k THEN q[i] ELSE q[i + 1]
    <3>1. CASE i <= k - 1
      BY <1>1, <1>2, <2>2, <3>1
    <3>2. CASE i > k - 1
      <4>1. i - (k - 1) \in 1 .. n - k /\ k + (i - (k - 1)) = i + 1
        BY <1>1, <3>2
      <4>2. tail[i - (k - 1)] = q[k + (i - (k - 1))]
        BY <4>1, <1>3
      <4>3. r[i] = tail[i - (k - 1)]
        BY <2>2, <3>2
      <4>. QED  BY <1>1, <3>2, <4>1, <4>2, <4>3
    <3>. QED  BY <1>1, <3>1, <3>2
  <2>. QED  BY <2>2, <2>3, <1>1
<1> HIDE DEF r, head, tail
<1>5. Injective(r) /\ \A i \in 1 .. n - 1 : r[i] \in S \ {q[k]}
  <2>1. ASSUME NEW i \in 1 .. n - 1
        PROVE  \E x \in 1 .. n : x # k /\ r[i] = q[x] /\ (i = IF x < k THEN x ELSE x - 1)
    <3>1. CASE i < k
      BY <3>1, <1>1, <1>4
    <3>2. CASE i >= k
      <4>1. i + 1 \in 1 .. n /\ i + 1 # k /\ r[i] = q[i + 1]
        BY <3>2, <1>1, <1>4
      <4>. QED  BY <4>1, <3>2, <1>1
    <3>. QED  BY <3>1, <3>2, <1>1
  <2>2. \A i \in 1 .. n - 1 : r[i] \in S \ {q[k]}
    BY <2>1, <1>1 DEF Injective
  <2>3. ASSUME NEW i \in 1 .. n - 1, NEW j \in 1 .. n - 1, r[i] = r[j]
        PROVE  i = j
    <3>1. PICK x \in 1 .. n : r[i] = q[x] /\ (i = IF x < k THEN x ELSE x - 1)
      BY <2>1
    <3>2. PICK y \in 1 .. n : r[j] = q[y] /\ (j = IF y < k THEN y ELSE y - 1)
      BY <2>1
    <3>3. x = y
      BY <3>1, <3>2, <2>3, <1>1 DEF Injective
    <3>. QED  BY <3>1, <3>2, <3>3
  <2>. QED  BY <2>2, <2>3, <1>4 DEF Injective
<1>6. ToSet(r) = ToSet(q) \ {q[k]}
  <2>1. ASSUME NEW x \in ToSet(q) \ {q[k]} PROVE x \in ToSet(r)
    <3>1. PICK i \in 1 .. n : q[i] = x /\ i # k
      BY <1>1 DEF ToSet
    <3>2. CASE i < k
      BY SMTT(60), <3>1, <3>2, <1>1, <1>4 DEF ToSet
    <3>3. CASE i > k
      <4>1. i - 1 \in 1 .. n - 1 /\ r[i - 1] = x
        BY <3>1, <3>3, <1>1, <1>4
      <4>. QED  BY <4>1, <1>4 DEF ToSet
    <3>. QED  BY <3>1, <3>2, <3>3, <1>1
  <2>2. ASSUME NEW x \in ToSet(r) PROVE x \in ToSet(q) \ {q[k]}
    <3>1. PICK i \in 1 .. n - 1 : r[i] = x
      BY <1>4 DEF ToSet
    <3>2. x # q[k]
      BY <3>1, <1>5
    <3>3. \E j \in 1 .. n : q[j] = x
      <4>1. CASE i < k
        BY <3>1, <4>1, <1>1, <1>4
      <4>2. CASE i >= k
        <5>1. i + 1 \in 1 .. n /\ r[i] = q[i + 1]
          BY <4>2, <1>1, <1>4
        <5>. QED  BY <3>1, <5>1
      <4>. QED  BY <4>1, <4>2, <1>1
    <3>. QED  BY <3>2, <3>3, <1>1 DEF ToSet
  <2>. QED  BY <2>1, <2>2
<1>7. r \in Seq(S \ {q[k]})
  BY <1>4, <1>5
<1>. QED  BY <1>5, <1>6, <1>7 DEF r

LEMMA ReplaceAtProps ==
  ASSUME NEW S, NEW q \in Seq(S), Injective(q), NEW k \in DOMAIN q,
         NEW t, t \notin S
  PROVE  /\ ReplaceAt(q, k, t) \in Seq(S \cup {t})
         /\ Injective(ReplaceAt(q, k, t))
         /\ ToSet(ReplaceAt(q, k, t)) = (ToSet(q) \ {q[k]}) \cup {t}
  BY DEF ReplaceAt, ToSet, Injective

LEMMA ReplaceInFree ==
  ASSUME free \in Seq(Heads), Injective(free), NEW k \in DOMAIN free,
         NEW t, t \notin Heads
  PROVE  /\ ReplaceAt(free, k, t) \in Seq(Heads \cup {t})
         /\ Injective(ReplaceAt(free, k, t))
         /\ ToSet(ReplaceAt(free, k, t)) = (ToSet(free) \ {free[k]}) \cup {t}
  BY ReplaceAtProps

LEMMA ConsProps ==
  ASSUME NEW S, NEW q \in Seq(S), Injective(q), NEW t, t \notin ToSet(q)
  PROVE  /\ Cons(t, q) \in Seq(S \cup {t})
         /\ Injective(Cons(t, q))
         /\ ToSet(Cons(t, q)) = ToSet(q) \cup {t}
<1> DEFINE r == Cons(t, q)
<1>1. /\ r \in Seq(S \cup {t})
      /\ Len(r) = Len(q) + 1
      /\ DOMAIN r = 1 .. Len(q) + 1
      /\ \A i \in 1 .. Len(q) + 1 : r[i] = IF i = 1 THEN t ELSE q[i - 1]
  BY DEF Cons
<1> HIDE DEF r
<1>2. ToSet(r) \subseteq ToSet(q) \cup {t}
  BY <1>1 DEF ToSet
<1>3. ASSUME NEW x \in ToSet(q) PROVE x \in ToSet(r)
  <2>1. PICK i \in 1 .. Len(q) : q[i] = x
    BY DEF ToSet
  <2>2. i + 1 \in DOMAIN r /\ r[i + 1] = x
    BY <1>1, <2>1
  <2>. QED  BY <2>2 DEF ToSet
<1>4. t \in ToSet(r)
  BY <1>1 DEF ToSet
<1>5. Injective(r)
  BY SMTT(60), <1>1 DEF Injective, ToSet
<1>. QED  BY <1>1, <1>2, <1>3, <1>4, <1>5 DEF r
-----------------------------------------------------------------------------
(***************************************************************************)
(* The inductive invariant: the stated ones, and that nothing exists       *)
(* before a region is installed.                                           *)
(***************************************************************************)
Boot ==
  /\ ~Installed => start = 0 /\ end = 0 /\ Heads = {} /\ live = {}
  /\ Installed => start > 0 /\ end % 8 = 0

IInv ==
  TypeOK /\ Boot /\ Tiled /\ BlocksAccounted /\ GrantsInside /\ NoAdjacentFree

(* What is known of one block. *)
LEMMA BlockFacts ==
  ASSUME IInv, NEW b \in Heads
  PROVE  /\ Installed
         /\ b \in Nat /\ b > 0 /\ b % 8 = 0 /\ start <= b
         /\ size[b] \in Nat /\ size[b] >= 32
         /\ BlockEnd(b) = b + size[b] /\ BlockEnd(b) \in Nat
         /\ b + 32 <= BlockEnd(b) /\ b < BlockEnd(b)
         /\ BlockEnd(b) % 8 = 0 /\ BlockEnd(b) <= end
         /\ BlockEnd(b) = end \/ BlockEnd(b) \in Heads
<1>1. Installed
  BY DEF IInv, Boot
<1>2. b \in Nat /\ b > 0 /\ size[b] \in Nat
  BY DEF IInv, TypeOK
<1>3. /\ b % 8 = 0 /\ start <= b /\ size[b] >= 32 /\ BlockEnd(b) <= end
      /\ BlockEnd(b) = end \/ BlockEnd(b) \in Heads
  BY <1>1 DEF IInv, Tiled, HEADER_SIZE, HEADER_GAP
<1>4. BlockEnd(b) = b + size[b] /\ BlockEnd(b) \in Nat
  BY <1>2 DEF BlockEnd
<1>5. BlockEnd(b) % 8 = 0
  BY <1>1, <1>3 DEF IInv, Boot, Tiled
<1>6. b + 32 <= BlockEnd(b) /\ b < BlockEnd(b)
  BY <1>2, <1>3, <1>4
<1>. QED  BY <1>1, <1>2, <1>3, <1>4, <1>5, <1>6

(* Blocks come one after another. *)
LEMMA BlocksOrdered ==
  ASSUME IInv, NEW b \in Heads, NEW c \in Heads, b < c
  PROVE  BlockEnd(b) <= c
  BY BlockFacts DEF IInv, Tiled

(* No address lies in two blocks. *)
LEMMA BlocksDisjoint ==
  ASSUME IInv, NEW b \in Heads, NEW c \in Heads, NEW x \in Nat,
         b <= x, x < BlockEnd(b), c <= x, x < BlockEnd(c)
  PROVE  b = c
<1>1. b \in Nat /\ c \in Nat /\ BlockEnd(b) \in Nat /\ BlockEnd(c) \in Nat
  BY BlockFacts
<1>2. b < c => BlockEnd(b) <= c
  BY BlocksOrdered
<1>3. c < b => BlockEnd(c) <= b
  BY BlocksOrdered
<1>. QED  BY <1>1, <1>2, <1>3

(* What is known of one grant. *)
LEMMA GrantFacts ==
  ASSUME IInv, NEW g \in live
  PROVE  /\ GrantBlock(g) \in Heads \ FreeSet
         /\ g.ptr \in Nat \ {0} /\ g.size \in Nat /\ g.align \in Nat \ {0}
         /\ pad[g.ptr] \in Nat
         /\ GrantBlock(g) = g.ptr - 24 - pad[g.ptr]
         /\ GrantBlock(g) + 32 <= g.ptr
         /\ g.ptr + Max1(g.size) <= BlockEnd(GrantBlock(g))
         /\ g.ptr < BlockEnd(GrantBlock(g))
         /\ g.ptr % g.align = 0
<1>1. GrantBlock(g) \in Heads \ FreeSet
  BY DEF IInv, BlocksAccounted
<1>2. g.ptr \in Nat \ {0} /\ g.size \in Nat /\ g.align \in Nat \ {0}
  BY DEF IInv, TypeOK
<1>3. pad[g.ptr] \in Nat
  BY DEF IInv, TypeOK
<1>4. GrantBlock(g) = g.ptr - 24 - pad[g.ptr]
  BY DEF GrantBlock, BlockOf, HEADER_SIZE
<1>5. GrantBlock(g) \in Nat /\ BlockEnd(GrantBlock(g)) \in Nat
  BY <1>1, BlockFacts
<1>6. /\ GrantBlock(g) + HEADER_SIZE + HEADER_GAP <= g.ptr
      /\ g.ptr + Max1(g.size) <= BlockEnd(GrantBlock(g))
      /\ g.ptr % g.align = 0
  BY DEF IInv, GrantsInside
<1>7. GrantBlock(g) + 32 <= g.ptr
  BY <1>5, <1>6 DEF HEADER_SIZE, HEADER_GAP
<1>8. g.ptr < BlockEnd(GrantBlock(g))
  BY <1>2, <1>5, <1>6 DEF Max1
<1>. QED  BY <1>1, <1>2, <1>3, <1>4, <1>6, <1>7, <1>8

(* Two grants never have one address. *)
LEMMA PtrsDistinct ==
  ASSUME IInv, NEW g \in live, NEW h \in live, g.ptr = h.ptr
  PROVE  g = h
  BY DEF IInv, BlocksAccounted, GrantBlock

(* What is known of one block on the free list. *)
LEMMA FreeBlock ==
  ASSUME IInv, NEW k \in DOMAIN free
  PROVE  free[k] \in FreeSet /\ free[k] \in Heads
  BY DEF IInv, TypeOK, FreeSet, ToSet

(* Where a request lands in a free block that fits it. *)
LEMMA Landing ==
  ASSUME NEW b \in Nat, b % 8 = 0, NEW n \in Nat, NEW a \in Nat \ {0}
  PROVE  /\ PayloadOf(b, a) \in Nat
         /\ b + 32 <= PayloadOf(b, a)
         /\ PayloadOf(b, a) % a = 0
         /\ NeedEnd(b, n, a) \in Nat
         /\ PayloadOf(b, a) < NeedEnd(b, n, a)
         /\ TailAddr(b, n, a) \in Nat
         /\ TailAddr(b, n, a) % 8 = 0
         /\ NeedEnd(b, n, a) <= TailAddr(b, n, a)
         /\ TailAddr(b, n, a) >= b + 40
<1>1. b + HEADER_SIZE + HEADER_GAP \in Nat
  BY DEF HEADER_SIZE, HEADER_GAP
<1>2. /\ PayloadOf(b, a) \in Nat
      /\ b + 32 <= PayloadOf(b, a)
      /\ PayloadOf(b, a) % a = 0
  BY <1>1, AlignUpBounds, AlignUpAligned DEF PayloadOf, HEADER_SIZE, HEADER_GAP
<1>3. NeedEnd(b, n, a) \in Nat /\ PayloadOf(b, a) < NeedEnd(b, n, a)
  BY <1>2 DEF NeedEnd, Max1
<1>4. /\ TailAddr(b, n, a) \in Nat
      /\ TailAddr(b, n, a) % 8 = 0
      /\ NeedEnd(b, n, a) <= TailAddr(b, n, a)
  BY <1>3, AlignUp8 DEF TailAddr
<1>5. TailAddr(b, n, a) >= b + 40
  BY <1>2, <1>3, <1>4
<1>. QED  BY <1>2, <1>3, <1>4, <1>5

(* A payload cut from a free block is nobody else's. *)
LEMMA FreshPtr ==
  ASSUME IInv, NEW b \in FreeSet, NEW n \in Nat, NEW a \in Nat \ {0}, Fits(b, n, a)
  PROVE  /\ b \in Nat /\ b + 32 <= PayloadOf(b, a) /\ PayloadOf(b, a) \in Nat
         /\ \A g \in live : g.ptr # PayloadOf(b, a)
<1> DEFINE p == PayloadOf(b, a)
<1>0. b \in Heads
  BY DEF IInv, TypeOK, FreeSet, ToSet
<1>1. b \in Nat /\ b % 8 = 0 /\ BlockEnd(b) \in Nat
  BY <1>0, BlockFacts
<1>2. /\ p \in Nat /\ b + 32 <= p
      /\ p < NeedEnd(b, n, a) /\ NeedEnd(b, n, a) \in Nat
  BY <1>1, Landing
<1>3. p < BlockEnd(b)
  BY <1>1, <1>2 DEF Fits
<1>4. ASSUME NEW g \in live PROVE g.ptr # p
  <2> SUFFICES ASSUME g.ptr = p PROVE FALSE
    OBVIOUS
  <2>1. /\ GrantBlock(g) \in Heads \ FreeSet /\ GrantBlock(g) \in Nat
        /\ GrantBlock(g) + 32 <= p /\ p < BlockEnd(GrantBlock(g))
    BY GrantFacts, BlockFacts
  <2>2. GrantBlock(g) <= p /\ b <= p
    BY <1>1, <1>2, <2>1
  <2>3. GrantBlock(g) = b
    BY <1>0, <1>1, <1>2, <1>3, <2>1, <2>2, BlocksDisjoint
  <2>. QED  BY <2>1, <2>3
<1>. QED  BY <1>1, <1>2, <1>4

(* What Hand does to the grants: the old ones keep their blocks. *)
LEMMA HandProps ==
  ASSUME IInv, NEW k \in DOMAIN free, NEW n \in Nat, NEW a \in Nat \ {0},
         NEW b, b = free[k], Fits(b, n, a), Hand(b, n, a),
         NEW g0, g0 = [ptr |-> PayloadOf(b, a), size |-> n, align |-> a]
  PROVE  /\ live' = live \cup {g0}
         /\ g0 \in [ptr : Nat \ {0}, size : Nat, align : Nat \ {0}]
         /\ pad' \in [{g.ptr : g \in live'} -> Nat]
         /\ reply' \in Nat \cup {Nothing}
         /\ g0.ptr - HEADER_SIZE - pad'[g0.ptr] = b
         /\ \A g \in live : /\ g.ptr # g0.ptr
                             /\ pad'[g.ptr] = pad[g.ptr]
<1> DEFINE p == PayloadOf(b, a)
<1>1. b \in FreeSet
  BY FreeBlock
<1>2. b \in Nat /\ p \in Nat /\ b + 32 <= p
  BY <1>1, FreshPtr
<1>4. \A g \in live : g.ptr # p
  BY <1>1, FreshPtr
<1>5. g0.ptr = p /\ live' = live \cup {g0} /\ reply' \in Nat \cup {Nothing}
  BY <1>2 DEF Hand
<1>6. g0 \in [ptr : Nat \ {0}, size : Nat, align : Nat \ {0}]
  BY <1>1, <1>2 DEF HEADER_SIZE, HEADER_GAP
<1>7. /\ pad' = [x \in DOMAIN pad \cup {p} |->
                   IF x = p THEN p - (b + HEADER_SIZE) ELSE pad[x]]
      /\ DOMAIN pad = {g.ptr : g \in live}
      /\ \A g \in live : pad[g.ptr] \in Nat
  BY DEF Hand, IInv, TypeOK
<1>8. p - (b + HEADER_SIZE) \in Nat
  BY <1>1, <1>2 DEF HEADER_SIZE, HEADER_GAP
<1>9. {g.ptr : g \in live'} = DOMAIN pad \cup {p}
  BY <1>5, <1>7
<1>10. pad' \in [{g.ptr : g \in live'} -> Nat]
  BY <1>7, <1>8, <1>9
<1>11. g0.ptr - HEADER_SIZE - pad'[g0.ptr] = b
  BY <1>1, <1>2, <1>5, <1>7 DEF HEADER_SIZE, HEADER_GAP
<1>12. \A g \in live : pad'[g.ptr] = pad[g.ptr]
  BY <1>4, <1>7
<1>. QED  BY <1>4, <1>5, <1>6, <1>10, <1>11, <1>12
-----------------------------------------------------------------------------
(* alloc with a split: the block keeps its front, the tail stays free. *)
LEMMA CarveStep ==
  ASSUME IInv, NEW n \in Nat, NEW a \in Nat \ {0}, NEW k \in DOMAIN free,
         NEW b, b = free[k],
         NEW t, t = TailAddr(b, n, a),
         NEW e, e = BlockEnd(b),
         NEW g0, g0 = [ptr |-> PayloadOf(b, a), size |-> n, align |-> a],
         Fits(b, n, a), Splits(b, n, a), CarveTail(k, t), Hand(b, n, a),
         UNCHANGED <<start, end, region>>
  PROVE  IInv'
<1>1. /\ b \in FreeSet /\ b \in Heads /\ b \in Nat /\ b > 0 /\ b % 8 = 0
      /\ Installed /\ start <= b /\ size[b] \in Nat /\ e = b + size[b]
      /\ e \in Nat /\ e % 8 = 0 /\ e <= end /\ (e = end \/ e \in Heads)
  BY FreeBlock, BlockFacts
<1>2. /\ t \in Nat /\ t % 8 = 0 /\ b + 40 <= t /\ t + 48 <= e
      /\ PayloadOf(b, a) \in Nat /\ PayloadOf(b, a) % a = 0
      /\ b + 32 <= PayloadOf(b, a) /\ PayloadOf(b, a) + Max1(n) <= t
  <2>1. /\ PayloadOf(b, a) \in Nat /\ PayloadOf(b, a) % a = 0
        /\ b + 32 <= PayloadOf(b, a)
        /\ NeedEnd(b, n, a) \in Nat /\ NeedEnd(b, n, a) <= t
        /\ t \in Nat /\ t % 8 = 0 /\ b + 40 <= t
    <3>1. b \in Nat /\ b % 8 = 0 /\ n \in Nat /\ a \in Nat \ {0} /\ t = TailAddr(b, n, a)
      BY <1>1
    <3>. QED  BY ONLY ZenonT(60), <3>1, Landing
  <2>2. NeedEnd(b, n, a) = PayloadOf(b, a) + Max1(n)
    BY DEF NeedEnd
  <2>3. t + 48 <= e
    BY <1>1, <2>1 DEF Splits, HEADER_SIZE, MIN_BLOCK
  <2>. QED  BY <2>1, <2>2, <2>3
<1>3. ASSUME NEW c \in Heads PROVE c \in Nat /\ (c <= b \/ e <= c)
  BY <1>1, BlockFacts, BlocksOrdered
<1>4. t \notin Heads
  BY <1>1, <1>2, <1>3
<1>5. /\ Heads' = Heads \cup {t}
      /\ size'[b] = t - b /\ size'[t] = e - t
      /\ \A x \in Heads \ {b} : size'[x] = size[x]
      /\ size' \in [Heads \cup {t} -> Nat]
  <2>1. size' = [x \in Heads \cup {t} |-> IF x = b THEN t - b
                                     ELSE IF x = t THEN e - t ELSE size[x]]
    BY DEF CarveTail
  <2>2. \A x \in Heads : size[x] \in Nat
    BY BlockFacts
  <2>3. t - b \in Nat /\ e - t \in Nat /\ b # t
    BY <1>1, <1>2
  <2>. QED  BY <2>1, <2>2, <2>3, <1>1, <1>4 DEF Heads
<1>6. /\ BlockEnd(b)' = t /\ BlockEnd(t)' = e
      /\ \A x \in Heads \ {b} : BlockEnd(x)' = BlockEnd(x)
  <2>. QED  BY <1>1, <1>2, <1>5 DEF BlockEnd
<1>7. /\ free' \in Seq(Heads \cup {t}) /\ Injective(free')
      /\ FreeSet' = (FreeSet \ {b}) \cup {t}
  <2>1. free \in Seq(Heads) /\ Injective(free)
    BY DEF IInv, TypeOK, BlocksAccounted, Injective
  <2>2. free' = ReplaceAt(free, k, t)
    BY DEF CarveTail
  <2>3. /\ ReplaceAt(free, k, t) \in Seq(Heads \cup {t})
        /\ Injective(ReplaceAt(free, k, t))
        /\ ToSet(ReplaceAt(free, k, t)) = (ToSet(free) \ {free[k]}) \cup {t}
    BY <1>4, <2>1, ReplaceInFree
  <2>. QED  BY <2>2, <2>3 DEF FreeSet
<1>8. /\ live' = live \cup {g0}
      /\ g0 \in [ptr : Nat \ {0}, size : Nat, align : Nat \ {0}]
      /\ pad' \in [{g.ptr : g \in live'} -> Nat]
      /\ reply' \in Nat \cup {Nothing}
      /\ g0.ptr - HEADER_SIZE - pad'[g0.ptr] = b
      /\ \A g \in live : g.ptr # g0.ptr /\ pad'[g.ptr] = pad[g.ptr]
  BY HandProps
<1>9. /\ GrantBlock(g0)' = b
      /\ \A g \in live : GrantBlock(g)' = GrantBlock(g)
  BY <1>8 DEF GrantBlock, BlockOf
<1>10. /\ start' = start /\ end' = end /\ region' = region /\ Installed'
       /\ start \in Nat /\ end \in Nat
  BY <1>1 DEF Installed, IInv, TypeOK
<1>11. \A g \in live : /\ GrantBlock(g) \in Heads \ FreeSet
                       /\ GrantBlock(g) # b /\ GrantBlock(g) # t
  BY <1>1, <1>4, GrantFacts
<1>12. TypeOK'
  <2>1. size' \in [Heads' -> Nat] /\ Heads' \subseteq Nat \ {0}
    <3>1. Heads \subseteq Nat \ {0}
      BY DEF IInv, TypeOK
    <3>2. t \in Nat \ {0}
      BY <1>1, <1>2
    <3>. QED  BY <1>5, <3>1, <3>2
  <2>2. live' \subseteq [ptr : Nat \ {0}, size : Nat, align : Nat \ {0}]
    BY <1>8 DEF IInv, TypeOK
  <2>. QED
    BY <1>5, <1>7, <1>8, <1>10, <2>1, <2>2 DEF IInv, TypeOK
<1>13. Boot'
  BY <1>10 DEF IInv, Boot, Installed
<1>14. Tiled'
  <2>1. start' \in Heads'
    BY <1>1, <1>5, <1>10 DEF IInv, Tiled
  <2>2. ASSUME NEW x \in Heads'
        PROVE  /\ x % 8 = 0
               /\ start' <= x
               /\ size'[x] >= HEADER_SIZE + HEADER_GAP
               /\ BlockEnd(x)' = end' \/ BlockEnd(x)' \in Heads'
               /\ BlockEnd(x)' <= end'
    <3>1. CASE x = b
      BY <3>1, <1>1, <1>2, <1>5, <1>6, <1>10 DEF HEADER_SIZE, HEADER_GAP
    <3>2. CASE x = t
      BY <3>2, <1>1, <1>2, <1>5, <1>6, <1>10 DEF HEADER_SIZE, HEADER_GAP
    <3>3. CASE x # b /\ x # t
      <4>1. x \in Heads /\ size'[x] = size[x] /\ BlockEnd(x)' = BlockEnd(x)
        BY <3>3, <1>5, <1>6
      <4>. QED
        BY <4>1, <1>5, <1>10, BlockFacts DEF HEADER_SIZE, HEADER_GAP
    <3>. QED  BY <3>1, <3>2, <3>3
  <2>3. ASSUME NEW x \in Heads', NEW y \in Heads', x < y
        PROVE  BlockEnd(x)' <= y
    <3>1. ASSUME x \in Heads, x # b, y = t PROVE BlockEnd(x) <= t
      BY <3>1, <2>3, <1>1, <1>2, <1>3, BlockFacts, BlocksOrdered
    <3>2. ASSUME x = t, y \in Heads PROVE e <= y
      BY <3>2, <2>3, <1>1, <1>2, <1>3, BlockFacts
    <3>3. ASSUME x = b, y \in Heads PROVE t <= y
      BY <3>3, <2>3, <1>1, <1>2, <1>3, BlockFacts
    <3>4. ASSUME x \in Heads, y \in Heads PROVE BlockEnd(x) <= y
      BY <3>4, <2>3, BlocksOrdered
    <3>. QED
      BY <2>3, <3>1, <3>2, <3>3, <3>4, <1>2, <1>5, <1>6
  <2>. QED  BY <2>1, <2>2, <2>3 DEF Tiled
<1>15. BlocksAccounted'
  <2>1. \A i, j \in DOMAIN free' : free'[i] = free'[j] => i = j
    BY <1>7 DEF Injective
  <2>2. ASSUME NEW g \in live' PROVE GrantBlock(g)' \in Heads' \ FreeSet'
    <3>1. CASE g \in live
      BY <3>1, <1>5, <1>7, <1>9, <1>11
    <3>2. CASE g = g0
      BY SMTT(60), <3>2, <1>1, <1>2, <1>5, <1>7, <1>9
    <3>. QED  BY <3>1, <3>2, <1>8
  <2>3. ASSUME NEW g \in live', NEW h \in live', GrantBlock(g)' = GrantBlock(h)'
        PROVE  g = h
    BY <2>3, <1>8, <1>9, <1>11 DEF IInv, BlocksAccounted
  <2>4. ASSUME NEW x \in Heads' \ FreeSet' PROVE \E g \in live' : GrantBlock(g)' = x
    <3>1. CASE x = b
      BY <3>1, <1>8, <1>9
    <3>2. CASE x # b
      <4>1. x \in Heads \ FreeSet
        BY <3>2, <1>5, <1>7
      <4>2. PICK g \in live : GrantBlock(g) = x
        BY <4>1 DEF IInv, BlocksAccounted
      <4>. QED  BY <4>2, <1>8, <1>9
    <3>. QED  BY <3>1, <3>2
  <2>. QED  BY <2>1, <2>2, <2>3, <2>4 DEF BlocksAccounted
<1>16. GrantsInside'
  <2>1. ASSUME NEW g \in live
        PROVE  /\ GrantBlock(g)' + HEADER_SIZE + HEADER_GAP <= g.ptr
               /\ g.ptr + Max1(g.size) <= BlockEnd(GrantBlock(g))'
               /\ g.ptr % g.align = 0
    <3>1. BlockEnd(GrantBlock(g))' = BlockEnd(GrantBlock(g))
      BY <1>5, <1>9, <1>11 DEF BlockEnd
    <3>. QED  BY <3>1, <1>9 DEF IInv, GrantsInside
  <2>2. /\ GrantBlock(g0)' + HEADER_SIZE + HEADER_GAP <= g0.ptr
        /\ g0.ptr + Max1(g0.size) <= BlockEnd(GrantBlock(g0))'
        /\ g0.ptr % g0.align = 0
    <3>1. BlockEnd(GrantBlock(g0))' = t
      BY <1>1, <1>2, <1>5, <1>9 DEF BlockEnd
    <3>. QED  BY <3>1, <1>1, <1>2, <1>9 DEF HEADER_SIZE, HEADER_GAP
  <2>. QED  BY <2>1, <2>2, <1>8, <1>9 DEF GrantsInside
<1>17. NoAdjacentFree'
  <2>1. ASSUME NEW x \in FreeSet \ {b} PROVE BlockEnd(x)' \notin FreeSet'
    <3>1. x \in Heads
      BY DEF IInv, TypeOK, FreeSet, ToSet
    <3>2. BlockEnd(x) \notin FreeSet /\ BlockEnd(x)' = BlockEnd(x)
      BY <3>1, <1>6 DEF IInv, NoAdjacentFree
    <3>3. BlockEnd(x) # t
      BY <3>1, <1>1, <1>2, <1>3, BlockFacts, BlocksOrdered
    <3>. QED  BY <3>2, <3>3, <1>7
  <2>2. BlockEnd(t)' \notin FreeSet'
    <3>1. e \notin FreeSet
      BY <1>1 DEF IInv, NoAdjacentFree
    <3>2. e # t
      BY <1>1, <1>2
    <3>. QED  BY <3>1, <3>2, <1>6, <1>7
  <2>. QED  BY <2>1, <2>2, <1>7 DEF NoAdjacentFree
<1>. QED  BY <1>12, <1>13, <1>14, <1>15, <1>16, <1>17 DEF IInv

(* alloc without a split: the whole block is handed out. *)
LEMMA TakeStep ==
  ASSUME IInv, NEW n \in Nat, NEW a \in Nat \ {0}, NEW k \in DOMAIN free,
         NEW b, b = free[k],
         NEW g0, g0 = [ptr |-> PayloadOf(b, a), size |-> n, align |-> a],
         Fits(b, n, a), TakeWhole(k), Hand(b, n, a),
         UNCHANGED <<start, end, region>>
  PROVE  IInv'
<1>1. /\ b \in FreeSet /\ b \in Heads /\ b \in Nat /\ b % 8 = 0
      /\ Installed /\ BlockEnd(b) \in Nat
  BY FreeBlock, BlockFacts
<1>2. /\ PayloadOf(b, a) \in Nat /\ PayloadOf(b, a) % a = 0
      /\ b + 32 <= PayloadOf(b, a)
      /\ PayloadOf(b, a) + Max1(n) <= BlockEnd(b)
  BY ZenonT(60), <1>1, Landing DEF Fits, NeedEnd
<1>3. /\ Heads' = Heads /\ size' = size
      /\ \A x \in Heads : BlockEnd(x)' = BlockEnd(x)
  BY DEF TakeWhole, Heads, BlockEnd
<1>4. /\ free' \in Seq(Heads \ {b}) /\ Injective(free')
      /\ FreeSet' = FreeSet \ {b}
  <2>1. free \in Seq(Heads) /\ Injective(free)
    BY DEF IInv, TypeOK, BlocksAccounted, Injective
  <2>2. free' = RemoveAt(free, k)
    BY DEF TakeWhole
  <2>. QED  BY <2>1, <2>2, RemoveAtProps DEF FreeSet
<1>5. /\ live' = live \cup {g0}
      /\ g0 \in [ptr : Nat \ {0}, size : Nat, align : Nat \ {0}]
      /\ pad' \in [{g.ptr : g \in live'} -> Nat]
      /\ reply' \in Nat \cup {Nothing}
      /\ g0.ptr - HEADER_SIZE - pad'[g0.ptr] = b
      /\ \A g \in live : g.ptr # g0.ptr /\ pad'[g.ptr] = pad[g.ptr]
  BY HandProps
<1>6. /\ GrantBlock(g0)' = b
      /\ \A g \in live : GrantBlock(g)' = GrantBlock(g)
  BY <1>5 DEF GrantBlock, BlockOf
<1>7. start' = start /\ end' = end /\ region' = region
  OBVIOUS
<1>8. \A g \in live : GrantBlock(g) \in Heads \ FreeSet /\ GrantBlock(g) # b
  BY <1>1, GrantFacts
<1>9. TypeOK'
  <2>1. live' \subseteq [ptr : Nat \ {0}, size : Nat, align : Nat \ {0}]
    BY <1>5 DEF IInv, TypeOK
  <2>2. free' \in Seq(Heads')
    <3>1. Heads \ {b} \subseteq Heads'
      BY <1>3
    <3>2. Seq(Heads \ {b}) \subseteq Seq(Heads')
      BY <3>1
    <3>. QED  BY <3>2, <1>4
  <2>. QED
    BY <1>3, <1>5, <1>7, <2>1, <2>2 DEF IInv, TypeOK
<1>10. Boot'
  BY <1>1, <1>7 DEF IInv, Boot, Installed
<1>11. Tiled'
  BY <1>3, <1>7 DEF IInv, Tiled, Installed, BlockEnd
<1>12. BlocksAccounted'
  <2>1. \A i, j \in DOMAIN free' : free'[i] = free'[j] => i = j
    BY <1>4 DEF Injective
  <2>2. ASSUME NEW g \in live' PROVE GrantBlock(g)' \in Heads' \ FreeSet'
    BY <1>1, <1>3, <1>4, <1>5, <1>6, <1>8
  <2>3. ASSUME NEW g \in live', NEW h \in live', GrantBlock(g)' = GrantBlock(h)'
        PROVE  g = h
    BY <2>3, <1>5, <1>6, <1>8 DEF IInv, BlocksAccounted
  <2>4. ASSUME NEW x \in Heads' \ FreeSet' PROVE \E g \in live' : GrantBlock(g)' = x
    <3>1. CASE x = b
      BY <3>1, <1>5, <1>6
    <3>2. CASE x # b
      <4>1. PICK g \in live : GrantBlock(g) = x
        BY <3>2, <1>3, <1>4 DEF IInv, BlocksAccounted
      <4>. QED  BY <4>1, <1>5, <1>6
    <3>. QED  BY <3>1, <3>2
  <2>. QED  BY <2>1, <2>2, <2>3, <2>4 DEF BlocksAccounted
<1>13. GrantsInside'
  <2>1. ASSUME NEW g \in live
        PROVE  /\ GrantBlock(g)' + HEADER_SIZE + HEADER_GAP <= g.ptr
               /\ g.ptr + Max1(g.size) <= BlockEnd(GrantBlock(g))'
               /\ g.ptr % g.align = 0
    <3>1. BlockEnd(GrantBlock(g))' = BlockEnd(GrantBlock(g))
      BY <1>3, <1>6 DEF BlockEnd
    <3>. QED  BY <3>1, <1>6 DEF IInv, GrantsInside
  <2>2. /\ GrantBlock(g0)' + HEADER_SIZE + HEADER_GAP <= g0.ptr
        /\ g0.ptr + Max1(g0.size) <= BlockEnd(GrantBlock(g0))'
        /\ g0.ptr % g0.align = 0
    <3>1. BlockEnd(GrantBlock(g0))' = BlockEnd(b)
      BY <1>3, <1>6 DEF BlockEnd
    <3>. QED  BY <3>1, <1>1, <1>2, <1>6 DEF HEADER_SIZE, HEADER_GAP
  <2>. QED  BY <2>1, <2>2, <1>5 DEF GrantsInside
<1>14. NoAdjacentFree'
  <2>1. FreeSet \subseteq Heads
    BY DEF IInv, TypeOK, FreeSet, ToSet
  <2>. QED  BY <2>1, <1>3, <1>4 DEF IInv, NoAdjacentFree
<1>. QED  BY <1>9, <1>10, <1>11, <1>12, <1>13, <1>14 DEF IInv
-----------------------------------------------------------------------------
(* dealloc finds the block of a grant again: its checks never fail. *)
LEMMA AlwaysRecovers ==
  ASSUME IInv, NEW g \in live
  PROVE  Recovers(g.ptr)
<1>1. /\ GrantBlock(g) \in Heads /\ GrantBlock(g) = BlockOf(g.ptr)
      /\ g.ptr \in Nat /\ GrantBlock(g) + 32 <= g.ptr
      /\ g.ptr < BlockEnd(GrantBlock(g))
  BY GrantFacts DEF GrantBlock
<1>2. /\ GrantBlock(g) \in Nat /\ start <= GrantBlock(g)
      /\ BlockEnd(GrantBlock(g)) \in Nat /\ BlockEnd(GrantBlock(g)) <= end
  BY <1>1, BlockFacts
<1>3. start \in Nat /\ end \in Nat
  BY DEF IInv, TypeOK
<1>. QED  BY <1>1, <1>2, <1>3 DEF Recovers, HEADER_SIZE

(***************************************************************************)
(* dealloc, whichever neighbours it finds: the blocks gone disappear into  *)
(* the block m, which now ends at e; the others stay as they are.          *)
(***************************************************************************)
Merges(b, gone, m, e) ==
  /\ gone \in SUBSET Heads /\ m \in Heads \ gone /\ e \in Nat
  /\ b \in gone \cup {m} /\ (gone \cup {m}) \ {b} \subseteq FreeSet
  /\ BlockEnd(m) <= e /\ e <= end /\ e % 8 = 0
  /\ e = end \/ e \in Heads \ gone
  /\ \A d \in gone : m < d /\ BlockEnd(d) <= e
  /\ \A c \in Heads \ gone : m < c => e <= c
  /\ e \notin FreeSet
  /\ \A f \in FreeSet \ (gone \cup {m}) : BlockEnd(f) # m
  /\ size' = [x \in Heads \ gone |-> IF x = m THEN e - m ELSE size[x]]
  /\ free' \in Seq(Heads \ gone) /\ Injective(free')
  /\ FreeSet' = (FreeSet \ gone) \cup {m}

Returns(g0) ==
  /\ live' = live \ {g0}
  /\ pad' = [p \in DOMAIN pad \ {g0.ptr} |-> pad[p]]
  /\ reply' = Nothing
  /\ UNCHANGED <<start, end, region>>

LEMMA MergeStep ==
  ASSUME IInv, NEW g0 \in live, NEW b, b = GrantBlock(g0),
         NEW gone, NEW m, NEW e, Merges(b, gone, m, e), Returns(g0)
  PROVE  IInv'
<1>. USE DEF Merges, Returns
<1>1. /\ Installed /\ m \in Heads /\ m \in Nat /\ m > 0 /\ m % 8 = 0 /\ start <= m
      /\ BlockEnd(m) \in Nat /\ m + 32 <= BlockEnd(m)
      /\ start \in Nat /\ end \in Nat
      /\ b \in Heads \ FreeSet
  <2>1. b \in Heads \ FreeSet
    BY GrantFacts
  <2>2. start \in Nat /\ end \in Nat
    BY DEF IInv, TypeOK
  <2>3. m \in Heads
    OBVIOUS
  <2>. QED  BY <2>1, <2>2, <2>3, BlockFacts
<1>2. /\ Heads' = Heads \ gone
      /\ size'[m] = e - m /\ e - m \in Nat
      /\ \A x \in Heads \ gone : x # m => size'[x] = size[x]
  BY SMTT(60), <1>1 DEF Heads
<1>3. /\ BlockEnd(m)' = e
      /\ \A x \in Heads \ gone : x # m => BlockEnd(x)' = BlockEnd(x)
  BY <1>1, <1>2 DEF BlockEnd
<1>4. ASSUME NEW x \in Heads \ gone, x # m PROVE BlockEnd(x) \notin gone
  <2> SUFFICES ASSUME NEW d \in gone, BlockEnd(x) = d PROVE FALSE
    OBVIOUS
  <2>1. /\ x \in Nat /\ d \in Nat /\ x < d
        /\ d < BlockEnd(d) /\ BlockEnd(d) \in Nat
    <3>1. ASSUME NEW y \in Heads
          PROVE  y \in Nat /\ BlockEnd(y) \in Nat /\ y < BlockEnd(y)
      BY BlockFacts
    <3>. QED  BY <3>1
  <2>2. x < m => BlockEnd(x) <= m
    BY BlocksOrdered
  <2>3. m < d /\ BlockEnd(d) <= e
    OBVIOUS
  <2>4. x < m \/ m < x
    BY <1>1, <1>4, <2>1
  <2>5. m < x => e <= x
    OBVIOUS
  <2>. QED  BY SMTT(60), <1>1, <2>1, <2>2, <2>3, <2>4, <2>5
<1>5. start' = start /\ end' = end /\ region' = region /\ Installed'
  BY <1>1 DEF Installed
<1>6. ASSUME NEW g \in live'
      PROVE  /\ g \in live /\ g # g0 /\ pad'[g.ptr] = pad[g.ptr]
             /\ GrantBlock(g)' = GrantBlock(g)
             /\ GrantBlock(g) \in Heads \ FreeSet /\ GrantBlock(g) # b
             /\ GrantBlock(g) \notin gone /\ GrantBlock(g) # m
  <2>1. g \in live /\ g # g0 /\ g.ptr # g0.ptr
    BY PtrsDistinct
  <2>2. g.ptr \in DOMAIN pad
    BY SMTT(60), <2>1 DEF IInv, TypeOK
  <2>3. pad'[g.ptr] = pad[g.ptr]
    BY <2>1, <2>2
  <2>4. GrantBlock(g)' = GrantBlock(g)
    BY <2>3 DEF GrantBlock, BlockOf
  <2>5. GrantBlock(g) \in Heads \ FreeSet /\ GrantBlock(g) # b
    BY <2>1 DEF IInv, BlocksAccounted
  <2>. QED  BY <2>1, <2>3, <2>4, <2>5
<1>7. TypeOK'
  <2>1. size' \in [Heads' -> Nat] /\ Heads' \subseteq Nat \ {0}
    <3>1. Heads \subseteq Nat \ {0} /\ \A x \in Heads : size[x] \in Nat
      BY DEF IInv, TypeOK
    <3>. QED  BY <1>2, <3>1
  <2>2. live' \subseteq [ptr : Nat \ {0}, size : Nat, align : Nat \ {0}]
    BY DEF IInv, TypeOK
  <2>3. pad' \in [{g.ptr : g \in live'} -> Nat]
    <3>1. pad \in [{g.ptr : g \in live} -> Nat]
      BY DEF IInv, TypeOK
    <3>2. {g.ptr : g \in live'} = DOMAIN pad \ {g0.ptr}
      BY <3>1, PtrsDistinct
    <3>. QED  BY <3>1, <3>2
  <2>. QED
    BY <1>2, <1>5, <2>1, <2>2, <2>3 DEF IInv, TypeOK
<1>8. Boot'
  BY <1>1, <1>5 DEF IInv, Boot
<1>9. Tiled'
  <2>1. start' \in Heads'
    <3>1. start \in Heads
      BY <1>1 DEF IInv, Tiled
    <3>2. start \notin gone
      BY <1>1
    <3>. QED  BY <3>1, <3>2, <1>2, <1>5
  <2>2. ASSUME NEW x \in Heads'
        PROVE  /\ x % 8 = 0
               /\ start' <= x
               /\ size'[x] >= HEADER_SIZE + HEADER_GAP
               /\ BlockEnd(x)' = end' \/ BlockEnd(x)' \in Heads'
               /\ BlockEnd(x)' <= end'
    <3>1. CASE x = m
      BY SMTT(60), <3>1, <1>1, <1>2, <1>3, <1>5 DEF HEADER_SIZE, HEADER_GAP
    <3>2. CASE x # m
      <4>1. /\ x \in Heads \ gone /\ size'[x] = size[x]
            /\ BlockEnd(x)' = BlockEnd(x)
        BY <3>2, <1>2, <1>3
      <4>. QED
        BY <3>2, <4>1, <1>2, <1>4, <1>5, BlockFacts DEF HEADER_SIZE, HEADER_GAP
    <3>. QED  BY <3>1, <3>2
  <2>3. ASSUME NEW x \in Heads', NEW y \in Heads', x < y
        PROVE  BlockEnd(x)' <= y
    <3>1. CASE x = m
      BY <2>3, <3>1, <1>2, <1>3
    <3>2. CASE x # m
      BY <2>3, <3>2, <1>2, <1>3, BlocksOrdered
    <3>. QED  BY <3>1, <3>2
  <2>. QED  BY <2>1, <2>2, <2>3 DEF Tiled
<1>10. BlocksAccounted'
  <2>1. \A i, j \in DOMAIN free' : free'[i] = free'[j] => i = j
    BY DEF Injective
  <2>2. ASSUME NEW g \in live' PROVE GrantBlock(g)' \in Heads' \ FreeSet'
    BY <1>2, <1>6
  <2>3. ASSUME NEW g \in live', NEW h \in live', GrantBlock(g)' = GrantBlock(h)'
        PROVE  g = h
    <3>1. g \in live /\ h \in live /\ GrantBlock(g) = GrantBlock(h)
      BY <2>3, <1>6
    <3>. QED  BY <3>1 DEF IInv, BlocksAccounted
  <2>4. ASSUME NEW x \in Heads' \ FreeSet' PROVE \E g \in live' : GrantBlock(g)' = x
    <3>1. x \in Heads \ FreeSet /\ x \notin gone /\ x # m
      BY <1>2
    <3>2. PICK g \in live : GrantBlock(g) = x
      BY <3>1 DEF IInv, BlocksAccounted
    <3>3. g # g0
      BY <3>1, <3>2
    <3>. QED  BY <3>2, <3>3, <1>6
  <2>. QED  BY <2>1, <2>2, <2>3, <2>4 DEF BlocksAccounted
<1>11. GrantsInside'
  <2>1. ASSUME NEW g \in live'
        PROVE  /\ GrantBlock(g)' + HEADER_SIZE + HEADER_GAP <= g.ptr
               /\ g.ptr + Max1(g.size) <= BlockEnd(GrantBlock(g))'
               /\ g.ptr % g.align = 0
    <3>1. BlockEnd(GrantBlock(g))' = BlockEnd(GrantBlock(g))
      BY <1>2, <1>6 DEF BlockEnd
    <3>. QED  BY ZenonT(60), <3>1, <1>6 DEF IInv, GrantsInside
  <2>. QED  BY <2>1 DEF GrantsInside
<1>12. NoAdjacentFree'
  <2>1. FreeSet \subseteq Heads
    BY SMTT(60) DEF IInv, TypeOK, FreeSet, ToSet
  <2>2. BlockEnd(m)' \notin FreeSet'
    <3>1. e # m
      BY <1>1
    <3>2. e \notin (FreeSet \ gone) \cup {m}
      BY <3>1
    <3>3. BlockEnd(m)' = e
      BY <1>3
    <3>. QED  BY <3>2, <3>3
  <2>3. ASSUME NEW f \in FreeSet \ gone, f # m PROVE BlockEnd(f)' \notin FreeSet'
    <3>1. BlockEnd(f)' = BlockEnd(f) /\ BlockEnd(f) # m
      BY <2>1, <2>3, <1>3
    <3>2. BlockEnd(f) \notin FreeSet
      BY DEF IInv, NoAdjacentFree
    <3>. QED  BY <3>1, <3>2
  <2>. QED  BY <2>2, <2>3 DEF NoAdjacentFree
<1>. QED  BY <1>7, <1>8, <1>9, <1>10, <1>11, <1>12 DEF IInv
LEMMA DeallocStep ==
  ASSUME IInv, NEW g0 \in live, Dealloc(g0)
  PROVE  IInv'
<1>1. PICK b : b = GrantBlock(g0)
  OBVIOUS
<1>2. /\ b \in Heads \ FreeSet /\ b \in Heads /\ b = BlockOf(g0.ptr)
      /\ b \in Nat /\ BlockEnd(b) \in Nat /\ b < BlockEnd(b)
      /\ BlockEnd(b) % 8 = 0 /\ BlockEnd(b) <= end
      /\ (BlockEnd(b) = end \/ BlockEnd(b) \in Heads)
  <2>1. b \in Heads \ FreeSet /\ b = BlockOf(g0.ptr)
    BY <1>1, GrantFacts DEF GrantBlock
  <2>. QED  BY <2>1, BlockFacts
<1>3. Coalesce(b)
  BY <1>2, AlwaysRecovers DEF Dealloc
<1>4. Returns(g0)
  BY DEF Dealloc, Returns
<1>5. /\ free \in Seq(Heads) /\ Injective(free) /\ FreeSet = ToSet(free)
      /\ FreeSet \subseteq Heads /\ size \in [Heads -> Nat]
  BY DEF IInv, TypeOK, BlocksAccounted, Injective, FreeSet, ToSet
<1>6. ASSUME NEW x \in Heads
      PROVE  /\ x \in Nat /\ BlockEnd(x) \in Nat /\ x < BlockEnd(x)
             /\ BlockEnd(x) = x + size[x] /\ size[x] \in Nat
             /\ BlockEnd(x) % 8 = 0 /\ BlockEnd(x) <= end
             /\ BlockEnd(x) = end \/ BlockEnd(x) \in Heads
  BY BlockFacts
<1>7. ASSUME NEW x \in Heads, NEW y \in Heads, x < y
      PROVE  BlockEnd(x) <= y
  BY <1>7, BlocksOrdered
<1>8. \A k \in DOMAIN free : free[k] \in FreeSet /\ free[k] \in Heads
  BY FreeBlock
<1>9. \A f \in FreeSet : BlockEnd(f) \notin FreeSet
  BY DEF IInv, NoAdjacentFree
<1>10. /\ LeftOf(b) = {} => \A f \in FreeSet : BlockEnd(f) # b
       /\ RightOf(b) = {} => BlockEnd(b) \notin FreeSet
  <2>1. \A f \in FreeSet : \E k \in DOMAIN free : f = free[k]
    BY <1>5 DEF ToSet
  <2>. QED  BY <2>1 DEF LeftOf, RightOf
<1>11. CASE MergeNone(b)
  <2>1. free' = Cons(b, free) /\ size' = size /\ LeftOf(b) = {} /\ RightOf(b) = {}
    BY <1>11 DEF MergeNone
  <2>2. /\ free' \in Seq(Heads) /\ Injective(free')
        /\ FreeSet' = FreeSet \cup {b}
    <3>1. Heads \cup {b} = Heads /\ b \notin ToSet(free)
      BY <1>2, <1>5
    <3>. QED  BY <1>5, <2>1, <3>1, ConsProps DEF FreeSet
  <2>3. size' = [x \in Heads \ {} |-> IF x = b THEN BlockEnd(b) - b ELSE size[x]]
    BY <1>2, <1>5, <1>6, <2>1
  <2>4. Merges(b, {}, b, BlockEnd(b))
    BY <1>2, <1>7, <1>10, <2>1, <2>2, <2>3 DEF Merges
  <2>. QED  BY <1>1, <1>4, <2>4, MergeStep
<1>12. CASE MergeRight(b)
  <2>1. PICK k \in DOMAIN free :
          /\ free[k] = BlockEnd(b) /\ LeftOf(b) = {}
          /\ free' = Cons(b, RemoveAt(free, k))
          /\ size' = [Without(free[k]) EXCEPT ![b] = size[b] + size[free[k]]]
    BY <1>12 DEF MergeRight, RightOf
  <2>2. PICK r : r = free[k]
    OBVIOUS
  <2>3. /\ r \in FreeSet /\ r \in Heads /\ r = BlockEnd(b)
        /\ b < r /\ r \in Nat /\ BlockEnd(r) \in Nat /\ r < BlockEnd(r)
    BY <1>2, <1>6, <1>8, <2>1, <2>2
  <2>4. /\ free' \in Seq(Heads \ {r}) /\ Injective(free')
        /\ FreeSet' = (FreeSet \ {r}) \cup {b}
    <3>1. /\ RemoveAt(free, k) \in Seq(Heads \ {r})
          /\ Injective(RemoveAt(free, k))
          /\ ToSet(RemoveAt(free, k)) = FreeSet \ {r}
      BY <1>5, <2>2, RemoveAtProps
    <3>2. (Heads \ {r}) \cup {b} = Heads \ {r} /\ b \notin FreeSet \ {r}
      BY <1>2, <2>3
    <3>. QED  BY <2>1, <3>1, <3>2, ConsProps DEF FreeSet
  <2>5. size' = [x \in Heads \ {r} |-> IF x = b THEN BlockEnd(r) - b ELSE size[x]]
    <3>1. size[b] + size[r] = BlockEnd(r) - b
      BY <1>2, <1>6, <2>3
    <3>. QED  BY <1>2, <2>1, <2>2, <2>3, <3>1 DEF Without
  <2>6. \A c \in Heads \ {r} : b < c => BlockEnd(r) <= c
    BY <1>2, <1>6, <1>7, <2>3
  <2>7. Merges(b, {r}, b, BlockEnd(r))
    <3>1. /\ BlockEnd(r) <= end /\ BlockEnd(r) % 8 = 0
          /\ BlockEnd(r) = end \/ BlockEnd(r) \in Heads \ {r}
          /\ BlockEnd(r) \notin FreeSet /\ BlockEnd(b) <= BlockEnd(r)
      BY <1>6, <1>9, <2>3
    <3>2. \A f \in FreeSet : BlockEnd(f) # b
      BY <1>10, <2>1
    <3>3. b \in Heads \ {r} /\ ({r} \cup {b}) \ {b} \subseteq FreeSet
      BY <1>2, <2>3
    <3>. QED  BY <2>3, <2>4, <2>5, <2>6, <3>1, <3>2, <3>3 DEF Merges
  <2>. QED  BY <1>1, <1>4, <2>7, MergeStep
<1>13. CASE MergeLeft(b)
  <2>1. PICK j \in DOMAIN free :
          /\ BlockEnd(free[j]) = b /\ RightOf(b) = {} /\ free' = free
          /\ size' = [Without(b) EXCEPT ![free[j]] = size[free[j]] + size[b]]
    BY <1>13 DEF MergeLeft, LeftOf
  <2>2. PICK l : l = free[j]
    OBVIOUS
  <2>3. /\ l \in FreeSet /\ l \in Heads /\ BlockEnd(l) = b
        /\ l < b /\ l \in Nat
    BY <1>2, <1>6, <1>8, <2>1, <2>2
  <2>4. /\ free' \in Seq(Heads \ {b}) /\ Injective(free')
        /\ FreeSet' = (FreeSet \ {b}) \cup {l}
    <3>1. \A i \in DOMAIN free : free[i] # b
      BY <1>2, <1>8
    <3>2. free \in Seq(Heads \ {b})
      BY <1>5, <3>1
    <3>3. FreeSet = (FreeSet \ {b}) \cup {l}
      BY <1>2, <2>3
    <3>. QED  BY <1>5, <2>1, <3>2, <3>3 DEF FreeSet
  <2>5. size' = [x \in Heads \ {b} |-> IF x = l THEN BlockEnd(b) - l ELSE size[x]]
    <3>1. size[l] + size[b] = BlockEnd(b) - l
      BY <1>2, <1>6, <2>3
    <3>. QED  BY <1>2, <2>1, <2>2, <2>3, <3>1 DEF Without
  <2>6. ASSUME NEW c \in Heads \ {b}, l < c PROVE BlockEnd(b) <= c
    <3>1. c \in Heads /\ c # b /\ c \in Nat
      BY <1>6
    <3>2. b <= c
      BY <1>7, <2>3, <2>6, <3>1
    <3>3. b < c
      BY <1>2, <3>1, <3>2
    <3>. QED  BY <1>2, <1>7, <3>1, <3>3
  <2>7. Merges(b, {b}, l, BlockEnd(b))
    <3>1. BlockEnd(b) = end \/ BlockEnd(b) \in Heads \ {b}
      BY <1>2
    <3>2. \A f \in FreeSet : BlockEnd(f) # l
      BY <1>9, <2>3
    <3>3. BlockEnd(b) \notin FreeSet
      BY <1>10, <2>1
    <3>4. l \in Heads \ {b} /\ ({b} \cup {l}) \ {b} \subseteq FreeSet
      BY <1>2, <2>3
    <3>5. BlockEnd(l) <= BlockEnd(b)
      BY <1>2, <2>3
    <3>. QED
      BY <1>2, <2>3, <2>4, <2>5, <2>6, <3>1, <3>2, <3>3, <3>4, <3>5 DEF Merges
  <2>. QED  BY <1>1, <1>4, <2>7, MergeStep
<1>14. CASE MergeBoth(b)
  <2>1. PICK j \in DOMAIN free, k \in DOMAIN free :
          /\ BlockEnd(free[j]) = b /\ free[k] = BlockEnd(b)
          /\ free' = RemoveAt(free, k)
          /\ size' = [x \in Heads \ {b, free[k]} |->
                        IF x = free[j] THEN size[x] + size[b] + size[free[k]]
                                       ELSE size[x]]
    BY <1>14 DEF MergeBoth, LeftOf, RightOf
  <2>2. PICK l, r : l = free[j] /\ r = free[k]
    OBVIOUS
  <2>3. /\ l \in FreeSet /\ l \in Heads /\ BlockEnd(l) = b /\ l \in Nat /\ l < b
        /\ r \in FreeSet /\ r \in Heads /\ r = BlockEnd(b) /\ b < r
        /\ r \in Nat /\ BlockEnd(r) \in Nat /\ r < BlockEnd(r)
    BY <1>2, <1>6, <1>8, <2>1, <2>2
  <2>4. /\ free' \in Seq(Heads \ {b, r}) /\ Injective(free')
        /\ FreeSet' = (FreeSet \ {b, r}) \cup {l}
    <3>1. \A i \in DOMAIN free : free[i] # b
      BY <1>2, <1>8
    <3>2. free \in Seq(Heads \ {b})
      BY <1>5, <3>1
    <3>3. /\ RemoveAt(free, k) \in Seq((Heads \ {b}) \ {r})
          /\ Injective(RemoveAt(free, k))
          /\ ToSet(RemoveAt(free, k)) = FreeSet \ {r}
      BY <1>5, <2>2, <3>2, RemoveAtProps
    <3>4. /\ (Heads \ {b}) \ {r} = Heads \ {b, r}
          /\ FreeSet \ {r} = (FreeSet \ {b, r}) \cup {l}
      BY <1>2, <2>3
    <3>. QED  BY <2>1, <3>3, <3>4 DEF FreeSet
  <2>5. size' = [x \in Heads \ {b, r} |->
                   IF x = l THEN BlockEnd(r) - l ELSE size[x]]
    <3>1. size[l] + size[b] + size[r] = BlockEnd(r) - l
      BY <1>2, <1>6, <2>3
    <3>. QED  BY <1>2, <2>1, <2>2, <2>3, <3>1
  <2>6. \A c \in Heads \ {b, r} : l < c => BlockEnd(r) <= c
    BY SMTT(60), <1>2, <1>6, <1>7, <2>3
  <2>7. Merges(b, {b, r}, l, BlockEnd(r))
    <3>1. /\ BlockEnd(r) <= end /\ BlockEnd(r) % 8 = 0
          /\ BlockEnd(r) = end \/ BlockEnd(r) \in Heads \ {b, r}
          /\ BlockEnd(r) \notin FreeSet
      BY <1>2, <1>6, <1>9, <2>3
    <3>2. \A f \in FreeSet : BlockEnd(f) # l
      BY <1>9, <2>3
    <3>3. l \in Heads \ {b, r} /\ ({b, r} \cup {l}) \ {b} \subseteq FreeSet
      BY <1>2, <2>3
    <3>4. /\ BlockEnd(l) <= BlockEnd(r) /\ BlockEnd(b) <= BlockEnd(r)
          /\ l < b /\ l < r
      BY <1>2, <2>3
    <3>5. \A d \in {b, r} : l < d /\ BlockEnd(d) <= BlockEnd(r)
      BY <2>3, <3>4
    <3>6. {b, r} \in SUBSET Heads /\ b \in {b, r} \cup {l}
      BY <1>2, <2>3
    <3>. QED
      BY <2>3, <2>4, <2>5, <2>6, <3>1, <3>2, <3>3, <3>4, <3>5, <3>6 DEF Merges
  <2>. QED  BY <1>1, <1>4, <2>7, MergeStep
<1>. QED  BY <1>3, <1>11, <1>12, <1>13, <1>14 DEF Coalesce
-----------------------------------------------------------------------------
(* The region init is given: big enough, not at address 0. *)
LEMMA InitStep ==
  ASSUME IInv, NEW rg, rg \in Region, rg.base > 0, Accepts(rg),
         ~Installed, InitRegion(rg), UNCHANGED <<pad, live, reply>>
  PROVE  IInv'
<1> DEFINE b == RegionStart(rg)
           e == RegionEnd(rg)
<1>1. rg.base \in Nat /\ rg.len \in Nat /\ rg.base > 0
  BY DEF Region
<1>2. b \in Nat /\ b > 0 /\ b % 8 = 0
  BY SMTT(60), <1>1, AlignUp8 DEF RegionStart
<1>3. e \in Nat /\ e % 8 = 0 /\ e - b >= 48
  BY <1>1, <1>2 DEF RegionEnd, Accepts, MIN_BLOCK, HEADER_SIZE
<1>4. /\ start' = b /\ end' = e /\ free' = <<b>> /\ region' = <<rg>>
      /\ size' = [x \in {b} |-> e - b]
      /\ live' = {} /\ pad' = pad /\ reply' = reply /\ live = {}
  BY DEF InitRegion, IInv, Boot
<1>. HIDE DEF b, e
<1>5. Heads' = {b} /\ size'[b] = e - b
  BY <1>4 DEF Heads
<1>6. FreeSet' = {b}
  BY <1>4 DEF FreeSet, ToSet
<1>7. BlockEnd(b) = BlockEnd(b)
  OBVIOUS
<1>8. \A x \in Heads' : x = b /\ x + size'[x] = e
  BY <1>2, <1>3, <1>5
<1>9. TypeOK'
  <2>1. free' \in Seq(Heads')
    BY <1>4, <1>5
  <2>2. size' \in [Heads' -> Nat] /\ Heads' \subseteq Nat \ {0}
    BY <1>2, <1>3, <1>4, <1>5
  <2>3. region' \in Seq(Region)
    BY <1>4
  <2>. QED
    BY <1>2, <1>3, <1>4, <2>1, <2>2, <2>3 DEF IInv, TypeOK
<1>10. Boot'
  BY <1>2, <1>3, <1>4 DEF Boot, Installed
<1>11. Tiled'
  BY <1>2, <1>3, <1>4, <1>5, <1>8 DEF Tiled, BlockEnd, HEADER_SIZE, HEADER_GAP
<1>12. BlocksAccounted'
  BY <1>4, <1>5, <1>6 DEF BlocksAccounted
<1>13. GrantsInside'
  BY <1>4 DEF GrantsInside
<1>14. NoAdjacentFree'
  BY <1>2, <1>3, <1>4, <1>5, <1>6, <1>8 DEF NoAdjacentFree, BlockEnd
<1>. QED  BY <1>9, <1>10, <1>11, <1>12, <1>13, <1>14 DEF IInv

(* What may be installed: an entry of the memory map, or the arena. *)
LEMMA EntryGiven ==
  ASSUME NEW m \in MemoryMaps, NEW i \in DOMAIN m
  PROVE  EntryRegion(m[i]) \in Region /\ EntryRegion(m[i]).base > 0
<1> DEFINE E == [base : Nat, len : Nat, usable : BOOLEAN]
<1>1. m \in Seq(E)
  BY RegionAssumption
<1> HIDE DEF E
<1>2. m[i] \in E
  BY <1>1
<1>3. HhdmOffset \in Nat \ {0}
  BY RegionAssumption
<1>. QED  BY <1>2, <1>3 DEF E, EntryRegion, Region

LEMMA ArenaGiven ==
  StaticArena \in Region /\ StaticArena.base > 0 /\ Accepts(StaticArena)
<1>1. StaticArena \in Region /\ StaticArena.base > 0 /\ StaticArena.len >= 48
  BY RegionAssumption DEF MIN_BLOCK, HEADER_SIZE
<1>2. /\ RegionStart(StaticArena) \in Nat
      /\ RegionStart(StaticArena) % 8 = 0
  BY <1>1, AlignUp8 DEF RegionStart, Region
<1>3. Accepts(StaticArena)
  BY <1>1, <1>2 DEF Accepts, RegionEnd, Region, MIN_BLOCK, HEADER_SIZE
<1>. QED  BY <1>1, <1>3

LEMMA InstallStep ==
  ASSUME IInv, NEW m \in MemoryMaps, InstallFromBootInfo(m)
  PROVE  IInv'
<1>1. ~Installed
  BY DEF InstallFromBootInfo, Installed
<1>2. ASSUME NEW i \in DOMAIN m, Accepts(EntryRegion(m[i])),
             InitRegion(EntryRegion(m[i]))
      PROVE  IInv'
  <2>1. PICK rg : rg = EntryRegion(m[i])
    OBVIOUS
  <2>2. rg \in Region /\ rg.base > 0
    BY <2>1, EntryGiven
  <2>. QED
    BY <1>1, <1>2, <2>1, <2>2, InitStep DEF InstallFromBootInfo
<1>3. ASSUME InitRegion(StaticArena) PROVE IInv'
  BY <1>1, <1>3, ArenaGiven, InitStep DEF InstallFromBootInfo
<1>. QED  BY <1>2, <1>3 DEF InstallFromBootInfo
-----------------------------------------------------------------------------
LEMMA AllocStep ==
  ASSUME IInv, NEW n \in Nat, NEW a \in Nat \ {0}, Alloc(n, a)
  PROVE  IInv'
<1>1. PICK k \in DOMAIN free :
        /\ FirstFit(k, n, a)
        /\ IF Splits(free[k], n, a) THEN CarveTail(k, TailAddr(free[k], n, a))
                                    ELSE TakeWhole(k)
        /\ Hand(free[k], n, a)
        /\ UNCHANGED <<start, end, region>>
  BY DEF Alloc
<1>2. PICK b, t, e, g0 :
        /\ b = free[k] /\ t = TailAddr(b, n, a) /\ e = BlockEnd(b)
        /\ g0 = [ptr |-> PayloadOf(b, a), size |-> n, align |-> a]
  OBVIOUS
<1>3. Fits(b, n, a) /\ Hand(b, n, a)
  BY <1>1, <1>2 DEF FirstFit
<1>4. CASE Splits(b, n, a)
  BY <1>1, <1>2, <1>3, <1>4, CarveStep
<1>5. CASE ~Splits(b, n, a)
  BY <1>1, <1>2, <1>3, <1>5, TakeStep
<1>. QED  BY <1>4, <1>5

(* What no operation disturbs. *)
LEMMA QuietStep ==
  ASSUME IInv, reply' \in Nat \cup {Nothing},
         UNCHANGED <<start, end, free, size, pad, live, region>>
  PROVE  IInv'
  BY DEF IInv, TypeOK, Boot, Tiled, BlocksAccounted, GrantsInside, NoAdjacentFree,
         Installed, Heads, FreeSet, BlockEnd, GrantBlock, BlockOf

LEMMA InitIInv == Init => IInv
  BY DEF Init, IInv, TypeOK, Boot, Tiled, BlocksAccounted, GrantsInside,
         NoAdjacentFree, Installed, Heads, FreeSet, ToSet

LEMMA StepIInv ==
  ASSUME IInv, [Next]_vars
  PROVE  IInv'
<1>1. CASE UNCHANGED vars
  BY <1>1, QuietStep DEF vars, IInv, TypeOK
<1>2. ASSUME NEW m \in MemoryMaps, InstallFromBootInfo(m) PROVE IInv'
  BY <1>2, InstallStep
<1>3. ASSUME NEW q \in Requests, Alloc(q[1], q[2]) \/ AllocNull(q[1], q[2])
      PROVE  IInv'
  <2>1. q[1] \in Nat /\ q[2] \in Nat \ {0}
    BY RequestAssumption
  <2>2. CASE Alloc(q[1], q[2])
    BY <2>1, <2>2, AllocStep
  <2>3. CASE AllocNull(q[1], q[2])
    BY <2>3, QuietStep DEF AllocNull
  <2>. QED  BY <1>3, <2>2, <2>3
<1>4. ASSUME NEW g \in live, Dealloc(g) PROVE IInv'
  BY <1>4, DeallocStep
<1>. QED  BY <1>1, <1>2, <1>3, <1>4 DEF Next

LEMMA Invariance == Spec => []IInv
  BY InitIInv, StepIInv, PTL DEF Spec
-----------------------------------------------------------------------------
(* Every header field and every padding word is there when it is read, for *)
(* every memory map, region and set of requests.                           *)
THEOREM TypeCorrect == Spec => []TypeOK
<1>1. IInv => TypeOK
  BY DEF IInv
<1>. QED  BY <1>1, Invariance, PTL

(* alloc and dealloc keep the region an exact sequence of blocks: none     *)
(* overlaps another, none runs past the end.                               *)
THEOREM HeapIsTiled == Spec => []Tiled
<1>1. IInv => Tiled
  BY DEF IInv
<1>. QED  BY <1>1, Invariance, PTL

(* Whatever the order of allocations and frees, every block is on the free *)
(* list once or has one owner, so dealloc never loses one.                 *)
THEOREM NothingLeaks == Spec => []BlocksAccounted
<1>1. IInv => BlocksAccounted
  BY DEF IInv
<1>. QED  BY <1>1, Invariance, PTL

(* The pointer alloc returns is aligned, and its bytes are in its block    *)
(* above the header and the padding word, for every layout.                *)
THEOREM GrantsAreSound == Spec => []GrantsInside
<1>1. IInv => GrantsInside
  BY DEF IInv
<1>. QED  BY <1>1, Invariance, PTL

(* What init computed from the region stays: no call changes the bounds.   *)
Bounds ==
  Installed => \E r \in Region :
                 region = <<r>> /\ start = RegionStart(r) /\ end = RegionEnd(r)

LEMMA BoundsKept == Spec => []Bounds
<1>1. Init => Bounds
  BY DEF Init, Bounds, Installed
<1>2. ASSUME Bounds, [Next]_vars PROVE Bounds'
  <2>1. CASE UNCHANGED <<start, end, region>>
    BY <1>2, <2>1 DEF Bounds, Installed
  <2>2. ASSUME NEW m \in MemoryMaps, InstallFromBootInfo(m) PROVE Bounds'
    <3>1. ASSUME NEW r \in Region, InitRegion(r) PROVE Bounds'
      BY <3>1 DEF InitRegion, Bounds, Installed
    <3>2. ASSUME NEW i \in DOMAIN m PROVE EntryRegion(m[i]) \in Region
      <4> DEFINE E == [base : Nat, len : Nat, usable : BOOLEAN]
      <4>1. m \in Seq(E)
        BY RegionAssumption
      <4> HIDE DEF E
      <4>2. m[i] \in E
        BY <4>1
      <4>. QED  BY SMTT(60), <4>2, RegionAssumption DEF E, EntryRegion, Region
    <3>. QED  BY <2>2, <3>1, <3>2, RegionAssumption DEF InstallFromBootInfo
  <2>3. ASSUME NEW q \in Requests, Alloc(q[1], q[2]) \/ AllocNull(q[1], q[2])
        PROVE  Bounds'
    BY <2>1, <2>3 DEF Alloc, AllocNull
  <2>4. ASSUME NEW g \in live, Dealloc(g) PROVE Bounds'
    BY <2>1, <2>4 DEF Dealloc
  <2>. QED  BY <1>2, <2>1, <2>2, <2>3, <2>4 DEF Next, vars
<1>. QED  BY <1>1, <1>2, PTL DEF Spec

(* Heap::init may reach past the end of an unaligned region by less than a *)
(* word and never past the end of an aligned one, for every region.        *)
THEOREM RegionKept == Spec => []HeapInRegion
<1>1. ASSUME NEW r \in Region, start = RegionStart(r), end = RegionEnd(r)
      PROVE  /\ r.base <= start
             /\ end < r.base + r.len + 8
             /\ r.base % 8 = 0 => end <= r.base + r.len
  <2>1. r.base \in Nat /\ r.len \in Nat
    BY DEF Region
  <2>2. start \in Nat /\ r.base <= start /\ start < r.base + 8
    <3>1. 8 \in Nat \ {0}
      OBVIOUS
    <3>2. /\ AlignUp(r.base, 8) \in Nat
          /\ r.base <= AlignUp(r.base, 8)
          /\ AlignUp(r.base, 8) < r.base + 8
      BY <2>1, <3>1, AlignUpBounds
    <3>. QED  BY <1>1, <3>2 DEF RegionStart
  <2>3. end \in Int /\ end <= start + r.len
    BY <1>1, <2>1, <2>2 DEF RegionEnd
  <2>4. r.base % 8 = 0 => start = r.base
    BY <1>1, <2>1 DEF RegionStart, AlignUp
  <2>. QED  BY <2>1, <2>2, <2>3, <2>4
<1>2. ASSUME Bounds, Installed PROVE HeapInRegion
  <2>1. PICK r \in Region :
          region = <<r>> /\ start = RegionStart(r) /\ end = RegionEnd(r)
    BY <1>2 DEF Bounds
  <2>2. region[1] = r
    BY <2>1
  <2>. QED  BY <1>1, <2>1, <2>2 DEF HeapInRegion
<1>3. Bounds => HeapInRegion
  BY <1>2 DEF HeapInRegion
<1>. QED  BY <1>3, BoundsKept, PTL

(* dealloc merges with both neighbours: free blocks never touch.           *)
THEOREM FullyCoalesced == Spec => []NoAdjacentFree
<1>1. IInv => NoAdjacentFree
  BY DEF IInv
<1>. QED  BY <1>1, Invariance, PTL
-----------------------------------------------------------------------------
(***************************************************************************)
(* The refinement.  A grant lies in the arena, apart from all others; a    *)
(* request is refused by an idle heap only if the arena is too short.      *)
(***************************************************************************)
GrantsInArena ==
  \A g \in live : /\ g.ptr \in Nat \ {0} /\ g.ptr % g.align = 0
                  /\ start <= g.ptr /\ g.ptr + Max1(g.size) <= end

GrantsApart ==
  \A g, h \in live :
    g = h \/ g.ptr + Max1(g.size) <= h.ptr \/ h.ptr + Max1(h.size) <= g.ptr

LEMMA InArena == IInv => GrantsInArena
<1> SUFFICES ASSUME IInv, NEW g \in live
             PROVE  /\ g.ptr \in Nat \ {0} /\ g.ptr % g.align = 0
                    /\ start <= g.ptr /\ g.ptr + Max1(g.size) <= end
  BY DEF GrantsInArena
<1>1. PICK b : b = GrantBlock(g)
  OBVIOUS
<1>2. /\ b \in Heads /\ g.ptr \in Nat \ {0} /\ g.size \in Nat
      /\ b + 32 <= g.ptr /\ g.ptr + Max1(g.size) <= BlockEnd(b)
      /\ g.ptr % g.align = 0
  BY <1>1, GrantFacts
<1>3. /\ b \in Nat /\ start <= b /\ BlockEnd(b) \in Nat /\ BlockEnd(b) <= end
      /\ start \in Nat /\ end \in Nat /\ Max1(g.size) \in Nat
  BY <1>2, BlockFacts DEF IInv, TypeOK, Max1
<1>. QED  BY <1>2, <1>3

LEMMA Apartness == IInv => GrantsApart
<1> SUFFICES ASSUME IInv, NEW g \in live, NEW h \in live, g # h
             PROVE  \/ g.ptr + Max1(g.size) <= h.ptr
                    \/ h.ptr + Max1(h.size) <= g.ptr
  BY DEF GrantsApart
<1>1. PICK b, c : b = GrantBlock(g) /\ c = GrantBlock(h)
  OBVIOUS
<1>2. /\ b \in Heads /\ c \in Heads
      /\ g.ptr \in Nat /\ h.ptr \in Nat /\ g.size \in Nat /\ h.size \in Nat
      /\ b + 32 <= g.ptr /\ g.ptr + Max1(g.size) <= BlockEnd(b)
      /\ c + 32 <= h.ptr /\ h.ptr + Max1(h.size) <= BlockEnd(c)
  BY <1>1, GrantFacts
<1>3. b # c
  BY <1>1 DEF IInv, BlocksAccounted
<1>4. b \in Nat /\ c \in Nat /\ BlockEnd(b) \in Nat /\ BlockEnd(c) \in Nat
  BY <1>2, BlockFacts
<1>5. Max1(g.size) \in Nat /\ Max1(h.size) \in Nat
  BY <1>2 DEF Max1
<1>6. CASE b < c
  <2>1. BlockEnd(b) <= c
    BY <1>2, <1>6, BlocksOrdered
  <2>. QED  BY <1>2, <1>4, <1>5, <2>1
<1>7. CASE c < b
  <2>1. BlockEnd(c) <= b
    BY <1>2, <1>7, BlocksOrdered
  <2>. QED  BY <1>2, <1>4, <1>5, <2>1
<1>. QED  BY <1>3, <1>4, <1>6, <1>7

(* An idle heap is one free block. *)
LEMMA IdleHeap ==
  ASSUME IInv, Installed, live = {}
  PROVE  start \in FreeSet /\ BlockEnd(start) = end
<1>1. start \in Heads
  BY DEF IInv, Tiled
<1>2. Heads \subseteq FreeSet
  BY DEF IInv, BlocksAccounted
<1>3. BlockEnd(start) \notin FreeSet
  BY <1>1, <1>2 DEF IInv, NoAdjacentFree
<1>. QED  BY <1>1, <1>2, <1>3, BlockFacts

LEMMA RefuseStep ==
  ASSUME IInv, NEW n \in Nat, NEW a \in Nat \ {0}, AllocNull(n, a)
  PROVE  Abstract!Refuse(n, a)
<1>1. start \in Nat /\ end \in Nat /\ Max1(n) \in Nat \ {0}
  BY DEF IInv, TypeOK, Max1
<1>2. ASSUME live = {} PROVE start + 32 + a + Max1(n) > end
  <2>1. CASE ~Installed
    BY <1>1, <2>1 DEF IInv, Boot
  <2>2. CASE Installed
    <3>1. start \in FreeSet /\ BlockEnd(start) = end
      BY <1>2, <2>2, IdleHeap
    <3>2. PICK k \in DOMAIN free : free[k] = start
      BY <3>1 DEF FreeSet, ToSet
    <3>3. ~Fits(start, n, a)
      BY <3>2 DEF AllocNull
    <3>4. PayloadOf(start, a) \in Nat /\ PayloadOf(start, a) < start + 32 + a
      <4>1. start + 32 \in Nat
        BY <1>1
      <4>2. PayloadOf(start, a) = AlignUp(start + 32, a)
        BY <1>1 DEF PayloadOf, HEADER_SIZE, HEADER_GAP
      <4>. QED  BY <4>1, <4>2, AlignUpBounds
    <3>. QED  BY <1>1, <3>1, <3>3, <3>4 DEF Fits, NeedEnd
  <2>. QED  BY <2>1, <2>2
<1>3. reply' = 0 /\ start' = start /\ end' = end /\ live' = live
  BY DEF AllocNull
<1>. QED
  BY <1>1, <1>2, <1>3 DEF Abstract!Refuse, Abstract!Max1, Max1, HEADER_SIZE, HEADER_GAP

LEMMA GrantStep ==
  ASSUME IInv, IInv', NEW n \in Nat, NEW a \in Nat \ {0}, Alloc(n, a)
  PROVE  Abstract!Grant(n, a)
<1>1. PICK b, g0 : /\ live' = live \cup {g0}
                   /\ g0 = [ptr |-> reply', size |-> n, align |-> a]
                   /\ g0 \notin live
                   /\ start' = start /\ end' = end
  <2>1. PICK k \in DOMAIN free :
          /\ FirstFit(k, n, a) /\ Hand(free[k], n, a)
          /\ UNCHANGED <<start, end, region>>
    BY DEF Alloc
  <2>2. PICK b, g0 :
          b = free[k] /\ g0 = [ptr |-> PayloadOf(b, a), size |-> n, align |-> a]
    OBVIOUS
  <2>3. Fits(b, n, a) /\ Hand(b, n, a)
    BY <2>1, <2>2 DEF FirstFit
  <2>4. live' = live \cup {g0} /\ \A g \in live : g.ptr # g0.ptr
    <3>1. b = free[k] /\ g0 = [ptr |-> PayloadOf(b, a), size |-> n, align |-> a]
      BY <2>2
    <3>2. live' = live \cup {g0}
      BY <2>3, <3>1 DEF Hand
    <3>3. \A g \in live : g.ptr # g0.ptr
      <4>1. b \in FreeSet
        BY <2>1, <3>1, FreeBlock
      <4>. QED  BY <2>3, <3>1, <4>1, FreshPtr
    <3>. QED  BY <3>2, <3>3
  <2>5. reply' = PayloadOf(b, a) /\ g0.ptr = PayloadOf(b, a)
    BY <2>2, <2>3 DEF Hand
  <2>6. g0 = [ptr |-> reply', size |-> n, align |-> a] /\ g0 \notin live
    BY <2>2, <2>4, <2>5
  <2>. QED  BY <2>1, <2>4, <2>6
<1>2. GrantsInArena' /\ GrantsApart'
  BY InArena, Apartness, PTL
<1>3. /\ g0.ptr \in Nat \ {0} /\ g0.ptr % g0.align = 0
      /\ start <= g0.ptr /\ g0.ptr + Max1(g0.size) <= end
  BY <1>1, <1>2 DEF GrantsInArena
<1>4. \A g \in live : \/ g0.ptr + Max1(n) <= g.ptr
                       \/ g.ptr + Max1(g.size) <= g0.ptr
  BY <1>1, <1>2 DEF GrantsApart
<1>. QED
  BY <1>1, <1>3, <1>4 DEF Abstract!Grant, Abstract!Apart, Abstract!Max1, Max1

(* The free list keeps the promises of Allocator: disjoint aligned grants, *)
(* and no request refused by an idle heap that is large enough for it.     *)
THEOREM HeapImplementsAllocator == Spec => ImplementsAllocator
<1>1. Init => Abstract!Init
  BY DEF Init, Abstract!Init, Nothing, Abstract!Nothing
<1>2. ASSUME IInv, IInv', [Next]_vars PROVE [Abstract!Next]_(Abstract!vars)
  <2>1. CASE UNCHANGED vars
    BY <2>1 DEF vars, Abstract!vars
  <2>2. ASSUME NEW m \in MemoryMaps, InstallFromBootInfo(m) PROVE Abstract!Install
    <3>1. /\ ~Installed /\ Installed' /\ start' > 0 /\ start' \in Nat
          /\ end' \in Nat /\ live' = live /\ reply' = reply
      BY <1>2, <2>2
         DEF InstallFromBootInfo, InitRegion, Installed, IInv, Boot, TypeOK
    <3>2. end' > 0
      <4>1. /\ start' \in Heads'
            /\ \A x \in Heads' : x + size'[x] <= end' /\ size'[x] >= 32
            /\ size' \in [Heads' -> Nat]
        BY <1>2, <3>1 DEF IInv, Tiled, TypeOK, BlockEnd, HEADER_SIZE, HEADER_GAP
      <4>. QED  BY <3>1, <4>1
    <3>. QED  BY <1>2, <3>1, <3>2 DEF Abstract!Install, IInv, Boot
  <2>3. ASSUME NEW q \in Requests, Alloc(q[1], q[2]) \/ AllocNull(q[1], q[2])
        PROVE  Abstract!Grant(q[1], q[2]) \/ Abstract!Refuse(q[1], q[2])
    <3>1. q[1] \in Nat /\ q[2] \in Nat \ {0}
      BY RequestAssumption
    <3>. QED  BY <1>2, <2>3, <3>1, GrantStep, RefuseStep
  <2>4. ASSUME NEW g \in live, Dealloc(g) PROVE Abstract!Release(g)
    BY <2>4 DEF Dealloc, Abstract!Release, Nothing, Abstract!Nothing
  <2>. QED  BY <1>2, <2>1, <2>2, <2>3, <2>4 DEF Next, Abstract!Next
<1>. QED  BY <1>1, <1>2, Invariance, PTL DEF Spec, ImplementsAllocator, Abstract!Spec
-----------------------------------------------------------------------------
Memory(D) == [head : Int, mem : [D -> Int]]

Linked(h, F) ==
  /\ h.head = IF F = <<>> THEN 0 ELSE F[1]
  /\ \A i \in DOMAIN F :
       /\ NextOf(h, F[i]) = IF i = Len(F) THEN 0 ELSE F[i + 1]
       /\ PrevOf(h, F[i]) = IF i = 1 THEN 0 ELSE F[i - 1]

(* What the memory alone keeps: the list, and the bytes of the callers. *)
Sound ==
  /\ s \in Memory(Words(start, end))
  /\ Linked(s, free)
  /\ \A g \in live : g.ptr % 8 = 0
  /\ CallerBytesIntact

MemInv == IInv /\ View /\ Sound
-----------------------------------------------------------------------------
(* Induction in set form. *)
LEMMA SetInduction ==
  ASSUME NEW T, 0 \in T, \A n \in Nat : n \in T => n + 1 \in T
  PROVE  Nat \subseteq T
<1> DEFINE R == OpToRel(<, Nat)
           U == Nat \ T
<1>1. IsWellFoundedOn(R, Nat)
  BY NatLessThanWellFounded
<1>2. \A x, y \in Nat : x < y => <<x, y>> \in R
  BY DEF OpToRel
<1> HIDE DEF R
<1>3. SUFFICES ASSUME U # {} PROVE FALSE
  OBVIOUS
<1>4. U \subseteq Nat
  OBVIOUS
<1> HIDE DEF U
<1>5. PICK x \in U : \A y \in U : <<y, x>> \notin R
  BY <1>1, <1>3, <1>4, WFMin
<1>6. x \in Nat /\ x \notin T
  BY DEF U
<1>7. x - 1 \in Nat /\ x - 1 < x /\ (x - 1) + 1 = x
  BY <1>6
<1>8. x - 1 \notin U
  BY <1>2, <1>5, <1>6, <1>7
<1>. QED  BY <1>6, <1>7, <1>8 DEF U

(* The function NodesOf walks with. *)
Walks(h, K, f) ==
  f = [n \in 0 .. K |->
        [b \in Int |-> IF n = 0 \/ b \notin DOMAIN h.mem THEN <<>>
                       ELSE Cons(b, f[n - 1][NextOf(h, b)])]]

LEMMA WalksAt ==
  ASSUME NEW h, NEW K, NEW f, Walks(h, K, f), NEW n \in 0 .. K, NEW b \in Int
  PROVE  f[n][b] = IF n = 0 \/ b \notin DOMAIN h.mem THEN <<>>
                   ELSE Cons(b, f[n - 1][NextOf(h, b)])
<1> DEFINE Row(m) == [c \in Int |-> IF m = 0 \/ c \notin DOMAIN h.mem THEN <<>>
                                    ELSE Cons(c, f[m - 1][NextOf(h, c)])]
<1>1. f = [m \in 0 .. K |-> Row(m)]
  BY DEF Walks
<1> HIDE DEF Row
<1>2. f[n] = Row(n)
  BY <1>1
<1>. QED  BY <1>2 DEF Row

LEMMA WalkExists == ASSUME NEW h PROVE \A K \in Nat : \E f : Walks(h, K, f)
<1> DEFINE T == {K \in Nat : \E f : Walks(h, K, f)}
           Row(n, g) == [b \in Int |-> IF n = 0 \/ b \notin DOMAIN h.mem THEN <<>>
                                       ELSE Cons(b, g[NextOf(h, b)])]
<1>0. \A K, f : Walks(h, K, f) <=> f = [n \in 0 .. K |-> Row(n, f[n - 1])]
  BY DEF Walks
<1> HIDE DEF Row
<1>1. 0 \in T
  <2> DEFINE f == [n \in 0 .. 0 |-> Row(0, <<>>)]
  <2>1. Row(0, <<>>) = Row(0, f[0 - 1])
    BY DEF Row
  <2>2. f = [n \in 0 .. 0 |-> Row(n, f[n - 1])]
    BY <2>1
  <2>. QED  BY <1>0, <2>2
<1>2. ASSUME NEW K \in Nat, K \in T PROVE K + 1 \in T
  <2>1. PICK f : Walks(h, K, f)
    BY <1>2
  <2> DEFINE e == [n \in 0 .. K + 1 |-> IF n = K + 1 THEN Row(n, f[K]) ELSE f[n]]
  <2>2. \A n \in 0 .. K : e[n] = f[n]
    OBVIOUS
  <2>3. e[K + 1] = Row(K + 1, f[K])
    OBVIOUS
  <2>4. e = [n \in 0 .. K + 1 |-> e[n]]
    OBVIOUS
  <2> HIDE DEF e
  <2>5. f = [n \in 0 .. K |-> Row(n, f[n - 1])]
    BY <1>0, <2>1
  <2>6. ASSUME NEW n \in 0 .. K + 1 PROVE e[n] = Row(n, e[n - 1])
    <3>1. CASE n = 0
      <4>1. e[0] = Row(0, f[0 - 1])
        BY <2>2, <2>5
      <4>2. Row(0, f[0 - 1]) = Row(0, e[0 - 1])
        BY DEF Row
      <4>. QED  BY <3>1, <4>1, <4>2
    <3>2. CASE n \in 1 .. K
      <4>1. f[n] = Row(n, f[n - 1])
        BY <3>2, <2>5
      <4>2. n \in 0 .. K /\ n - 1 \in 0 .. K
        BY <3>2
      <4>. QED  BY <4>1, <4>2, <2>2
    <3>3. CASE n = K + 1
      <4>1. n - 1 = K /\ K \in 0 .. K
        BY <3>3
      <4>. QED  BY <3>3, <4>1, <2>2, <2>3
    <3>. QED  BY <3>1, <3>2, <3>3
  <2>7. e = [n \in 0 .. K + 1 |-> Row(n, e[n - 1])]
    BY <2>4, <2>6
  <2>. QED  BY SMTT(60), <1>0, <2>7
<1> HIDE DEF T
<1>3. Nat \subseteq T
  BY <1>1, <1>2, SetInduction
<1>. QED  BY <1>3 DEF T

LEMMA NodesChosen ==
  ASSUME NEW h, NEW K \in Nat, K = Cardinality(DOMAIN h.mem)
  PROVE  \E f : Walks(h, K, f) /\ NodesOf(h) = f[K][h.head]
<1> DEFINE f == CHOOSE f : Walks(h, K, f)
<1>1. Walks(h, K, f)
  BY WalkExists
<1>2. NodesOf(h) = f[K][h.head]
  BY DEF NodesOf, Walks
<1>. QED  BY <1>1, <1>2

(* What is left of F from position i on. *)
Rest(F, i) == [j \in 1 .. (Len(F) - i) + 1 |-> F[(i + j) - 1]]

LEMMA RestIs ==
  ASSUME NEW S, NEW F \in Seq(S)
  PROVE  /\ Rest(F, 1) = F
         /\ Rest(F, Len(F) + 1) = <<>>
         /\ \A i \in DOMAIN F : Cons(F[i], Rest(F, i + 1)) = Rest(F, i)
<1>1. Rest(F, 1) = F
  <2>1. F = [j \in 1 .. Len(F) |-> F[j]]
    OBVIOUS
  <2>2. 1 .. (Len(F) - 1) + 1 = 1 .. Len(F) /\ \A j \in 1 .. Len(F) : (1 + j) - 1 = j
    OBVIOUS
  <2>. QED  BY <2>1, <2>2 DEF Rest
<1>2. Rest(F, Len(F) + 1) = <<>>
  BY DEF Rest
<1>3. ASSUME NEW i \in DOMAIN F PROVE Cons(F[i], Rest(F, i + 1)) = Rest(F, i)
  <2> DEFINE r == Rest(F, i + 1)
             c == Cons(F[i], r)
  <2>1. i \in 1 .. Len(F) /\ Len(F) \in Nat
    OBVIOUS
  <2>2. /\ r \in Seq(S) /\ Len(r) = Len(F) - i
        /\ \A j \in 1 .. Len(F) - i : r[j] = F[i + j]
    <3>1. (Len(F) - (i + 1)) + 1 = Len(F) - i /\ Len(F) - i \in Nat
      BY <2>1
    <3>2. \A j \in 1 .. Len(F) - i : ((i + 1) + j) - 1 = i + j /\ F[i + j] \in S
      BY <2>1
    <3>3. r = [j \in 1 .. Len(F) - i |-> F[i + j]]
      BY <3>1, <3>2 DEF Rest
    <3> HIDE DEF r, c
    <3>4. r \in [1 .. Len(F) - i -> S]
      BY <3>2, <3>3
    <3>5. PICK m \in Nat : m = Len(F) - i
      BY <3>1
    <3>6. r \in [1 .. m -> S]
      BY <3>4, <3>5
    <3>7. r \in Seq(S) /\ Len(r) = m
      BY <3>6
    <3>. QED  BY <3>3, <3>5, <3>7
  <2>3. <<F[i]>> \in Seq(S) /\ Len(<<F[i]>>) = 1 /\ <<F[i]>>[1] = F[i]
    BY <2>1
  <2> HIDE DEF r
  <2>4. /\ c \in Seq(S) /\ Len(c) = (Len(F) - i) + 1
        /\ \A j \in 1 .. (Len(F) - i) + 1 : c[j] = IF j = 1 THEN F[i] ELSE r[j - 1]
    BY <2>1, <2>2, <2>3, ConcatProperties DEF Cons
  <2> HIDE DEF c
  <2>5. ASSUME NEW j \in 1 .. (Len(F) - i) + 1 PROVE c[j] = F[(i + j) - 1]
    <3>1. CASE j = 1
      BY <3>1, <2>1, <2>4
    <3>2. CASE j # 1
      <4>1. j - 1 \in 1 .. Len(F) - i /\ i + (j - 1) = (i + j) - 1
        BY <3>2, <2>1
      <4>. QED  BY <3>2, <4>1, <2>2, <2>4
    <3>. QED  BY <3>1, <3>2
  <2>6. c = [j \in 1 .. (Len(F) - i) + 1 |-> c[j]]
    BY <2>4
  <2>7. c = Rest(F, i)
    BY <2>5, <2>6 DEF Rest
  <2>. QED  BY <2>7 DEF c, r
<1>. QED  BY <1>1, <1>2, <1>3

(* The walk along a linked list returns the list. *)
LEMMA NodesAre ==
  ASSUME NEW D, IsFiniteSet(D), 0 \notin D, D \subseteq Int,
         NEW h, DOMAIN h.mem = D, NEW F \in Seq(D), Injective(F), Linked(h, F)
  PROVE  NodesOf(h) = F
<1> DEFINE K == Cardinality(D)
           n == Len(F)
           At(i) == IF i <= n THEN F[i] ELSE 0
<1>0. n \in Nat /\ DOMAIN F = 1 .. n
  OBVIOUS
<1>1. K \in Nat /\ n <= K
  <2>1. F \in Injection(1 .. n, D)
    BY DEF Injection, IsInjective, Injective
  <2>2. Cardinality(1 .. n) <= Cardinality(D)
    BY <2>1, FS_Injection
  <2>3. Cardinality(1 .. n) = n
    <3>1. Cardinality(1 .. n) = IF 1 > n THEN 0 ELSE (n - 1) + 1
      BY SMTT(60), <1>0, FS_Interval
    <3>. QED  BY <1>0, <3>1
  <2>. QED  BY <1>0, <2>2, <2>3, FS_CardinalityType
<1>2. PICK f : Walks(h, K, f) /\ NodesOf(h) = f[K][h.head]
  BY <1>1, NodesChosen
<1> HIDE DEF K
<1>3. \A i \in 1 .. n + 1 : At(i) \in Int
  <2>1. ASSUME NEW i \in 1 .. n PROVE F[i] \in Int
    <3>1. F[i] \in D
      BY <1>0
    <3>. QED  BY <3>1
  <2>2. 0 \in Int
    OBVIOUS
  <2>. QED  BY <1>0, <2>1, <2>2
<1>4. /\ \A i \in 1 .. n : NextOf(h, F[i]) = At(i + 1)
      /\ h.head = At(1)
  BY <1>0 DEF Linked
<1>5. ASSUME NEW j \in 0 .. K, NEW b \in Int
      PROVE  f[j][b] = IF j = 0 \/ b \notin D THEN <<>>
                       ELSE Cons(b, f[j - 1][NextOf(h, b)])
  BY <1>2, WalksAt
<1>6. At(n + 1) = 0 /\ \A i \in 1 .. n : At(i) = F[i] /\ F[i] \in D
  BY <1>0
<1> HIDE DEF At, n
<1> DEFINE T == {j \in Nat : j <= K =>
                  \A i \in 1 .. n + 1 : (n - i) + 1 <= j => f[j][At(i)] = Rest(F, i)}
<1>7. 0 \in T
  <2>1. ASSUME NEW i \in 1 .. n + 1, (n - i) + 1 <= 0 PROVE f[0][At(i)] = Rest(F, i)
    <3>1. i = n + 1
      BY <1>0, <2>1
    <3>2. f[0][At(i)] = <<>>
      BY <1>1, <1>3, <1>5
    <3>. QED  BY <3>1, <3>2, RestIs DEF n
  <2>. QED  BY <2>1
<1>8. ASSUME NEW j \in Nat, j \in T PROVE j + 1 \in T
  <2>1. ASSUME j + 1 <= K, NEW i \in 1 .. n + 1, (n - i) + 1 <= j + 1
        PROVE  f[j + 1][At(i)] = Rest(F, i)
    <3>1. j + 1 \in 0 .. K /\ j + 1 # 0 /\ (j + 1) - 1 = j /\ j <= K
      BY <1>1, <2>1
    <3>2. f[j + 1][At(i)] = IF At(i) \notin D THEN <<>>
                            ELSE Cons(At(i), f[j][NextOf(h, At(i))])
      BY <1>3, <1>5, <3>1
    <3>3. CASE i = n + 1
      BY <3>2, <3>3, <1>6, RestIs DEF n
    <3>4. CASE i \in 1 .. n
      <4>1. NextOf(h, At(i)) = At(i + 1) /\ At(i) \in D /\ At(i) = F[i]
        BY <3>4, <1>4, <1>6
      <4>2. i + 1 \in 1 .. n + 1 /\ (n - (i + 1)) + 1 <= j
        BY <1>0, <2>1, <3>4
      <4>3. f[j][At(i + 1)] = Rest(F, i + 1)
        BY <1>8, <3>1, <4>2
      <4>4. Cons(F[i], Rest(F, i + 1)) = Rest(F, i)
        BY <3>4, <1>0, RestIs
      <4>. QED  BY <3>2, <4>1, <4>3, <4>4
    <3>. QED  BY <1>0, <3>3, <3>4
  <2>. QED  BY <2>1
<1> HIDE DEF T
<1>9. Nat \subseteq T
  BY <1>7, <1>8, SetInduction
<1>10. f[K][At(1)] = Rest(F, 1)
  <2>1. K \in T
    BY <1>1, <1>9
  <2>2. 1 \in 1 .. n + 1 /\ (n - 1) + 1 <= K
    BY <1>0, <1>1
  <2>. QED  BY <1>1, <2>1, <2>2 DEF T
<1>. QED  BY <1>2, <1>4, <1>10, RestIs
-----------------------------------------------------------------------------
(***************************************************************************)
(* The stores.  B is a set of header addresses; three words at each are in *)
(* the memory D, and no two headers overlap.                               *)
(***************************************************************************)
Spaced(B, D) ==
  /\ B \subseteq Nat \ {0}
  /\ \A b \in B : b \in D /\ b + 8 \in D /\ b + 16 \in D
  /\ \A b, c \in B : b < c => b + 24 <= c

LinkWords(B) == {b + 8 : b \in B} \cup {b + 16 : b \in B}

LEMMA FieldsApart ==
  ASSUME NEW B, NEW D, Spaced(B, D), NEW b \in B, NEW c \in B
  PROVE  /\ b + 8 # c /\ b + 16 # c /\ b + 8 # c + 16
         /\ b \notin LinkWords(B)
<1>1. \A x, y \in B : x + 8 # y /\ x + 16 # y /\ x + 8 # y + 16
  BY DEF Spaced
<1>. QED  BY <1>1 DEF LinkWords

LEMMA StoreIs ==
  ASSUME NEW D, NEW h, h \in Memory(D), NEW a, a \in D, NEW v, v \in Int,
         NEW e, e = Store(h, a, v)
  PROVE  /\ e \in Memory(D)
         /\ e.head = h.head
         /\ \A x \in D : e.mem[x] = IF x = a THEN v ELSE h.mem[x]
  BY DEF Store, Memory

LEMMA SetHead ==
  ASSUME NEW D, NEW h, h \in Memory(D), NEW v, v \in Int,
         NEW e, e = [h EXCEPT !.head = v]
  PROVE  e \in Memory(D) /\ e.head = v /\ e.mem = h.mem
  BY DEF Memory

LEMMA LinkNextIs ==
  ASSUME NEW D, NEW h, h \in Memory(D), NEW p, NEW a, a = p + 8, p = 0 \/ a \in D,
         NEW v, v \in Int, NEW e, e = LinkNext(h, p, v)
  PROVE  /\ e \in Memory(D)
         /\ p = 0 => e.head = v
         /\ p # 0 => e.head = h.head /\ e.mem[a] = v
         /\ \A x \in D : p = 0 \/ x # a => e.mem[x] = h.mem[x]
<1>1. CASE p = 0
  BY <1>1, SetHead DEF LinkNext
<1>2. CASE p # 0
  BY <1>2, StoreIs DEF LinkNext
<1>. QED  BY <1>1, <1>2

LEMMA LinkPrevIs ==
  ASSUME NEW D, NEW h, h \in Memory(D), NEW p, NEW a, a = p + 16, p = 0 \/ a \in D,
         NEW v, v \in Int, NEW e, e = LinkPrev(h, p, v)
  PROVE  /\ e \in Memory(D)
         /\ e.head = h.head
         /\ p # 0 => e.mem[a] = v
         /\ \A x \in D : p = 0 \/ x # a => e.mem[x] = h.mem[x]
<1>1. CASE p = 0
  BY <1>1 DEF LinkPrev
<1>2. CASE p # 0
  BY <1>2, StoreIs DEF LinkPrev
<1>. QED  BY <1>1, <1>2

(* What the links of a list say of one node. *)
LEMMA Neighbours ==
  ASSUME NEW B, NEW D, Spaced(B, D), NEW h \in Memory(D),
         NEW F \in Seq(B), Linked(h, F), NEW k \in DOMAIN F,
         NEW p, p = PrevOf(h, F[k]), NEW n, n = NextOf(h, F[k])
  PROVE  /\ Len(F) \in Nat /\ k \in 1 .. Len(F) /\ F[k] \in B
         /\ p \in Int /\ n \in Int
         /\ p = IF k = 1 THEN 0 ELSE F[k - 1]
         /\ n = IF k = Len(F) THEN 0 ELSE F[k + 1]
         /\ k # 1 => k - 1 \in DOMAIN F /\ p \in B
         /\ k # Len(F) => k + 1 \in DOMAIN F /\ n \in B
         /\ p = 0 <=> k = 1
         /\ n = 0 <=> k = Len(F)
<1>1. Len(F) \in Nat /\ DOMAIN F = 1 .. Len(F) /\ \A i \in DOMAIN F : F[i] \in B
  OBVIOUS
<1>2. /\ p = IF k = 1 THEN 0 ELSE F[k - 1]
      /\ n = IF k = Len(F) THEN 0 ELSE F[k + 1]
  BY DEF Linked
<1>3. \A b \in B : b \in Int /\ b # 0
  BY DEF Spaced
<1>4. k # 1 => k - 1 \in DOMAIN F
  BY <1>1
<1>5. k # Len(F) => k + 1 \in DOMAIN F
  BY <1>1
<1>. QED  BY <1>1, <1>2, <1>3, <1>4, <1>5

(* A store outside the links, or into the memory of a caller, leaves the   *)
(* list alone.                                                             *)
LEMMA LinkedKept ==
  ASSUME NEW B, NEW h, NEW e, NEW F \in Seq(B), Linked(h, F), e.head = h.head,
         \A x \in LinkWords(B) : e.mem[x] = h.mem[x]
  PROVE  Linked(e, F)
<1>1. \A i \in DOMAIN F : F[i] + 8 \in LinkWords(B) /\ F[i] + 16 \in LinkWords(B)
  BY DEF LinkWords
<1>. QED  BY <1>1 DEF Linked, NextOf, PrevOf
-----------------------------------------------------------------------------
(* RemoveAt and Cons, element by element. *)
LEMMA RemoveAtIs ==
  ASSUME NEW S, NEW q \in Seq(S), NEW k \in DOMAIN q
  PROVE  /\ Len(q) \in Nat /\ Len(RemoveAt(q, k)) = Len(q) - 1
         /\ RemoveAt(q, k) \in Seq(S)
         /\ \A i \in 1 .. Len(q) - 1 :
              RemoveAt(q, k)[i] = IF i < k THEN q[i] ELSE q[i + 1]
<1> DEFINE n == Len(q)
           u == SubSeq(q, 1, k - 1)
           v == SubSeq(q, k + 1, n)
           r == RemoveAt(q, k)
<1>1. k \in 1 .. n /\ n \in Nat
  OBVIOUS
<1>2. /\ u \in Seq(S) /\ Len(u) = k - 1
      /\ \A i \in 1 .. k - 1 : u[i] = q[i]
  BY <1>1, SubSeqProperties
<1>3. /\ v \in Seq(S) /\ Len(v) = n - k
      /\ \A i \in 1 .. n - k : v[i] = q[k + i]
  BY <1>1
<1>4. r = u \o v
  BY DEF RemoveAt
<1> HIDE DEF u, v, r
<1>5. /\ r \in Seq(S)
      /\ Len(r) = Len(u) + Len(v)
      /\ \A i \in 1 .. Len(u) + Len(v) :
           r[i] = IF i <= Len(u) THEN u[i] ELSE v[i - Len(u)]
  BY SMTT(60), <1>2, <1>3, <1>4, ConcatProperties
<1>6. Len(u) + Len(v) = n - 1
  BY <1>1, <1>2, <1>3
<1>7. ASSUME NEW i \in 1 .. n - 1
      PROVE  r[i] = IF i < k THEN q[i] ELSE q[i + 1]
  <2>1. r[i] = IF i <= Len(u) THEN u[i] ELSE v[i - Len(u)]
    BY <1>5, <1>6
  <2>2. CASE i <= k - 1
    BY <2>1, <2>2, <1>1, <1>2
  <2>3. CASE i > k - 1
    <3>1. i - (k - 1) \in 1 .. n - k /\ k + (i - (k - 1)) = i + 1
      BY <1>1, <2>3
    <3>2. v[i - (k - 1)] = q[k + (i - (k - 1))]
      BY <3>1, <1>3
    <3>. QED  BY SMTT(60), <2>1, <2>3, <3>1, <3>2, <1>1, <1>2
  <2>. QED  BY <2>2, <2>3, <1>1
<1>. QED  BY <1>1, <1>5, <1>6, <1>7 DEF r

LEMMA ConsIs ==
  ASSUME NEW S, NEW q \in Seq(S), NEW t \in S
  PROVE  /\ Len(q) \in Nat /\ Len(Cons(t, q)) = Len(q) + 1
         /\ Cons(t, q) \in Seq(S)
         /\ \A i \in 1 .. Len(q) + 1 : Cons(t, q)[i] = IF i = 1 THEN t ELSE q[i - 1]
  BY DEF Cons

(* Unlink takes a node out of the list and writes links only. *)
LEMMA UnlinkIs ==
  ASSUME NEW B, NEW D, Spaced(B, D), NEW h \in Memory(D),
         NEW F \in Seq(B), Injective(F), Linked(h, F), NEW k \in DOMAIN F,
         NEW e, e = Unlink(h, F[k])
  PROVE  /\ e \in Memory(D)
         /\ Linked(e, RemoveAt(F, k))
         /\ \A x \in D \ LinkWords(B) : e.mem[x] = h.mem[x]
<1>1. PICK p, n : p = PrevOf(h, F[k]) /\ n = NextOf(h, F[k])
  OBVIOUS
<1>2. /\ Len(F) \in Nat /\ k \in 1 .. Len(F) /\ F[k] \in B /\ p \in Int /\ n \in Int
      /\ p = IF k = 1 THEN 0 ELSE F[k - 1]
      /\ n = IF k = Len(F) THEN 0 ELSE F[k + 1]
      /\ k # 1 => k - 1 \in DOMAIN F /\ p \in B
      /\ k # Len(F) => k + 1 \in DOMAIN F /\ n \in B
      /\ p = 0 <=> k = 1
      /\ n = 0 <=> k = Len(F)
  BY <1>1, Neighbours
<1>3. /\ p # 0 => p \in B /\ p + 8 \in D
      /\ n # 0 => n \in B /\ n + 16 \in D
  BY <1>2 DEF Spaced
<1>4. PICK e1 : e1 = LinkNext(h, p, n)
  OBVIOUS
<1>5. /\ e1 \in Memory(D)
      /\ p = 0 => e1.head = n
      /\ p # 0 => e1.head = h.head /\ e1.mem[p + 8] = n
      /\ \A x \in D : p = 0 \/ x # p + 8 => e1.mem[x] = h.mem[x]
  <2>1. PICK a : a = p + 8
    OBVIOUS
  <2>2. n \in Int /\ (p = 0 \/ a \in D)
    BY <1>2, <1>3, <2>1
  <2>3. /\ e1 \in Memory(D)
        /\ p = 0 => e1.head = n
        /\ p # 0 => e1.head = h.head /\ e1.mem[a] = n
        /\ \A x \in D : p = 0 \/ x # a => e1.mem[x] = h.mem[x]
    BY <1>4, <2>1, <2>2, LinkNextIs
  <2>. QED  BY <2>1, <2>3
<1>6. e = LinkPrev(e1, n, p)
  BY <1>1, <1>4 DEF Unlink
<1>7. /\ e \in Memory(D)
      /\ e.head = e1.head
      /\ n # 0 => e.mem[n + 16] = p
      /\ \A x \in D : n = 0 \/ x # n + 16 => e.mem[x] = e1.mem[x]
  <2>1. PICK a : a = n + 16
    OBVIOUS
  <2>2. p \in Int /\ (n = 0 \/ a \in D) /\ e1 \in Memory(D)
    BY <1>2, <1>3, <1>5, <2>1
  <2>3. /\ e \in Memory(D)
        /\ e.head = e1.head
        /\ n # 0 => e.mem[a] = p
        /\ \A x \in D : n = 0 \/ x # a => e.mem[x] = e1.mem[x]
    BY <1>6, <2>1, <2>2, LinkPrevIs
  <2>. QED  BY <2>1, <2>3
<1>8. \A x \in D \ LinkWords(B) : e.mem[x] = h.mem[x]
  BY <1>3, <1>5, <1>7 DEF LinkWords
<1>9. ASSUME NEW c \in B
      PROVE  /\ NextOf(e, c) = IF c = p THEN n ELSE NextOf(h, c)
             /\ PrevOf(e, c) = IF c = n THEN p ELSE PrevOf(h, c)
  <2>1. c # 0 /\ c \in Int /\ c + 8 \in D /\ c + 16 \in D
    BY DEF Spaced
  <2>2. n # 0 => c + 8 # n + 16
    BY <1>3, FieldsApart
  <2>3. p # 0 => p + 8 # c + 16
    BY <1>3, FieldsApart
  <2>4. e.mem[c + 8] = IF p # 0 /\ c + 8 = p + 8 THEN n ELSE h.mem[c + 8]
    BY <1>5, <1>7, <2>1, <2>2
  <2>5. e.mem[c + 16] = IF n # 0 /\ c + 16 = n + 16 THEN p ELSE h.mem[c + 16]
    BY <1>5, <1>7, <2>1, <2>3
  <2>6. (p # 0 /\ c + 8 = p + 8 <=> c = p) /\ (n # 0 /\ c + 16 = n + 16 <=> c = n)
    <3>1. p \in Int /\ n \in Int
      BY <1>2
    <3>. QED  BY ONLY <2>1, <3>1
  <2>. QED  BY ONLY <2>4, <2>5, <2>6 DEF NextOf, PrevOf
<1> DEFINE R == RemoveAt(F, k)
<1>10. /\ R \in Seq(B) /\ Len(R) = Len(F) - 1 /\ DOMAIN R = 1 .. Len(F) - 1
       /\ \A i \in 1 .. Len(F) - 1 : R[i] = IF i < k THEN F[i] ELSE F[i + 1]
  <2> HIDE DEF R
  <2>1. /\ R \in Seq(B) /\ Len(R) = Len(F) - 1
        /\ \A i \in 1 .. Len(F) - 1 : R[i] = IF i < k THEN F[i] ELSE F[i + 1]
    BY RemoveAtIs DEF R
  <2>. QED  BY <2>1
<1> HIDE DEF R
<1>11. e.head = IF R = <<>> THEN 0 ELSE R[1]
  <2>1. h.head = F[1] /\ (R = <<>> <=> Len(F) = 1)
    BY <1>2, <1>10 DEF Linked
  <2>. QED  BY <1>2, <1>5, <1>7, <1>10, <2>1
<1>12. ASSUME NEW i \in DOMAIN R
       PROVE  /\ NextOf(e, R[i]) = IF i = Len(R) THEN 0 ELSE R[i + 1]
              /\ PrevOf(e, R[i]) = IF i = 1 THEN 0 ELSE R[i - 1]
  <2>1. PICK m \in 1 .. Len(F) : m # k /\ m = IF i < k THEN i ELSE i + 1
    BY SMTT(60), <1>2, <1>10
  <2>2. R[i] = F[m] /\ F[m] \in B /\ m \in DOMAIN F
    BY <1>10, <2>1
  <2>3. /\ NextOf(h, F[m]) = IF m = Len(F) THEN 0 ELSE F[m + 1]
        /\ PrevOf(h, F[m]) = IF m = 1 THEN 0 ELSE F[m - 1]
    BY <2>2 DEF Linked
  <2>4. (F[m] = p <=> m = k - 1) /\ (F[m] = n <=> m = k + 1)
    <3>1. F[m] # 0
      BY <2>2 DEF Spaced
    <3>2. k # 1 => (F[m] = F[k - 1] <=> m = k - 1)
      BY <1>2, <2>2 DEF Injective
    <3>3. k # Len(F) => (F[m] = F[k + 1] <=> m = k + 1)
      BY <1>2, <2>2 DEF Injective
    <3>. QED  BY <1>2, <2>1, <3>1, <3>2, <3>3
  <2>5. NextOf(e, R[i]) = IF i = Len(R) THEN 0 ELSE R[i + 1]
    <3>1. NextOf(e, R[i]) = IF m = k - 1 THEN n ELSE NextOf(h, F[m])
      BY <1>9, <2>2, <2>4
    <3>2. i # Len(F) - 1 => R[i + 1] = IF i + 1 < k THEN F[i + 1] ELSE F[i + 2]
      BY SMTT(60), <1>2, <1>10
    <3>3. /\ Len(F) \in Nat /\ k \in 1 .. Len(F) /\ Len(R) = Len(F) - 1
          /\ i \in 1 .. Len(F) - 1 /\ n = IF k = Len(F) THEN 0 ELSE F[k + 1]
      BY <1>2, <1>10
    <3>4. CASE m = k - 1
      <4>1. i = k - 1
        BY ONLY <2>1, <3>3, <3>4
      <4>2. (i = Len(R) <=> k = Len(F)) /\ i + 2 = k + 1 /\ ~ (i + 1 < k)
        BY ONLY <3>3, <4>1
      <4>. QED  BY ONLY <3>1, <3>2, <3>3, <3>4, <4>2
    <3>5. CASE m # k - 1
      <4>1. /\ i = Len(R) <=> m = Len(F)
            /\ m + 1 = IF i + 1 < k THEN i + 1 ELSE i + 2
        BY ONLY SMTT(60), <2>1, <3>3, <3>5
      <4>2. i # Len(R) => R[i + 1] = F[m + 1]
        BY ONLY SMTT(60), <3>2, <3>3, <4>1
      <4>. QED  BY ONLY <2>3, <3>1, <3>5, <4>1, <4>2
    <3>. QED  BY <3>4, <3>5
  <2>6. PrevOf(e, R[i]) = IF i = 1 THEN 0 ELSE R[i - 1]
    <3>1. PrevOf(e, R[i]) = IF m = k + 1 THEN p ELSE PrevOf(h, F[m])
      BY <1>9, <2>2, <2>4
    <3>2. i # 1 => R[i - 1] = IF i - 1 < k THEN F[i - 1] ELSE F[i]
      BY SMTT(60), <1>2, <1>10
    <3>3. /\ Len(F) \in Nat /\ k \in 1 .. Len(F)
          /\ i \in 1 .. Len(F) - 1 /\ p = IF k = 1 THEN 0 ELSE F[k - 1]
      BY <1>2, <1>10
    <3>. QED  BY ONLY SMTT(60), <2>1, <2>3, <3>1, <3>2, <3>3
  <2>. QED  BY <2>5, <2>6
<1>13. Linked(e, R)
  BY <1>11, <1>12 DEF Linked
<1>. QED  BY <1>7, <1>8, <1>13 DEF R

(* Cut puts the tail in the place of the node it is cut from. *)
IsCut(D, C, h, e, b, t) ==
  /\ e.mem[t] = (b + h.mem[b]) - t
  /\ e.mem[b] = t - b
  /\ \A x \in D \ LinkWords(C) : x # b /\ x # t => e.mem[x] = h.mem[x]

LEMMA CutIs ==
  ASSUME NEW B, NEW D, NEW t, t \notin B, NEW C, C = B \cup {t}, Spaced(C, D),
         NEW h \in Memory(D),
         NEW F \in Seq(B), Injective(F), Linked(h, F), NEW k \in DOMAIN F,
         NEW b, b = F[k], NEW e, e = Cut(h, b, t)
  PROVE  /\ e \in Memory(D)
         /\ Linked(e, ReplaceAt(F, k, t))
         /\ IsCut(D, C, h, e, b, t)
<1>1. PICK p, n : p = PrevOf(h, b) /\ n = NextOf(h, b)
  OBVIOUS
<1>0. F \in Seq(C)
  OBVIOUS
<1>2. /\ Len(F) \in Nat /\ k \in 1 .. Len(F) /\ b \in B /\ p \in Int /\ n \in Int
      /\ p = IF k = 1 THEN 0 ELSE F[k - 1]
      /\ n = IF k = Len(F) THEN 0 ELSE F[k + 1]
      /\ k # 1 => k - 1 \in DOMAIN F /\ p \in B
      /\ k # Len(F) => k + 1 \in DOMAIN F /\ n \in B
      /\ p = 0 <=> k = 1
      /\ n = 0 <=> k = Len(F)
  <2>1. \A i \in DOMAIN F : F[i] \in B
    OBVIOUS
  <2>. QED  BY <1>0, <1>1, <2>1, Neighbours
<1>3. /\ p # 0 => p \in B /\ p + 8 \in D /\ p # t
      /\ n # 0 => n \in B /\ n + 16 \in D /\ n # t
      /\ b \in Int /\ b \in D /\ b + 8 \in D /\ b + 16 \in D /\ b # t
      /\ t \in Int /\ t # 0 /\ t \in D /\ t + 8 \in D /\ t + 16 \in D
  <2>1. \A x \in C : x \in Int /\ x # 0 /\ x \in D /\ x + 8 \in D /\ x + 16 \in D
    BY SMTT(60) DEF Spaced
  <2>2. b \in B /\ (p # 0 => p \in B) /\ (n # 0 => n \in B)
    BY <1>2
  <2>. QED  BY <2>1, <2>2
<1>4. \A x, y \in C : x + 8 # y /\ x + 16 # y /\ x + 8 # y + 16
  BY ONLY Spaced(C, D), FieldsApart
<1>5. p \in C \cup {0} /\ n \in C \cup {0} /\ b \in C /\ t \in C
  BY <1>2
<1>6. PICK h1 : h1 = Store(h, t, (b + h.mem[b]) - t)
  OBVIOUS
<1>7. /\ h1 \in Memory(D) /\ h1.head = h.head
      /\ \A x \in D : h1.mem[x] = IF x = t THEN (b + h.mem[b]) - t ELSE h.mem[x]
  <2>1. h.mem[b] \in Int
    BY <1>3 DEF Memory
  <2>2. (b + h.mem[b]) - t \in Int /\ t \in D
    BY SMTT(60), <2>1, <1>3
  <2>. QED  BY <1>6, <2>2, StoreIs
<1>8. NextOf(h1, b) = n /\ PrevOf(h1, b) = p
  BY ZenonT(60), <1>1, <1>3, <1>4, <1>5, <1>7 DEF NextOf, PrevOf
<1>9. PICK h2 : h2 = Store(h1, t + 8, n)
  OBVIOUS
<1>10. /\ h2 \in Memory(D) /\ h2.head = h.head
       /\ \A x \in D : h2.mem[x] = IF x = t + 8 THEN n ELSE h1.mem[x]
  <2>1. n \in Int /\ t + 8 \in D /\ h1 \in Memory(D) /\ h1.head = h.head
    BY <1>2, <1>3, <1>7
  <2>. QED  BY <1>9, <2>1, StoreIs
<1>11. PrevOf(h2, b) = p
  BY SMTT(60), <1>3, <1>4, <1>5, <1>8, <1>10 DEF PrevOf
<1>12. PICK h3 : h3 = Store(h2, t + 16, p)
  OBVIOUS
<1>13. /\ h3 \in Memory(D) /\ h3.head = h.head
       /\ \A x \in D : h3.mem[x] = IF x = t + 16 THEN p ELSE h2.mem[x]
  <2>1. p \in Int /\ t + 16 \in D /\ h2 \in Memory(D) /\ h2.head = h.head
    BY <1>2, <1>3, <1>10
  <2>. QED  BY <1>12, <2>1, StoreIs
<1>14. NextOf(h3, b) = n /\ PrevOf(h3, b) = p
  BY SMTT(60), <1>3, <1>4, <1>5, <1>8, <1>10, <1>11, <1>13 DEF PrevOf, NextOf
<1>15. PICK h4 : h4 = LinkNext(h3, p, t)
  OBVIOUS
<1>16. /\ h4 \in Memory(D)
       /\ p = 0 => h4.head = t
       /\ p # 0 => h4.head = h.head /\ h4.mem[p + 8] = t
       /\ \A x \in D : p = 0 \/ x # p + 8 => h4.mem[x] = h3.mem[x]
  <2>1. PICK a : a = p + 8
    OBVIOUS
  <2>2. t \in Int /\ (p = 0 \/ a \in D) /\ h3 \in Memory(D) /\ h3.head = h.head
    BY <1>2, <1>3, <1>13, <2>1
  <2>3. /\ h4 \in Memory(D)
        /\ p = 0 => h4.head = t
        /\ p # 0 => h4.head = h3.head /\ h4.mem[a] = t
        /\ \A x \in D : p = 0 \/ x # a => h4.mem[x] = h3.mem[x]
    BY <1>15, <2>1, <2>2, LinkNextIs
  <2>. QED  BY <2>1, <2>2, <2>3
<1>17. NextOf(h4, b) = n
  <2>1. p # 0 => b + 8 # p + 8
    <3>1. k # 1 => F[k - 1] # F[k]
      BY <1>2 DEF Injective
    <3>. QED  BY SMTT(60), <1>2, <1>3, <3>1
  <2>. QED  BY <1>3, <1>14, <1>16, <2>1 DEF NextOf
<1>18. PICK h5 : h5 = LinkPrev(h4, n, t)
  OBVIOUS
<1>19. /\ h5 \in Memory(D) /\ h5.head = h4.head
       /\ n # 0 => h5.mem[n + 16] = t
       /\ \A x \in D : n = 0 \/ x # n + 16 => h5.mem[x] = h4.mem[x]
  <2>1. PICK a : a = n + 16
    OBVIOUS
  <2>2. t \in Int /\ (n = 0 \/ a \in D) /\ h4 \in Memory(D)
    BY <1>2, <1>3, <1>16, <2>1
  <2>3. /\ h5 \in Memory(D)
        /\ h5.head = h4.head
        /\ n # 0 => h5.mem[a] = t
        /\ \A x \in D : n = 0 \/ x # a => h5.mem[x] = h4.mem[x]
    BY <1>18, <2>1, <2>2, LinkPrevIs
  <2>. QED  BY <2>1, <2>3
<1>20. e = Store(h5, b, t - b)
  <2>1. h1 = Store(h, t, (b + SizeOf(h, b)) - t)
    BY <1>6 DEF SizeOf
  <2>2. h3 = TailHeader(h, b, t)
    BY <1>8, <1>9, <1>11, <1>12, <2>1 DEF TailHeader
  <2>3. h5 = LinkPrev(h4, NextOf(h4, b), t) /\ h4 = LinkNext(h3, PrevOf(h3, b), t)
    BY <1>14, <1>15, <1>17, <1>18
  <2>4. Cut(h, b, t) = Store(h5, b, t - b)
    BY ONLY <2>2, <2>3 DEF Cut
  <2>. QED  BY <2>4
<1>21. /\ e \in Memory(D) /\ e.head = h4.head
       /\ \A x \in D : e.mem[x] = IF x = b THEN t - b ELSE h5.mem[x]
  <2>1. t - b \in Int /\ b \in D /\ h5 \in Memory(D) /\ h5.head = h4.head
    BY <1>3, <1>19
  <2>. QED  BY <1>20, <2>1, StoreIs
(* All six stores at once. *)
<1>22. ASSUME NEW x \in D
       PROVE  e.mem[x] = IF x = b THEN t - b
                         ELSE IF n # 0 /\ x = n + 16 THEN t
                         ELSE IF p # 0 /\ x = p + 8 THEN t
                         ELSE IF x = t + 16 THEN p
                         ELSE IF x = t + 8 THEN n
                         ELSE IF x = t THEN (b + h.mem[b]) - t
                         ELSE h.mem[x]
  BY <1>7, <1>10, <1>13, <1>16, <1>19, <1>21
<1>23. e.mem[b] = t - b /\ e.mem[t] = (b + h.mem[b]) - t
  <2>1. n # 0 => t # n + 16
    BY <1>4, <1>5
  <2>2. p # 0 => t # p + 8
    BY <1>4, <1>5
  <2>. QED  BY ZenonT(60), <1>3, <1>4, <1>5, <1>22, <2>1, <2>2
<1>24. \A x \in D \ LinkWords(C) : x # b /\ x # t => e.mem[x] = h.mem[x]
  <2>1. t + 8 \in LinkWords(C) /\ t + 16 \in LinkWords(C)
    BY <1>5 DEF LinkWords
  <2>2. (p # 0 => p + 8 \in LinkWords(C)) /\ (n # 0 => n + 16 \in LinkWords(C))
    BY <1>5 DEF LinkWords
  <2>. QED  BY <1>22, <2>1, <2>2
<1>25. ASSUME NEW c \in C
       PROVE  /\ NextOf(e, c) = IF c = p THEN t ELSE IF c = t THEN n ELSE NextOf(h, c)
              /\ PrevOf(e, c) = IF c = n THEN t ELSE IF c = t THEN p ELSE PrevOf(h, c)
  <2>1. c \in Int /\ c # 0 /\ c + 8 \in D /\ c + 16 \in D
    BY SMTT(60) DEF Spaced
  <2>2. c + 8 # b /\ c + 8 # t + 16 /\ c + 8 # t /\ (n # 0 => c + 8 # n + 16)
    BY <1>4, <1>5
  <2>3. c + 16 # b /\ c + 16 # t + 8 /\ c + 16 # t /\ (p # 0 => c + 16 # p + 8)
    BY <1>4, <1>5
  <2>4. /\ c + 8 = p + 8 <=> c = p
        /\ c + 8 = t + 8 <=> c = t
        /\ c + 16 = n + 16 <=> c = n
        /\ c + 16 = t + 16 <=> c = t
    <3>1. p \in Int /\ n \in Int /\ t \in Int
      BY <1>2, <1>3
    <3>. QED  BY <2>1, <3>1
  <2>5. e.mem[c + 8] = IF c = p THEN t ELSE IF c = t THEN n ELSE h.mem[c + 8]
    BY <1>22, <2>1, <2>2, <2>4
  <2>6. e.mem[c + 16] = IF c = n THEN t ELSE IF c = t THEN p ELSE h.mem[c + 16]
    BY <1>22, <2>1, <2>3, <2>4
  <2>. QED  BY <2>5, <2>6 DEF NextOf, PrevOf
<1> DEFINE R == ReplaceAt(F, k, t)
<1>26. /\ R \in Seq(C) /\ Len(R) = Len(F) /\ DOMAIN R = 1 .. Len(F)
       /\ \A i \in 1 .. Len(F) : R[i] = IF i = k THEN t ELSE F[i]
  BY <1>0, <1>2, <1>5 DEF ReplaceAt
<1> HIDE DEF R
<1>27. e.head = IF R = <<>> THEN 0 ELSE R[1]
  <2>1. h.head = F[1] /\ R # <<>>
    BY <1>2, <1>26 DEF Linked
  <2>. QED  BY <1>2, <1>16, <1>21, <1>26, <2>1
<1>28. ASSUME NEW i \in DOMAIN R
       PROVE  /\ NextOf(e, R[i]) = IF i = Len(R) THEN 0 ELSE R[i + 1]
              /\ PrevOf(e, R[i]) = IF i = 1 THEN 0 ELSE R[i - 1]
  <2>0. i \in 1 .. Len(F) /\ F[i] \in B /\ F[i] # t /\ F[i] # 0 /\ R[i] \in C
    <3>1. i \in 1 .. Len(F) /\ R[i] \in C
      BY <1>26
    <3>2. i \in DOMAIN F
      BY <1>2, <3>1
    <3>3. F[i] \in B
      BY <3>2
    <3>4. F[i] # t /\ F[i] # 0
      BY <3>3 DEF Spaced
    <3>. QED  BY <3>1, <3>3, <3>4
  <2>1. /\ NextOf(h, F[i]) = IF i = Len(F) THEN 0 ELSE F[i + 1]
        /\ PrevOf(h, F[i]) = IF i = 1 THEN 0 ELSE F[i - 1]
    BY <2>0 DEF Linked
  <2>2. (F[i] = p <=> i = k - 1) /\ (F[i] = n <=> i = k + 1)
    <3>1. k # 1 => (F[i] = F[k - 1] <=> i = k - 1)
      BY <1>2, <2>0 DEF Injective
    <3>2. k # Len(F) => (F[i] = F[k + 1] <=> i = k + 1)
      BY <1>2, <2>0 DEF Injective
    <3>. QED  BY SMTT(60), <1>2, <2>0, <3>1, <3>2
  <2>3. /\ i # Len(F) => R[i + 1] = IF i + 1 = k THEN t ELSE F[i + 1]
        /\ i # 1 => R[i - 1] = IF i - 1 = k THEN t ELSE F[i - 1]
    BY SMTT(60), <1>2, <1>26, <2>0
  <2>4. CASE i = k
    <3>1. R[i] = t /\ t # p /\ t # n
      BY <1>2, <1>3, <1>26, <2>4
    <3>2. NextOf(e, R[i]) = n /\ PrevOf(e, R[i]) = p
      BY <1>25, <2>0, <3>1
    <3>. QED  BY <1>2, <1>26, <2>3, <2>4, <3>2
  <2>5. CASE i # k
    <3>1. R[i] = F[i]
      BY <1>26, <2>0, <2>5
    <3>2. /\ NextOf(e, R[i]) = IF i = k - 1 THEN t ELSE NextOf(h, F[i])
          /\ PrevOf(e, R[i]) = IF i = k + 1 THEN t ELSE PrevOf(h, F[i])
      BY <1>25, <2>0, <2>2, <3>1
    <3>. QED  BY SMTT(60), <1>2, <1>26, <2>0, <2>1, <2>3, <3>2
  <2>. QED  BY <2>4, <2>5
<1>29. Linked(e, R)
  BY <1>27, <1>28 DEF Linked
<1>. QED  BY <1>21, <1>23, <1>24, <1>29 DEF R, IsCut

(* Prepend puts a node in front. *)
LEMMA PrependIs ==
  ASSUME NEW B, NEW D, Spaced(B, D), NEW h \in Memory(D),
         NEW F \in Seq(B), Injective(F), Linked(h, F), NEW b \in B, b \notin ToSet(F),
         NEW e, e = Prepend(h, b)
  PROVE  /\ e \in Memory(D)
         /\ Linked(e, Cons(b, F))
         /\ \A x \in D \ LinkWords(B) : e.mem[x] = h.mem[x]
<1>1. /\ b \in Int /\ b # 0 /\ b + 8 \in D /\ b + 16 \in D /\ h.head \in Int
      /\ Len(F) \in Nat /\ DOMAIN F = 1 .. Len(F)
  BY DEF Spaced, Memory
<1>2. /\ h.head = 0 <=> Len(F) = 0
      /\ Len(F) # 0 => h.head = F[1] /\ h.head \in B /\ h.head + 16 \in D
  <2>1. Len(F) # 0 => F[1] \in B
    BY <1>1
  <2>2. \A c \in B : c # 0 /\ c + 16 \in D
    BY DEF Spaced
  <2>. QED  BY <1>1, <2>1, <2>2 DEF Linked
<1>3. PICK h1 : h1 = Store(h, b + 8, h.head)
  OBVIOUS
<1>4. /\ h1 \in Memory(D) /\ h1.head = h.head
      /\ \A x \in D : h1.mem[x] = IF x = b + 8 THEN h.head ELSE h.mem[x]
  <2>1. b + 8 \in D /\ h.head \in Int
    BY <1>1
  <2>. QED  BY <1>3, <2>1, StoreIs
<1>5. PICK h2 : h2 = Store(h1, b + 16, 0)
  OBVIOUS
<1>6. /\ h2 \in Memory(D) /\ h2.head = h.head
      /\ \A x \in D : h2.mem[x] = IF x = b + 16 THEN 0 ELSE h1.mem[x]
  <2>1. b + 16 \in D /\ 0 \in Int /\ h1 \in Memory(D) /\ h1.head = h.head
    BY <1>1, <1>4
  <2>. QED  BY <1>5, <2>1, StoreIs
<1>7. PICK h3 : h3 = LinkPrev(h2, h.head, b)
  OBVIOUS
<1>8. /\ h3 \in Memory(D)
      /\ h.head # 0 => h3.mem[h.head + 16] = b
      /\ \A x \in D : h.head = 0 \/ x # h.head + 16 => h3.mem[x] = h2.mem[x]
  <2>1. PICK n, a : n = h.head /\ a = n + 16
    OBVIOUS
  <2>2. b \in Int /\ (n = 0 \/ a \in D) /\ h2 \in Memory(D) /\ h3 = LinkPrev(h2, n, b)
    BY <1>1, <1>2, <1>6, <1>7, <2>1
  <2>3. /\ h3 \in Memory(D)
        /\ h3.head = h2.head
        /\ n # 0 => h3.mem[a] = b
        /\ \A x \in D : n = 0 \/ x # a => h3.mem[x] = h2.mem[x]
    BY <2>1, <2>2, LinkPrevIs
  <2>. QED  BY <2>1, <2>3
<1>9. e = [h3 EXCEPT !.head = b]
  BY <1>3, <1>5, <1>6, <1>7 DEF Prepend
<1>10. e \in Memory(D) /\ e.head = b /\ e.mem = h3.mem
  BY <1>1, <1>8, <1>9, SetHead
<1>11. ASSUME NEW x \in D
       PROVE  e.mem[x] = IF h.head # 0 /\ x = h.head + 16 THEN b
                         ELSE IF x = b + 16 THEN 0
                         ELSE IF x = b + 8 THEN h.head ELSE h.mem[x]
  BY <1>4, <1>6, <1>8, <1>10
<1>12. \A x \in D \ LinkWords(B) : e.mem[x] = h.mem[x]
  <2>1. b + 8 \in LinkWords(B) /\ b + 16 \in LinkWords(B)
    BY DEF LinkWords
  <2>2. h.head # 0 => h.head + 16 \in LinkWords(B)
    BY <1>1, <1>2 DEF LinkWords
  <2>. QED  BY <1>11, <2>1, <2>2
<1>13. ASSUME NEW c \in B
       PROVE  /\ NextOf(e, c) = IF c = b THEN h.head ELSE NextOf(h, c)
              /\ PrevOf(e, c) = IF c = h.head THEN b ELSE IF c = b THEN 0 ELSE PrevOf(h, c)
  <2>1. c \in Int /\ c # 0 /\ c + 8 \in D /\ c + 16 \in D
    BY DEF Spaced
  <2>2. c + 8 # b + 16 /\ b + 8 # c + 16
    BY FieldsApart
  <2>3. h.head # 0 => c + 8 # h.head + 16
    BY <1>1, <1>2, FieldsApart
  <2>. QED  BY SMTT(60), <1>1, <1>11, <2>1, <2>2, <2>3 DEF NextOf, PrevOf
<1> DEFINE R == Cons(b, F)
<1>14. /\ R \in Seq(B) /\ Len(R) = Len(F) + 1 /\ DOMAIN R = 1 .. Len(F) + 1
       /\ \A i \in 1 .. Len(F) + 1 : R[i] = IF i = 1 THEN b ELSE F[i - 1]
  BY ConsIs
<1> HIDE DEF R
<1>15. e.head = IF R = <<>> THEN 0 ELSE R[1]
  <2>1. R # <<>> /\ R[1] = b
    BY <1>1, <1>14
  <2>. QED  BY <1>10, <2>1
<1>16. ASSUME NEW i \in DOMAIN R
       PROVE  /\ NextOf(e, R[i]) = IF i = Len(R) THEN 0 ELSE R[i + 1]
              /\ PrevOf(e, R[i]) = IF i = 1 THEN 0 ELSE R[i - 1]
  <2>1. CASE i = 1
    <3>1. R[i] = b /\ (Len(F) # 0 => R[i + 1] = F[1])
      BY <1>1, <1>14, <2>1
    <3>2. b # h.head
      <4>1. Len(F) # 0 => F[1] \in ToSet(F)
        BY <1>1 DEF ToSet
      <4>. QED  BY <1>1, <1>2, <4>1
    <3>3. NextOf(e, b) = h.head /\ PrevOf(e, b) = 0
      BY <1>13, <3>2
    <3>. QED  BY <1>1, <1>2, <1>14, <2>1, <3>1, <3>3
  <2>2. CASE i # 1
    <3>1. PICK j \in 1 .. Len(F) : i = j + 1
      <4>1. i - 1 \in 1 .. Len(F) /\ i = (i - 1) + 1
        BY <1>1, <1>14, <2>2
      <4>. QED  BY <4>1
    <3>2. /\ R[i] = F[j] /\ F[j] \in B /\ F[j] # b
          /\ j # Len(F) => R[i + 1] = F[j + 1]
          /\ R[i - 1] = IF j = 1 THEN b ELSE F[j - 1]
      <4>1. R[i] = F[j]
        BY <1>1, <1>14, <3>1
      <4>2. F[j] \in B /\ F[j] # b
        BY <1>1 DEF ToSet
      <4>3. ASSUME j # Len(F) PROVE R[i + 1] = F[j + 1]
        <5>1. i + 1 \in 1 .. Len(F) + 1 /\ i + 1 # 1 /\ (i + 1) - 1 = j + 1
          <6>1. Len(F) \in Nat
            OBVIOUS
          <6>. QED  BY <3>1, <4>3, <6>1
        <5>2. R[i + 1] = F[(i + 1) - 1]
          BY <1>14, <5>1
        <5>. QED  BY <5>1, <5>2
      <4>4. R[i - 1] = IF j = 1 THEN b ELSE F[j - 1]
        BY <1>1, <1>14, <3>1
      <4>. QED  BY <4>1, <4>2, <4>3, <4>4
    <3>3. /\ NextOf(h, F[j]) = IF j = Len(F) THEN 0 ELSE F[j + 1]
          /\ PrevOf(h, F[j]) = IF j = 1 THEN 0 ELSE F[j - 1]
      <4>1. j \in DOMAIN F
        BY <1>1
      <4>. QED  BY <4>1 DEF Linked
    <3>4. F[j] = h.head <=> j = 1
      <4>1. h.head = F[1] /\ 1 \in DOMAIN F /\ j \in DOMAIN F
        BY <1>1, <1>2, <3>1
      <4>. QED  BY <4>1 DEF Injective
    <3>5. /\ NextOf(e, R[i]) = NextOf(h, F[j])
          /\ PrevOf(e, R[i]) = IF j = 1 THEN b ELSE PrevOf(h, F[j])
      BY <1>13, <3>2, <3>4
    <3>6. (i = Len(R) <=> j = Len(F)) /\ i # 1
      <4>1. Len(F) \in Nat /\ Len(R) = Len(F) + 1
        BY <1>14
      <4>. QED  BY <3>1, <4>1
    <3>. QED  BY <3>2, <3>3, <3>5, <3>6
  <2>. QED  BY <2>1, <2>2
<1>17. Linked(e, R)
  BY <1>15, <1>16 DEF Linked
<1>. QED  BY <1>10, <1>12, <1>17 DEF R
-----------------------------------------------------------------------------
(***************************************************************************)
(* The words of a state: headers, paddings and callers' bytes lie apart.   *)
(***************************************************************************)
LEMMA WordsFacts ==
  ASSUME NEW lo \in Nat, lo > 0, NEW hi \in Nat
  PROVE  /\ Words(lo, hi) \subseteq Nat \ {0} /\ IsFiniteSet(Words(lo, hi))
         /\ \A x \in Nat : x \in Words(lo, hi) <=> lo <= x /\ x + 8 <= hi /\ x % 8 = 0
<1>1. Words(lo, hi) \subseteq Nat \ {0}
  BY DEF Words
<1>2. \A x \in Words(lo, hi) : x <= hi
  BY DEF Words
<1>3. Words(lo, hi) \in SUBSET Nat
  BY <1>1
<1>4. IsFiniteSet(Words(lo, hi))
  BY <1>2, <1>3, FS_BoundedSetOfNaturals
<1>. QED  BY <1>1, <1>4 DEF Words

LEMMA Bounds8 ==
  ASSUME IInv, Installed
  PROVE  start \in Nat /\ start > 0 /\ end \in Nat /\ end % 8 = 0
  BY DEF IInv, TypeOK, Boot

LEMMA HeadsSpaced ==
  ASSUME IInv, Installed
  PROVE  Spaced(Heads, Words(start, end))
<1>1. \A x \in Nat : x \in Words(start, end) <=> start <= x /\ x + 8 <= end /\ x % 8 = 0
  BY Bounds8, WordsFacts
<1>2. ASSUME NEW b \in Heads
      PROVE  /\ b \in Nat \ {0}
             /\ b \in Words(start, end) /\ b + 8 \in Words(start, end)
             /\ b + 16 \in Words(start, end)
  <2>1. /\ b \in Nat /\ b > 0 /\ b % 8 = 0 /\ start <= b
        /\ b + 32 <= BlockEnd(b) /\ BlockEnd(b) <= end /\ BlockEnd(b) \in Nat
    BY BlockFacts
  <2>2. start \in Nat /\ end \in Nat
    BY Bounds8
  <2>3. b + 32 <= end /\ (b + 8) % 8 = 0 /\ (b + 16) % 8 = 0
    BY <2>1, <2>2
  <2>. QED  BY <1>1, <2>1, <2>2, <2>3
<1>3. ASSUME NEW b \in Heads, NEW c \in Heads, b < c PROVE b + 24 <= c
  <2>1. b \in Nat /\ c \in Nat /\ BlockEnd(b) \in Nat /\ b + 32 <= BlockEnd(b)
    BY BlockFacts
  <2>2. BlockEnd(b) <= c
    BY <1>3, BlocksOrdered
  <2>. QED  BY <2>1, <2>2
<1>. QED  BY <1>2, <1>3 DEF Spaced

(* Above its header, a block holds no header. *)
LEMMA InteriorClear ==
  ASSUME IInv, NEW b \in Heads, NEW x \in Nat, b + 24 <= x, x < BlockEnd(b)
  PROVE  x \notin Heads /\ x \notin LinkWords(Heads)
<1>1. ASSUME NEW c \in Heads PROVE x # c /\ x # c + 8 /\ x # c + 16
  <2>1. /\ b \in Nat /\ c \in Nat /\ c + 32 <= BlockEnd(c)
        /\ BlockEnd(b) \in Nat /\ BlockEnd(c) \in Nat
    BY BlockFacts
  <2>2. b < c => BlockEnd(b) <= c
    BY BlocksOrdered
  <2>3. c < b => BlockEnd(c) <= b
    BY BlocksOrdered
  <2>. QED  BY <2>1, <2>2, <2>3
<1>. QED  BY <1>1 DEF LinkWords

(* What the memory says of blocks and grants. *)
LEMMA HeadsAre ==
  ASSUME IInv
  PROVE  Heads = FreeSet \cup {GrantBlock(g) : g \in live}
<1>1. FreeSet \subseteq Heads
  BY DEF IInv, TypeOK, FreeSet, ToSet
<1>. QED  BY <1>1 DEF IInv, BlocksAccounted

LEMMA ReadBlock ==
  ASSUME MemInv, NEW b \in Heads
  PROVE  size[b] = s.mem[b] /\ SizeOf(s, b) = size[b] /\ b + SizeOf(s, b) = BlockEnd(b)
<1>1. b \in DOMAIN Sizes /\ size = Sizes
  BY DEF MemInv, View, Heads
<1>. QED  BY <1>1 DEF Sizes, SizeOf, BlockEnd

LEMMA ReadGrant ==
  ASSUME MemInv, NEW g \in live
  PROVE  /\ pad[g.ptr] = s.mem[g.ptr - 8]
         /\ HeaderOf(g.ptr) = GrantBlock(g)
<1>1. pad = Pads /\ g.ptr \in Ptrs
  BY DEF MemInv, View, Ptrs
<1>2. pad[g.ptr] = s.mem[g.ptr - 8]
  BY <1>1 DEF Pads, HEADER_GAP
<1>. QED  BY <1>2 DEF HeaderOf, GrantBlock, BlockOf, HEADER_GAP

(* The padding and the bytes of a grant are inside its block, above the    *)
(* header.                                                                 *)
LEMMA GrantWords ==
  ASSUME IInv, NEW g \in live, g.ptr % 8 = 0
  PROVE  /\ GrantBlock(g) \in Heads
         /\ g.ptr - 8 \in Words(start, end)
         /\ GrantBlock(g) + 24 <= g.ptr - 8 /\ g.ptr - 8 < BlockEnd(GrantBlock(g))
         /\ \A x \in Words(start, end) :
              Touches(x, g.ptr, g.size) =>
                GrantBlock(g) + 24 <= x /\ x < BlockEnd(GrantBlock(g))
<1> DEFINE b == GrantBlock(g)
<1>1. /\ b \in Heads /\ g.ptr \in Nat /\ g.size \in Nat
      /\ b + 32 <= g.ptr /\ g.ptr + Max1(g.size) <= BlockEnd(b)
      /\ g.ptr < BlockEnd(b)
  BY GrantFacts
<1>2. /\ Installed /\ b \in Nat /\ start <= b /\ BlockEnd(b) \in Nat /\ BlockEnd(b) <= end
  BY <1>1, BlockFacts
<1> HIDE DEF b
<1>3. start \in Nat /\ start > 0 /\ end \in Nat
  BY <1>2, Bounds8
<1>4. g.size <= Max1(g.size) /\ Max1(g.size) \in Nat
  BY <1>1 DEF Max1
<1>5. \A x \in Nat : x \in Words(start, end) <=> start <= x /\ x + 8 <= end /\ x % 8 = 0
  BY <1>3, WordsFacts
<1>6. g.ptr - 8 \in Words(start, end)
  <2>1. g.ptr - 8 \in Nat /\ start <= g.ptr - 8 /\ (g.ptr - 8) + 8 <= end
    BY <1>1, <1>2, <1>3
  <2>2. (g.ptr - 8) % 8 = 0
    BY <1>1
  <2>. QED  BY <1>5, <2>1, <2>2
<1>7. b + 24 <= g.ptr - 8 /\ g.ptr - 8 < BlockEnd(b)
  BY <1>1, <1>2
<1>8. ASSUME NEW x \in Words(start, end), Touches(x, g.ptr, g.size)
      PROVE  b + 24 <= x /\ x < BlockEnd(b)
  <2>1. x \in Nat /\ x % 8 = 0
    BY <1>3, WordsFacts
  <2>2. x < g.ptr + g.size /\ g.ptr < x + 8
    BY <1>8 DEF Touches
  <2>3. g.ptr <= x
    BY <1>1, <2>1, <2>2
  <2>. QED  BY <1>1, <1>2, <1>4, <2>1, <2>2, <2>3
<1>. QED  BY <1>1, <1>6, <1>7, <1>8 DEF b

(* Read back, a memory linked along F has F as its list. *)
LEMMA ReadList ==
  ASSUME NEW lo \in Nat, lo > 0, NEW hi \in Nat, NEW h \in Memory(Words(lo, hi)),
         NEW F \in Seq(Words(lo, hi)), Injective(F), Linked(h, F)
  PROVE  NodesOf(h) = F
<1> DEFINE D == Words(lo, hi)
<1>1. IsFiniteSet(D) /\ 0 \notin D /\ D \subseteq Int
  BY WordsFacts
<1>2. DOMAIN h.mem = D
  BY DEF Memory
<1> HIDE DEF D
<1>. QED  BY <1>1, <1>2, NodesAre DEF D
-----------------------------------------------------------------------------
(***************************************************************************)
(* What alloc writes once a block is cut or taken.                         *)
(***************************************************************************)
LEMMA MultipleOf8 ==
  ASSUME NEW p \in Nat, NEW a \in Nat \ {0}, p % a = 0, a % 8 = 0
  PROVE  p % 8 = 0
<1> DEFINE q == p \div a
           c == a \div 8
<1>1. q \in Nat /\ p = a * q
  OBVIOUS
<1>2. c \in Nat /\ a = 8 * c
  OBVIOUS
<1> HIDE DEF q, c
<1>3. p = 8 * (c * q) /\ c * q \in Nat
  BY <1>1, <1>2
<1>. QED  BY <1>3

LEMMA PayloadAligned ==
  ASSUME NEW b \in Nat, b % 8 = 0, NEW a \in Nat \ {0}, a \in {1, 2, 4} \/ a % 8 = 0
  PROVE  PayloadOf(b, a) % 8 = 0
<1>1. CASE a \in {1, 2, 4}
  <2>1. b + 32 \in Nat /\ PayloadOf(b, a) = AlignUp(b + 32, a)
    BY DEF PayloadOf, HEADER_SIZE, HEADER_GAP
  <2>2. CASE a = 1
    BY <2>1, <2>2 DEF AlignUp
  <2>3. CASE a = 2
    BY <2>1, <2>3 DEF AlignUp
  <2>4. CASE a = 4
    BY <2>1, <2>4 DEF AlignUp
  <2>. QED  BY <1>1, <2>2, <2>3, <2>4
<1>2. CASE a % 8 = 0
  BY <1>2, Landing, MultipleOf8
<1>. QED  BY <1>1, <1>2

LEMMA FillIs ==
  ASSUME NEW D, NEW h, h \in Memory(D), NEW p, NEW n, NEW e, e = Fill(h, p, n)
  PROVE  /\ e \in Memory(D) /\ e.head = h.head
         /\ \A x \in D : Touches(x, p, n) => e.mem[x] = User
         /\ \A x \in D : ~Touches(x, p, n) => e.mem[x] = h.mem[x]
<1>1. DOMAIN h.mem = D /\ h.head \in Int /\ \A x \in D : h.mem[x] \in Int
  BY DEF Memory
<1>2. User \in Int
  BY DEF User
<1> DEFINE m == [x \in D |-> IF Touches(x, p, n) THEN User ELSE h.mem[x]]
<1>3. m \in [D -> Int]
  BY <1>1, <1>2
<1>4. e = [h EXCEPT !.mem = m]
  BY <1>1 DEF Fill
<1>5. /\ \A x \in D : Touches(x, p, n) => m[x] = User
      /\ \A x \in D : ~Touches(x, p, n) => m[x] = h.mem[x]
  OBVIOUS
<1> HIDE DEF m
<1>6. e \in Memory(D) /\ e.head = h.head /\ e.mem = m
  BY <1>3, <1>4 DEF Memory
<1>. QED  BY <1>5, <1>6

(* The padding word and the grant: nothing below b + 24 or from lim on is  *)
(* written.                                                                *)
Outside(x, b, lim) == x < b + 24 \/ lim <= x

Placed(b, p, n, lim) ==
  /\ b \in Nat /\ p \in Nat /\ n \in Nat /\ lim \in Nat
  /\ p % 8 = 0 /\ b + 32 <= p /\ p + n <= lim /\ p <= lim

Aligned8(D) == D \subseteq Nat /\ \A x \in D : x % 8 = 0

(* The end of alloc: the padding is stored, and the caller has its bytes.  *)
Hands(h, b, p, n) == Fill(Store(h, PadSlot(b, p), p - (b + HEADER_SIZE)), p, n)

Below(p) == p - 8
PadAt(b, p) == p - (b + 24)

LEMMA HandMemory ==
  ASSUME NEW D, Aligned8(D), NEW h, h \in Memory(D),
         NEW b, NEW p, NEW n, NEW lim, Placed(b, p, n, lim), Below(p) \in D,
         NEW e, e = Hands(h, b, p, n)
  PROVE  /\ e \in Memory(D) /\ e.head = h.head
         /\ e.mem[Below(p)] = PadAt(b, p)
         /\ \A x \in D : Touches(x, p, n) => e.mem[x] = User
         /\ \A x \in D : Outside(x, b, lim) => e.mem[x] = h.mem[x]
<1>0. PICK q, v : q = Below(p) /\ v = PadAt(b, p)
  OBVIOUS
<1>00. /\ b \in Nat /\ p \in Nat /\ n \in Nat /\ lim \in Nat
       /\ p % 8 = 0 /\ b + 32 <= p /\ p + n <= lim /\ p <= lim
       /\ q = p - 8 /\ v = p - (b + 24) /\ q \in D
       /\ D \subseteq Nat /\ \A x \in D : x % 8 = 0
  BY <1>0 DEF Placed, Below, PadAt, Aligned8
<1>1. PICK c : c = Store(h, q, v)
  OBVIOUS
<1>2. v \in Int
  BY <1>00
<1>3. /\ c \in Memory(D) /\ c.head = h.head
      /\ \A x \in D : c.mem[x] = IF x = q THEN v ELSE h.mem[x]
  BY <1>00, <1>1, <1>2, StoreIs
<1>4. e = Fill(c, p, n)
  BY <1>00, <1>1 DEF Hands, PadSlot, HEADER_GAP, HEADER_SIZE
<1>5. /\ e \in Memory(D) /\ e.head = c.head
      /\ \A x \in D : Touches(x, p, n) => e.mem[x] = User
      /\ \A x \in D : ~Touches(x, p, n) => e.mem[x] = c.mem[x]
  <2>1. c \in Memory(D)
    BY <1>3
  <2>. QED  BY <1>4, <2>1, FillIs
<1>6. e.mem[q] = v
  <2>1. ~Touches(q, p, n)
    BY <1>00 DEF Touches
  <2>. QED  BY <1>00, <1>3, <1>5, <2>1
<1>7. ASSUME NEW x \in D, Outside(x, b, lim) PROVE e.mem[x] = h.mem[x]
  <2>1. x \in Nat /\ x % 8 = 0
    BY <1>00
  <2>2. x # q
    BY <1>00, <1>7, <2>1 DEF Outside
  <2>3. ~Touches(x, p, n)
    BY <1>00, <1>7, <2>1 DEF Touches, Outside
  <2>. QED  BY <1>3, <1>5, <2>2, <2>3
<1>. QED  BY <1>0, <1>3, <1>5, <1>6, <1>7
-----------------------------------------------------------------------------
(***************************************************************************)
(* alloc, whether it cut the block or took it whole: h is the memory once  *)
(* the list is F, B the headers there are then, lim the end of what is     *)
(* handed out.  What is read back afterwards.                              *)
(***************************************************************************)
Room(b, p, n, lim) ==
  p % 8 = 0 /\ lim \in Nat /\ p + n <= lim /\ p <= lim /\ lim <= BlockEnd(b)

Tails(B, b, lim) ==
  /\ Heads \subseteq B
  /\ \A c \in B : c \in Heads \/ (lim <= c /\ c + 24 <= BlockEnd(b))

Padded(b, p) ==
  pad' = [x \in DOMAIN pad \cup {p} |->
            IF x = p THEN p - (b + HEADER_SIZE) ELSE pad[x]]

(* What alloc does with the block b, once h is the memory. *)
GivesOut(h, b, p, n, a) ==
  /\ s' = Hands(h, b, p, n)
  /\ live' = live \cup {[ptr |-> p, size |-> n, align |-> a]}
  /\ start' = start /\ end' = end
  /\ View'

(* The memory h: linked along F, and nothing but headers written.          *)
Relinked(D, B, h, F) ==
  /\ D = Words(start, end) /\ Spaced(B, D)
  /\ h \in Memory(D) /\ F \in Seq(B) /\ Injective(F) /\ Linked(h, F)
  /\ \A x \in D \ LinkWords(B) : x \notin B => h.mem[x] = s.mem[x]

(* The headers of h are still there. *)
HeadersOf(B, h) == \A x \in B : s'.mem[x] = h.mem[x]

LEMMA Handed ==
  ASSUME MemInv, NEW n \in Nat, NEW a \in Nat \ {0}, NEW b \in FreeSet, Fits(b, n, a),
         NEW p, p = PayloadOf(b, a), NEW lim, Room(b, p, n, lim),
         NEW D, NEW B, Tails(B, b, lim), NEW h, NEW F, Relinked(D, B, h, F),
         GivesOut(h, b, p, n, a)
  PROVE  /\ free' = F /\ Sound' /\ Padded(b, p)
         /\ Heads' = ToSet(F) \cup {GrantBlock(g) : g \in live} \cup {b}
         /\ HeadersOf(B, h)
<1>0. PICK e : e = s'
  OBVIOUS
<1>1. IInv /\ Sound
  BY DEF MemInv
<1>a. p % 8 = 0 /\ lim \in Nat /\ p + n <= lim /\ p <= lim /\ lim <= BlockEnd(b)
  BY DEF Room
<1>d. PICK g0 : g0 = [ptr |-> p, size |-> n, align |-> a]
  OBVIOUS
<1>f. s' = Hands(h, b, p, n) /\ live' = live \cup {g0} /\ start' = start /\ end' = end /\ View'
  BY <1>d DEF GivesOut
<1>c. /\ D = Words(start, end) /\ Spaced(B, D)
      /\ h \in Memory(D) /\ F \in Seq(B) /\ Injective(F) /\ Linked(h, F)
      /\ \A x \in D \ LinkWords(B) : x \notin B => h.mem[x] = s.mem[x]
  BY DEF Relinked
<1>b. /\ Heads \subseteq B
      /\ \A c \in B : c \in Heads \/ (lim <= c /\ c + 24 <= BlockEnd(b))
  BY DEF Tails
<1>2. /\ b \in Heads /\ Installed /\ b \in Nat /\ b % 8 = 0 /\ start <= b
      /\ BlockEnd(b) \in Nat /\ BlockEnd(b) <= end
      /\ start \in Nat /\ start > 0 /\ end \in Nat /\ end % 8 = 0
  <2>1. b \in Heads
    BY <1>1, HeadsAre
  <2>. QED  BY <1>1, <2>1, BlockFacts, Bounds8
<1>3. p \in Nat /\ b + 32 <= p /\ \A g \in live : g.ptr # p
  BY <1>1, FreshPtr
<1>4. /\ D \subseteq Nat \ {0} /\ \A x \in D : x % 8 = 0
      /\ \A x \in Nat : x \in D <=> start <= x /\ x + 8 <= end /\ x % 8 = 0
  <2>1. /\ D \subseteq Nat \ {0}
        /\ \A x \in Nat : x \in D <=> start <= x /\ x + 8 <= end /\ x % 8 = 0
    BY <1>c, <1>2, WordsFacts
  <2>. QED  BY <2>1
<1>5. /\ e \in Memory(D) /\ e.head = h.head
      /\ e.mem[p - 8] = p - (b + 24)
      /\ \A x \in D : Touches(x, p, n) => e.mem[x] = User
      /\ \A x \in D : x < b + 24 \/ lim <= x => e.mem[x] = h.mem[x]
  <2>1. p - 8 \in D
    <3>1. p - 8 \in Nat /\ start <= p - 8 /\ (p - 8) + 8 <= end /\ (p - 8) % 8 = 0
      <4>1. p <= end /\ start + 32 <= p /\ p % 8 = 0
        BY <1>a, <1>2, <1>3
      <4>. QED  BY <1>2, <1>3, <4>1
    <3>. QED  BY <1>4, <3>1
  <2>2. Aligned8(D) /\ Below(p) \in D
    BY <1>4, <2>1 DEF Aligned8, Below
  <2>3. Placed(b, p, n, lim)
    BY <1>a, <1>2, <1>3 DEF Placed
  <2>4. e = Hands(h, b, p, n)
    BY <1>0, <1>f
  <2>5. /\ e \in Memory(D) /\ e.head = h.head
        /\ e.mem[Below(p)] = PadAt(b, p)
        /\ \A x \in D : Touches(x, p, n) => e.mem[x] = User
        /\ \A x \in D : Outside(x, b, lim) => e.mem[x] = h.mem[x]
    BY <1>c, <2>2, <2>3, <2>4, HandMemory
  <2>. QED  BY <2>5 DEF Outside, Below, PadAt
(* Headers and links are out of reach. *)
<1>6. ASSUME NEW c \in B
      PROVE  /\ c \in D /\ c + 8 \in D /\ c + 16 \in D
             /\ e.mem[c] = h.mem[c]
             /\ e.mem[c + 8] = h.mem[c + 8]
             /\ e.mem[c + 16] = h.mem[c + 16]
  <2>1. c \in Nat /\ c \in D /\ c + 8 \in D /\ c + 16 \in D
    BY <1>c DEF Spaced
  <2>2. CASE c \in Heads
    <3>1. /\ BlockEnd(c) \in Nat /\ c + 32 <= BlockEnd(c)
      BY <1>1, <2>2, BlockFacts
    <3>2. (b < c => BlockEnd(b) <= c) /\ (c < b => BlockEnd(c) <= b)
      BY <1>1, <1>2, <2>2, BlocksOrdered
    <3>3. c + 16 < b + 24 \/ lim <= c
      BY <1>a, <1>2, <2>1, <3>1, <3>2
    <3>. QED  BY <1>a, <1>2, <1>5, <2>1, <3>3
  <2>3. CASE lim <= c
    BY <1>a, <1>5, <2>1, <2>3
  <2>. QED  BY <1>b, <2>2, <2>3
<1>7. Linked(e, F)
  <2>1. \A x \in LinkWords(B) : e.mem[x] = h.mem[x]
    BY <1>6 DEF LinkWords
  <2>. QED  BY <1>c, <1>5, <2>1, LinkedKept
<1>8. free' = F
  <2>1. F \in Seq(D)
    <3>1. B \subseteq D
      BY <1>6
    <3>. QED  BY <1>c, <3>1
  <2>2. NodesOf(e) = F
    BY <1>c, <1>2, <1>5, <1>7, <2>1, ReadList
  <2>3. free' = Nodes'
    BY <1>f DEF View
  <2>. QED  BY <1>0, <2>2, <2>3 DEF Nodes
(* So is all that the other grants own. *)
<1>9. ASSUME NEW g \in live, NEW x \in D,
             GrantBlock(g) + 24 <= x, x < BlockEnd(GrantBlock(g))
      PROVE  e.mem[x] = s.mem[x]
  <2>1. /\ GrantBlock(g) \in Heads \ FreeSet /\ GrantBlock(g) \in Nat
        /\ BlockEnd(GrantBlock(g)) \in Nat /\ x \in Nat
    BY <1>1, <1>4, GrantFacts, BlockFacts
  <2>2. x \notin Heads /\ x \notin LinkWords(Heads)
    BY <1>1, <1>9, <2>1, InteriorClear
  <2>3. x < b \/ BlockEnd(b) <= x
    <3>1. GrantBlock(g) # b /\ GrantBlock(g) <= x
      BY <1>9, <2>1
    <3>2. ~(b <= x /\ x < BlockEnd(b))
      BY <1>1, <1>2, <1>9, <2>1, <3>1, BlocksDisjoint
    <3>. QED  BY <1>2, <2>1, <3>2
  <2>4. x \notin B /\ x \notin LinkWords(B)
    <3>1. ASSUME NEW c \in B, c \notin Heads PROVE x # c /\ x # c + 8 /\ x # c + 16
      <4>1. c \in Nat /\ lim <= c /\ c + 24 <= BlockEnd(b)
        BY <1>b, <1>c, <3>1 DEF Spaced
      <4>. QED  BY <1>a, <1>2, <1>3, <2>1, <2>3, <4>1
    <3>. QED  BY <2>2, <3>1 DEF LinkWords
  <2>5. h.mem[x] = s.mem[x]
    BY <1>c, <2>4
  <2>6. x < b + 24 \/ lim <= x
    BY <1>a, <1>2, <2>1, <2>3
  <2>. QED  BY <1>5, <2>5, <2>6
<1>10. ASSUME NEW g \in live
       PROVE  e.mem[g.ptr - 8] = pad[g.ptr] /\ HeaderOf(g.ptr)' = GrantBlock(g)
  <2>1. g.ptr % 8 = 0
    BY <1>1 DEF Sound
  <2>2. e.mem[g.ptr - 8] = s.mem[g.ptr - 8]
    BY <1>c, <1>1, <1>9, <2>1, GrantWords
  <2>3. e.mem[g.ptr - 8] = pad[g.ptr]
    BY <2>2, ReadGrant
  <2>4. GrantBlock(g) = (g.ptr - 24) - pad[g.ptr]
    BY <1>1, GrantFacts
  <2>. QED  BY <1>0, <2>3, <2>4 DEF HeaderOf, HEADER_SIZE, HEADER_GAP
<1>11. HeaderOf(p)' = b
  BY <1>0, <1>2, <1>3, <1>5 DEF HeaderOf, HEADER_SIZE, HEADER_GAP
<1>12. Ptrs' = Ptrs \cup {p} /\ DOMAIN pad = Ptrs /\ g0.ptr = p
  BY <1>1, <1>d, <1>f DEF Ptrs, IInv, TypeOK
<1>13. Padded(b, p)
  <2>1. pad' = [q \in Ptrs' |-> e.mem[q - 8]]
    BY <1>0, <1>f DEF View, Pads, HEADER_GAP
  <2>2. e.mem[p - 8] = p - (b + HEADER_SIZE)
    BY <1>5 DEF HEADER_SIZE
  <2>3. \A q \in Ptrs : q # p /\ e.mem[q - 8] = pad[q]
    BY <1>3, <1>10 DEF Ptrs
  <2>. QED  BY <1>12, <2>1, <2>2, <2>3 DEF Padded
<1>14. Heads' = ToSet(F) \cup {GrantBlock(g) : g \in live} \cup {b}
  <2>1. Heads' = ToSet(Nodes') \cup {HeaderOf(q)' : q \in Ptrs'}
    BY <1>f DEF View, Sizes, Heads
  <2>2. Nodes' = F
    BY <1>8, <1>f DEF View
  <2>3. {HeaderOf(q)' : q \in Ptrs'} = {GrantBlock(g) : g \in live} \cup {b}
    <3>1. ASSUME NEW q \in Ptrs'
          PROVE  HeaderOf(q)' \in {GrantBlock(g) : g \in live} \cup {b}
      <4>1. CASE q = p
        BY <1>11, <4>1
      <4>2. CASE q # p
        <5>1. PICK g \in live : q = g.ptr
          BY <1>12, <4>2 DEF Ptrs
        <5>. QED  BY <1>10, <5>1
      <4>. QED  BY <4>1, <4>2
    <3>2. ASSUME NEW g \in live PROVE g.ptr \in Ptrs' /\ HeaderOf(g.ptr)' = GrantBlock(g)
      BY <1>10, <1>12 DEF Ptrs
    <3>. QED  BY <1>11, <1>12, <3>1, <3>2
  <2>. QED  BY <2>1, <2>2, <2>3
<1>15. Sound'
  <2>1. \A g \in live' : g.ptr % 8 = 0
    BY <1>a, <1>1, <1>12, <1>f DEF Sound
  <2>2. ASSUME NEW g \in live', NEW x \in D, Touches(x, g.ptr, g.size)
        PROVE  e.mem[x] = User
    <3>1. CASE g \in live
      <4>1. s.mem[x] = User
        BY <1>c, <1>1, <2>2, <3>1 DEF Sound, CallerBytesIntact, Memory
      <4>2. GrantBlock(g) + 24 <= x /\ x < BlockEnd(GrantBlock(g))
        BY <1>c, <1>1, <2>2, <3>1, GrantWords DEF Sound
      <4>. QED  BY <1>9, <3>1, <4>1, <4>2
    <3>2. CASE g = g0
      <4>1. g.ptr = p /\ g.size = n
        BY <1>d, <3>2
      <4>. QED  BY <1>5, <2>2, <4>1
    <3>. QED  BY <1>f, <3>1, <3>2
  <2>3. DOMAIN e.mem = D /\ D = Words(start', end')
    BY <1>c, <1>f, <1>5 DEF Memory
  <2>4. CallerBytesIntact'
    BY <1>0, <2>2, <2>3 DEF CallerBytesIntact
  <2>. QED  BY <1>0, <1>5, <1>7, <1>8, <2>1, <2>3, <2>4 DEF Sound
<1>. QED  BY <1>0, <1>6, <1>8, <1>13, <1>14, <1>15 DEF HeadersOf

(* The block is taken whole. *)
LEMMA Taken ==
  ASSUME MemInv, NEW n \in Nat, NEW a \in Nat \ {0}, NEW k \in DOMAIN free,
         NEW b, b = free[k], Fits(b, n, a), NEW p, p = PayloadOf(b, a), p % 8 = 0,
         GivesOut(Unlink(s, b), b, p, n, a)
  PROVE  TakeWhole(k) /\ Sound' /\ Padded(b, p)
<1>1. IInv /\ Sound /\ b \in FreeSet /\ b \in Heads /\ Installed
  BY FreeBlock, BlockFacts DEF MemInv
<1>2. free \in Seq(Heads) /\ Injective(free) /\ FreeSet \subseteq Heads
  BY <1>1 DEF IInv, TypeOK, BlocksAccounted, Injective, FreeSet, ToSet
<1>3. PICK D, h, F, lim : /\ D = Words(start, end) /\ h = Unlink(s, b)
                          /\ F = RemoveAt(free, k) /\ lim = BlockEnd(b)
  OBVIOUS
<1>4. Spaced(Heads, D) /\ s \in Memory(D) /\ Linked(s, free)
  BY <1>1, <1>3, HeadsSpaced DEF Sound
<1>5. /\ h \in Memory(D) /\ Linked(h, F)
      /\ \A x \in D \ LinkWords(Heads) : h.mem[x] = s.mem[x]
  BY <1>2, <1>3, <1>4, UnlinkIs
<1>6. F \in Seq(Heads) /\ Injective(F) /\ ToSet(F) = FreeSet \ {b}
  <2>1. F \in Seq(Heads \ {b}) /\ Injective(F) /\ ToSet(F) = FreeSet \ {b}
    BY <1>2, <1>3, RemoveAtProps DEF FreeSet
  <2>. QED  BY <2>1
<1>7. Room(b, p, n, lim)
  <2>1. b \in Nat /\ b % 8 = 0 /\ lim \in Nat
    BY <1>1, <1>3, BlockFacts
  <2>2. p \in Nat
    BY <2>1, Landing
  <2>3. p + Max1(n) <= lim /\ Max1(n) \in Nat /\ n <= Max1(n)
    BY <1>3 DEF Fits, NeedEnd, Max1
  <2>. QED  BY <1>3, <2>1, <2>2, <2>3 DEF Room
<1>8. Tails(Heads, b, lim)
  BY DEF Tails
<1>9. GivesOut(h, b, p, n, a) /\ Relinked(D, Heads, h, F)
  BY <1>3, <1>4, <1>5, <1>6 DEF Relinked
<1>10. /\ free' = F /\ Sound' /\ Padded(b, p)
       /\ Heads' = ToSet(F) \cup {GrantBlock(g) : g \in live} \cup {b}
       /\ \A x \in Heads : s'.mem[x] = h.mem[x]
  <2>1. /\ free' = F /\ Sound' /\ Padded(b, p)
        /\ Heads' = ToSet(F) \cup {GrantBlock(g) : g \in live} \cup {b}
        /\ HeadersOf(Heads, h)
    BY ZenonT(60), <1>1, <1>7, <1>8, <1>9, Handed
  <2>. QED  BY <2>1 DEF HeadersOf
<1>11. Heads' = Heads
  BY <1>1, <1>6, <1>10, HeadsAre
<1>12. ASSUME NEW x \in Heads PROVE s'.mem[x] = size[x]
  <2>1. x \in D \ LinkWords(Heads)
    BY <1>4, FieldsApart DEF Spaced
  <2>. QED  BY <1>5, <1>10, <2>1, ReadBlock
<1>13. size' = [x \in Heads' |-> s'.mem[x]]
  BY DEF GivesOut, View, Sizes, SizeOf, Heads
<1>14. size' = size
  <2>1. size = [x \in Heads |-> size[x]]
    BY <1>1 DEF IInv, TypeOK
  <2>. QED  BY <1>11, <1>12, <1>13, <2>1
<1>. QED  BY <1>3, <1>10, <1>14 DEF TakeWhole

(* The block is cut, and its tail takes its place. *)
LEMMA Carved ==
  ASSUME MemInv, NEW n \in Nat, NEW a \in Nat \ {0}, NEW k \in DOMAIN free,
         NEW b, b = free[k], Fits(b, n, a), Splits(b, n, a),
         NEW p, p = PayloadOf(b, a), p % 8 = 0, NEW t, t = TailAddr(b, n, a),
         GivesOut(Cut(s, b, t), b, p, n, a)
  PROVE  CarveTail(k, t) /\ Sound' /\ Padded(b, p)
<1>1. IInv /\ Sound /\ b \in FreeSet /\ b \in Heads /\ Installed
  BY FreeBlock, BlockFacts DEF MemInv
<1>2. free \in Seq(Heads) /\ Injective(free) /\ FreeSet \subseteq Heads
  BY <1>1 DEF IInv, TypeOK, BlocksAccounted, Injective, FreeSet, ToSet
<1>3. PICK D, h, F, B : /\ D = Words(start, end) /\ h = Cut(s, b, t)
                        /\ F = ReplaceAt(free, k, t) /\ B = Heads \cup {t}
  OBVIOUS
<1>4. Spaced(Heads, D) /\ s \in Memory(D) /\ Linked(s, free)
  BY <1>1, <1>3, HeadsSpaced DEF Sound
<1>5. /\ b \in Nat /\ b % 8 = 0 /\ start <= b /\ start \in Nat /\ start > 0
      /\ BlockEnd(b) \in Nat /\ BlockEnd(b) <= end /\ end \in Nat
  BY <1>1, BlockFacts, Bounds8
<1>6. /\ p \in Nat /\ t \in Nat /\ t % 8 = 0 /\ b + 40 <= t /\ t + 48 <= BlockEnd(b)
      /\ p + n <= t /\ p <= t
  <2>1. /\ p \in Nat /\ NeedEnd(b, n, a) \in Nat /\ NeedEnd(b, n, a) <= t
        /\ t \in Nat /\ t % 8 = 0 /\ b + 40 <= t
    <3>1. /\ b \in Nat /\ b % 8 = 0 /\ n \in Nat /\ a \in Nat \ {0}
          /\ p = PayloadOf(b, a) /\ t = TailAddr(b, n, a)
      BY <1>5
    <3>. QED  BY ONLY ZenonT(60), <3>1, Landing
  <2>2. NeedEnd(b, n, a) = p + Max1(n) /\ Max1(n) \in Nat /\ n <= Max1(n)
    BY DEF NeedEnd, Max1
  <2>3. t + 48 <= BlockEnd(b)
    BY <1>5, <2>1 DEF Splits, HEADER_SIZE, MIN_BLOCK
  <2>. QED  BY <2>1, <2>2, <2>3
<1>7. ASSUME NEW c \in Heads
      PROVE  c \in Nat /\ (c <= b \/ BlockEnd(b) <= c)
  BY <1>1, <1>5, BlockFacts, BlocksOrdered
<1>8. t \notin Heads /\ t # b
  BY <1>5, <1>6, <1>7
<1>9. Spaced(B, D)
  <2>1. \A x \in Nat : x \in D <=> start <= x /\ x + 8 <= end /\ x % 8 = 0
    BY <1>3, <1>5, WordsFacts
  <2>2. t \in D /\ t + 8 \in D /\ t + 16 \in D
    <3>1. start <= t /\ t + 24 <= end /\ (t + 8) % 8 = 0 /\ (t + 16) % 8 = 0
      BY <1>5, <1>6
    <3>. QED  BY <1>5, <1>6, <2>1, <3>1
  <2>3. \A x, y \in B : x < y => x + 24 <= y
    <3>1. \A x, y \in Heads : x < y => x + 24 <= y
      BY <1>4 DEF Spaced
    <3>2. ASSUME NEW c \in Heads PROVE (t < c => t + 24 <= c) /\ (c < t => c + 24 <= t)
      BY <1>5, <1>6, <1>7
    <3>3. ~(t < t)
      BY <1>6
    <3>. QED  BY <1>3, <3>1, <3>2, <3>3
  <2>4. B \subseteq Nat \ {0}
    <3>1. t \in Nat \ {0} /\ Heads \subseteq Nat \ {0}
      BY <1>4, <1>5, <1>6 DEF Spaced
    <3>. QED  BY ONLY <1>3, <3>1
  <2>5. \A x \in B : x \in D /\ x + 8 \in D /\ x + 16 \in D
    BY <1>3, <1>4, <2>2 DEF Spaced
  <2>. QED  BY <2>3, <2>4, <2>5 DEF Spaced
<1>10. /\ h \in Memory(D) /\ Linked(h, F)
       /\ h.mem[t] = BlockEnd(b) - t
       /\ h.mem[b] = t - b
       /\ \A x \in D \ LinkWords(B) : x # b /\ x # t => h.mem[x] = s.mem[x]
  <2>2. h \in Memory(D) /\ Linked(h, F) /\ IsCut(D, B, s, h, b, t)
    BY <1>2, <1>3, <1>4, <1>8, <1>9, CutIs
  <2>3. b + s.mem[b] = BlockEnd(b)
    BY <1>1, ReadBlock DEF BlockEnd
  <2>. QED  BY <2>2, <2>3 DEF IsCut
<1>11. F \in Seq(B) /\ Injective(F) /\ ToSet(F) = (FreeSet \ {b}) \cup {t}
  BY SMTT(60), <1>2, <1>3, <1>8, ReplaceAtProps DEF FreeSet
<1>12. Room(b, p, n, t) /\ Tails(B, b, t)
  BY <1>3, <1>5, <1>6 DEF Room, Tails
<1>13. GivesOut(h, b, p, n, a) /\ Relinked(D, B, h, F)
  <2>1. b \in B /\ t \in B
    BY <1>1, <1>3
  <2>. QED  BY ZenonT(60), <1>3, <1>9, <1>10, <1>11, <2>1 DEF Relinked
<1>14. /\ free' = F /\ Sound' /\ Padded(b, p)
       /\ Heads' = ToSet(F) \cup {GrantBlock(g) : g \in live} \cup {b}
       /\ \A x \in B : s'.mem[x] = h.mem[x]
  <2>1. /\ free' = F /\ Sound' /\ Padded(b, p)
        /\ Heads' = ToSet(F) \cup {GrantBlock(g) : g \in live} \cup {b}
        /\ HeadersOf(B, h)
    BY ZenonT(60), <1>1, <1>12, <1>13, Handed
  <2>. QED  BY <2>1 DEF HeadersOf
<1>15. Heads' = Heads \cup {t}
  BY <1>1, <1>11, <1>14, HeadsAre
<1>16. ASSUME NEW x \in Heads \cup {t}
       PROVE  s'.mem[x] = IF x = b THEN t - b
                          ELSE IF x = t THEN BlockEnd(b) - t ELSE size[x]
  <2>1. s'.mem[x] = h.mem[x] /\ x \in B
    BY <1>3, <1>14
  <2>2. CASE x = b \/ x = t
    BY <1>8, <1>10, <2>1, <2>2
  <2>3. CASE x # b /\ x # t
    <3>1. x \in Heads /\ x \in D \ LinkWords(B)
      BY <1>9, <2>1, <2>3, FieldsApart DEF Spaced
    <3>. QED  BY <1>10, <2>1, <2>3, <3>1, ReadBlock
  <2>. QED  BY <2>2, <2>3
<1>17. size' = [x \in Heads' |-> s'.mem[x]]
  BY DEF GivesOut, View, Sizes, SizeOf, Heads
<1>18. size' = [x \in Heads \cup {t} |->
                  IF x = b THEN t - b
                  ELSE IF x = t THEN BlockEnd(b) - t ELSE size[x]]
  BY <1>15, <1>16, <1>17
<1>. QED  BY <1>3, <1>14, <1>18 DEF CarveTail

(* alloc on the memory is alloc on the blocks. *)
LEMMA MemAllocStep ==
  ASSUME MemInv, NEW n \in Nat, NEW a \in Nat \ {0}, a \in {1, 2, 4} \/ a % 8 = 0,
         MemAlloc(n, a), View'
  PROVE  Alloc(n, a) /\ Sound'
<1>1. IInv /\ free = Nodes
  BY DEF MemInv, View
<1>a. PICK k \in DOMAIN free :
        /\ FitsAt(free[k], n, a)
        /\ \A j \in 1 .. k - 1 : ~FitsAt(free[j], n, a)
        /\ s' = Hands(IF SplitsAt(free[k], n, a) THEN Cut(s, free[k], TailAddr(free[k], n, a))
                                                 ELSE Unlink(s, free[k]),
                      free[k], PayloadOf(free[k], a), n)
        /\ live' = live \cup {[ptr |-> PayloadOf(free[k], a), size |-> n, align |-> a]}
        /\ reply' = PayloadOf(free[k], a)
        /\ UNCHANGED <<start, end, region>>
  BY ONLY <1>1, MemAlloc(n, a) DEF MemAlloc, Hands
<1>2. PICK b, p, t :
        /\ b = free[k] /\ p = PayloadOf(b, a) /\ t = TailAddr(b, n, a)
        /\ FitsAt(b, n, a)
        /\ \A j \in 1 .. k - 1 : ~FitsAt(free[j], n, a)
        /\ s' = Hands(IF SplitsAt(b, n, a) THEN Cut(s, b, t) ELSE Unlink(s, b), b, p, n)
        /\ live' = live \cup {[ptr |-> p, size |-> n, align |-> a]}
        /\ reply' = p
        /\ UNCHANGED <<start, end, region>>
  BY <1>a
<1>3. ASSUME NEW j \in DOMAIN free
      PROVE  /\ free[j] \in Heads
             /\ FitsAt(free[j], n, a) <=> Fits(free[j], n, a)
             /\ SplitsAt(free[j], n, a) <=> Splits(free[j], n, a)
  <2>1. free[j] \in Heads
    BY <1>1 DEF IInv, TypeOK
  <2>2. free[j] + SizeOf(s, free[j]) = BlockEnd(free[j])
    BY <2>1, ReadBlock
  <2>. QED  BY <2>1, <2>2 DEF FitsAt, Fits, SplitsAt, Splits
<1>4. FirstFit(k, n, a) /\ Fits(b, n, a) /\ (SplitsAt(b, n, a) <=> Splits(b, n, a))
  <2>1. \A j \in 1 .. k - 1 : j \in DOMAIN free
    <3>1. free \in Seq(Heads)
      BY <1>1 DEF IInv, TypeOK
    <3>2. Len(free) \in Nat /\ DOMAIN free = 1 .. Len(free)
      BY ONLY <3>1
    <3>3. k \in 1 .. Len(free)
      BY ONLY <3>2, k \in DOMAIN free
    <3>4. \A j \in 1 .. k - 1 : j \in 1 .. Len(free)
      BY ONLY <3>2, <3>3
    <3>. QED  BY ONLY <3>2, <3>4
  <2>. QED  BY <1>2, <1>3, <2>1 DEF FirstFit
<1>5. p % 8 = 0
  <2>1. b \in Nat /\ b % 8 = 0
    BY <1>1, <1>2, <1>3, BlockFacts
  <2>. QED  BY <1>2, <2>1, PayloadAligned
<1>6. /\ Padded(b, p) => Hand(b, n, a)
  BY <1>2 DEF Hand, Padded
<1>7. CASE Splits(b, n, a)
  <2>1. GivesOut(Cut(s, b, t), b, p, n, a)
    BY <1>2, <1>4, <1>7 DEF GivesOut
  <2>2. CarveTail(k, t) /\ Sound' /\ Padded(b, p)
    BY <1>2, <1>4, <1>5, <1>7, <2>1, Carved
  <2>. QED  BY <1>2, <1>4, <1>6, <1>7, <2>2 DEF Alloc
<1>8. CASE ~Splits(b, n, a)
  <2>1. GivesOut(Unlink(s, b), b, p, n, a)
    BY <1>2, <1>4, <1>8 DEF GivesOut
  <2>2. TakeWhole(k) /\ Sound' /\ Padded(b, p)
    BY <1>2, <1>4, <1>5, <2>1, Taken
  <2>. QED  BY <1>2, <1>4, <1>6, <1>8, <2>2 DEF Alloc
<1>. QED  BY <1>7, <1>8
-----------------------------------------------------------------------------
(***************************************************************************)
(* dealloc, however the block was merged: the list is F.  What is read     *)
(* back afterwards.                                                        *)
(***************************************************************************)
Others(g) == {GrantBlock(x) : x \in live \ {g}}

LEMMA OthersAre ==
  ASSUME IInv, NEW g \in live, NEW b, b = GrantBlock(g)
  PROVE  /\ b \in Heads /\ b \notin FreeSet /\ b \notin Others(g)
         /\ Heads = FreeSet \cup {b} \cup Others(g)
         /\ FreeSet \cap Others(g) = {}
<1>1. \A x \in live : GrantBlock(x) \in Heads \ FreeSet
  BY GrantFacts
<1>2. \A x \in live : GrantBlock(x) = b => x = g
  BY DEF IInv, BlocksAccounted
<1>. QED  BY <1>1, <1>2, HeadsAre DEF Others

(* What dealloc leaves alone, and what is read back. *)
GivesBack(g) ==
  live' = live \ {g} /\ start' = start /\ end' = end /\ View'

Trimmed(g) == pad' = [p \in DOMAIN pad \ {g.ptr} |-> pad[p]]

LEMMA Freed ==
  ASSUME MemInv, NEW g \in live, GivesBack(g), NEW D, NEW F, Relinked(D, Heads, s', F)
  PROVE  /\ free' = F /\ Sound' /\ Trimmed(g)
         /\ Heads' = ToSet(F) \cup Others(g)
<1>0. PICK e : e = s'
  OBVIOUS
<1>1. IInv /\ Sound
  BY DEF MemInv
<1>2. live' = live \ {g} /\ start' = start /\ end' = end /\ View'
  BY DEF GivesBack
<1>3. /\ D = Words(start, end) /\ Spaced(Heads, D)
      /\ e \in Memory(D) /\ F \in Seq(Heads) /\ Injective(F) /\ Linked(e, F)
      /\ \A x \in D \ LinkWords(Heads) : x \notin Heads => e.mem[x] = s.mem[x]
  BY <1>0 DEF Relinked
<1>4. /\ Installed /\ start \in Nat /\ start > 0 /\ end \in Nat
      /\ D \subseteq Nat
  <2>1. Installed
    BY <1>1, GrantFacts, BlockFacts
  <2>2. start \in Nat /\ start > 0 /\ end \in Nat
    BY <1>1, <2>1, Bounds8
  <2>3. D \subseteq Nat \ {0}
    BY <1>3, <2>2, WordsFacts
  <2>. QED  BY <2>1, <2>2, <2>3
<1>5. free' = F
  <2>1. F \in Seq(D)
    <3>1. Heads \subseteq D
      BY <1>3 DEF Spaced
    <3>. QED  BY <1>3, <3>1
  <2>2. NodesOf(e) = F
    BY <1>3, <1>4, <2>1, ReadList
  <2>3. free' = Nodes'
    BY <1>2 DEF View
  <2>. QED  BY <1>0, <2>2, <2>3 DEF Nodes
<1>6. ASSUME NEW x \in live, NEW q \in D,
             GrantBlock(x) + 24 <= q, q < BlockEnd(GrantBlock(x))
      PROVE  e.mem[q] = s.mem[q]
  <2>1. GrantBlock(x) \in Heads /\ q \in Nat
    BY <1>1, <1>4, GrantFacts
  <2>2. q \notin Heads /\ q \notin LinkWords(Heads)
    BY <1>1, <1>6, <2>1, InteriorClear
  <2>. QED  BY <1>3, <2>2
<1>7. ASSUME NEW x \in live
      PROVE  e.mem[x.ptr - 8] = pad[x.ptr] /\ HeaderOf(x.ptr)' = GrantBlock(x)
  <2>1. x.ptr % 8 = 0
    BY <1>1 DEF Sound
  <2>2. e.mem[x.ptr - 8] = s.mem[x.ptr - 8]
    BY <1>1, <1>3, <1>6, <2>1, GrantWords
  <2>3. e.mem[x.ptr - 8] = pad[x.ptr]
    BY <2>2, ReadGrant
  <2>4. GrantBlock(x) = (x.ptr - 24) - pad[x.ptr]
    BY <1>1, GrantFacts
  <2>. QED  BY <1>0, <2>3, <2>4 DEF HeaderOf, HEADER_SIZE, HEADER_GAP
<1>8. Ptrs' = Ptrs \ {g.ptr} /\ DOMAIN pad = Ptrs
  <2>1. \A x \in live : x.ptr = g.ptr => x = g
    BY <1>1, PtrsDistinct
  <2>2. DOMAIN pad = Ptrs
    BY <1>1 DEF Ptrs, IInv, TypeOK
  <2>. QED  BY <1>2, <2>1, <2>2 DEF Ptrs
<1>9. Trimmed(g)
  <2>1. pad' = [q \in Ptrs' |-> e.mem[q - 8]]
    BY <1>0, <1>2 DEF View, Pads, HEADER_GAP
  <2>2. \A q \in Ptrs : e.mem[q - 8] = pad[q]
    BY <1>7 DEF Ptrs
  <2>. QED  BY <1>8, <2>1, <2>2 DEF Trimmed
<1>10. Heads' = ToSet(F) \cup Others(g)
  <2>1. Heads' = ToSet(Nodes') \cup {HeaderOf(q)' : q \in Ptrs'}
    BY <1>2 DEF View, Sizes, Heads
  <2>2. Nodes' = F
    BY <1>2, <1>5 DEF View
  <2>3. {HeaderOf(q)' : q \in Ptrs'} = Others(g)
    <3>1. ASSUME NEW q \in Ptrs' PROVE HeaderOf(q)' \in Others(g)
      <4>1. PICK x \in live' : q = x.ptr
        BY DEF Ptrs
      <4>. QED  BY <1>2, <1>7, <4>1 DEF Others
    <3>2. ASSUME NEW x \in live \ {g}
          PROVE  x.ptr \in Ptrs' /\ HeaderOf(x.ptr)' = GrantBlock(x)
      BY <1>2, <1>7 DEF Ptrs
    <3>. QED  BY <3>1, <3>2 DEF Others
  <2>. QED  BY <2>1, <2>2, <2>3
<1>11. Sound'
  <2>1. \A x \in live' : x.ptr % 8 = 0
    BY <1>1, <1>2 DEF Sound
  <2>2. ASSUME NEW x \in live', NEW q \in D, Touches(q, x.ptr, x.size)
        PROVE  e.mem[q] = User
    <3>1. x \in live
      BY <1>2
    <3>2. s.mem[q] = User
      BY <1>1, <1>3, <2>2, <3>1 DEF Sound, CallerBytesIntact, Memory
    <3>3. GrantBlock(x) + 24 <= q /\ q < BlockEnd(GrantBlock(x))
      BY <1>1, <1>3, <2>2, <3>1, GrantWords DEF Sound
    <3>. QED  BY <1>6, <3>1, <3>2, <3>3
  <2>3. DOMAIN e.mem = D /\ D = Words(start', end')
    BY <1>2, <1>3 DEF Memory
  <2>4. CallerBytesIntact'
    BY <1>0, <2>2, <2>3 DEF CallerBytesIntact
  <2>. QED  BY <1>0, <1>3, <1>5, <2>1, <2>3, <2>4 DEF Sound
<1>. QED  BY <1>5, <1>9, <1>10, <1>11
-----------------------------------------------------------------------------
(***************************************************************************)
(* The neighbours dealloc looks for, and the stores that join them.        *)
(***************************************************************************)
LEMMA MaxOfOne ==
  ASSUME NEW k \in Int, NEW I, I = {k}
  PROVE  Max(I) = k
  BY DEF Max

LEMMA LastNodeIs ==
  ASSUME NEW N, NEW I, I = {i \in DOMAIN Nodes : Nodes[i] \in N}
  PROVE  /\ I = {} => LastNode(N) = 0
         /\ \A k \in Int : I = {k} => LastNode(N) = Nodes[k]
  BY MaxOfOne DEF LastNode

LEMMA NeighboursAlone ==
  ASSUME IInv, NEW b \in Heads
  PROVE  /\ LeftOf(b) = {} \/ \E l \in DOMAIN free : LeftOf(b) = {l}
         /\ RightOf(b) = {} \/ \E k \in DOMAIN free : RightOf(b) = {k}
<1>1. ASSUME NEW i \in DOMAIN free
      PROVE  free[i] \in Heads /\ free[i] \in Nat /\ BlockEnd(free[i]) \in Nat
             /\ free[i] < BlockEnd(free[i])
  <2>1. free[i] \in Heads
    BY DEF IInv, TypeOK
  <2>. QED  BY <2>1, BlockFacts
<1>2. \A i, j \in DOMAIN free : free[i] = free[j] => i = j
  BY DEF IInv, BlocksAccounted
<1>3. ASSUME NEW i \in LeftOf(b), NEW j \in LeftOf(b) PROVE i = j
  <2>1. i \in DOMAIN free /\ j \in DOMAIN free /\ BlockEnd(free[i]) = BlockEnd(free[j])
    BY DEF LeftOf
  <2>2. free[i] < free[j] => BlockEnd(free[i]) <= free[j]
    BY <1>1, <2>1, BlocksOrdered
  <2>3. free[j] < free[i] => BlockEnd(free[j]) <= free[i]
    BY <1>1, <2>1, BlocksOrdered
  <2>4. free[i] = free[j]
    BY <1>1, <2>1, <2>2, <2>3
  <2>. QED  BY <1>2, <2>1, <2>4
<1>4. ASSUME NEW i \in RightOf(b), NEW j \in RightOf(b) PROVE i = j
  BY <1>2 DEF RightOf
<1>5. LeftOf(b) \subseteq DOMAIN free /\ RightOf(b) \subseteq DOMAIN free
  BY DEF LeftOf, RightOf
<1>. QED  BY <1>3, <1>4, <1>5

(* The walk finds them. *)
LEMMA LeftIs ==
  ASSUME MemInv, NEW b \in Heads, NEW N, N = {x \in ToSet(Nodes) : x + SizeOf(s, x) = b}
  PROVE  /\ LeftOf(b) = {} => LastNode(N) = 0
         /\ \A l \in DOMAIN free : LeftOf(b) = {l} => LastNode(N) = free[l]
<1>1. IInv /\ free = Nodes
  BY DEF MemInv, View
<1>2. ASSUME NEW i \in DOMAIN free PROVE free[i] + SizeOf(s, free[i]) = BlockEnd(free[i])
  <2>1. free[i] \in Heads
    BY <1>1 DEF IInv, TypeOK
  <2>. QED  BY <2>1, ReadBlock
<1>3. LeftOf(b) = {i \in DOMAIN Nodes : Nodes[i] \in N}
  BY <1>1, <1>2 DEF LeftOf, ToSet
<1>4. DOMAIN free \subseteq Int
  BY <1>1 DEF IInv, TypeOK
<1>5. PICK I : I = LeftOf(b)
  OBVIOUS
<1>6. I = {i \in DOMAIN Nodes : Nodes[i] \in N}
  BY <1>3, <1>5
<1>7. /\ I = {} => LastNode(N) = 0
      /\ \A k \in Int : I = {k} => LastNode(N) = Nodes[k]
  BY ONLY <1>6, LastNodeIs
<1>. QED  BY <1>1, <1>4, <1>5, <1>7

LEMMA RightIs ==
  ASSUME MemInv, NEW b \in Heads, NEW N, N = {b + SizeOf(s, b)}
  PROVE  /\ RightOf(b) = {} => LastNode(N) = 0
         /\ \A k \in DOMAIN free : RightOf(b) = {k} => LastNode(N) = free[k]
<1>1. IInv /\ free = Nodes
  BY DEF MemInv, View
<1>2. b + SizeOf(s, b) = BlockEnd(b)
  BY ReadBlock
<1>3. RightOf(b) = {i \in DOMAIN Nodes : Nodes[i] \in N}
  BY <1>1, <1>2 DEF RightOf
<1>4. DOMAIN free \subseteq Int
  BY <1>1 DEF IInv, TypeOK
<1>5. PICK I : I = RightOf(b)
  OBVIOUS
<1>6. I = {i \in DOMAIN Nodes : Nodes[i] \in N}
  BY <1>3, <1>5
<1>7. /\ I = {} => LastNode(N) = 0
      /\ \A k \in Int : I = {k} => LastNode(N) = Nodes[k]
  BY ONLY <1>6, LastNodeIs
<1>. QED  BY <1>1, <1>4, <1>5, <1>7

(* Size fields: that of b is z, the others are those of the blocks.        *)
Sizing(h, b, z) == \A x \in Heads : h.mem[x] = IF x = b THEN z ELSE size[x]

Region8 == Words(start, end)

LEMMA Unmerged ==
  ASSUME MemInv, NEW b \in Heads
  PROVE  Relinked(Region8, Heads, s, free) /\ Sizing(s, b, size[b])
<1>1. IInv /\ Sound /\ Installed
  BY BlockFacts DEF MemInv
<1>2. free \in Seq(Heads) /\ Injective(free)
  BY <1>1 DEF IInv, TypeOK, BlocksAccounted, Injective
<1>3. \A x \in Heads : s.mem[x] = size[x]
  BY ReadBlock
<1>. QED  BY <1>1, <1>2, <1>3, HeadsSpaced DEF Relinked, Region8, Sound, Sizing

LEMMA RightAbsorbed ==
  ASSUME MemInv, NEW b \in Heads, NEW k \in DOMAIN free, free[k] # b,
         NEW h, h = AbsorbRight(s, b, free[k]), NEW z, z = size[b] + size[free[k]]
  PROVE  Relinked(Region8, Heads, h, RemoveAt(free, k)) /\ Sizing(h, b, z)
<1>1. IInv /\ Sound /\ Installed
  BY BlockFacts DEF MemInv
<1>2. PICK D, r, e, F : /\ D = Words(start, end) /\ r = free[k] /\ e = Store(s, b, z)
                        /\ F = RemoveAt(free, k)
  OBVIOUS
<1>3. /\ free \in Seq(Heads) /\ Injective(free)
      /\ r \in Heads /\ r \in Nat \ {0} /\ size[b] \in Nat /\ size[r] \in Nat /\ z \in Int
  <2>1. free \in Seq(Heads) /\ Injective(free) /\ r \in Heads
    BY <1>1, <1>2 DEF IInv, TypeOK, BlocksAccounted, Injective
  <2>2. r \in Nat /\ r > 0 /\ size[b] \in Nat /\ size[r] \in Nat
    BY <1>1, <2>1, BlockFacts
  <2>. QED  BY <1>2, <2>1, <2>2
<1>4. Spaced(Heads, D) /\ s \in Memory(D) /\ Linked(s, free)
  BY <1>1, <1>2, HeadsSpaced DEF Sound
<1>5. h = Unlink(e, r)
  BY <1>2, <1>3, ReadBlock DEF AbsorbRight
<1>6. /\ e \in Memory(D) /\ e.head = s.head
      /\ \A x \in D : e.mem[x] = IF x = b THEN z ELSE s.mem[x]
  <2>1. b \in D
    BY <1>4 DEF Spaced
  <2>2. s \in Memory(D) /\ z \in Int /\ e = Store(s, b, z)
    BY <1>2, <1>3, <1>4
  <2>. QED  BY ONLY <2>1, <2>2, StoreIs
<1>7. Linked(e, free)
  <2>1. b \notin LinkWords(Heads)
    BY <1>4, FieldsApart
  <2>2. \A x \in LinkWords(Heads) : x \in D
    BY <1>4 DEF LinkWords, Spaced
  <2>3. \A x \in LinkWords(Heads) : e.mem[x] = s.mem[x]
    BY <1>6, <2>1, <2>2
  <2>. QED  BY <1>3, <1>4, <1>6, <2>3, LinkedKept
<1>8. /\ h \in Memory(D) /\ Linked(h, F)
      /\ \A x \in D \ LinkWords(Heads) : h.mem[x] = e.mem[x]
  BY <1>2, <1>3, <1>4, <1>5, <1>6, <1>7, UnlinkIs
<1>9. F \in Seq(Heads) /\ Injective(F)
  <2>1. F \in Seq(Heads \ {r}) /\ Injective(F)
    BY <1>2, <1>3, RemoveAtProps
  <2>. QED  BY <2>1
<1>10. \A x \in D \ LinkWords(Heads) : x \notin Heads => h.mem[x] = s.mem[x]
  BY <1>6, <1>8
<1>11. Relinked(Region8, Heads, h, F)
  BY <1>2, <1>4, <1>8, <1>9, <1>10 DEF Relinked, Region8
<1>12. ASSUME NEW x \in Heads PROVE h.mem[x] = IF x = b THEN z ELSE size[x]
  <2>1. x \in D \ LinkWords(Heads)
    BY <1>4, FieldsApart DEF Spaced
  <2>. QED  BY <1>6, <1>8, <2>1, ReadBlock
<1>. QED  BY <1>2, <1>11, <1>12 DEF Sizing

(* The left neighbour grows by z. *)
LEMMA LeftGrown ==
  ASSUME MemInv, NEW b \in Heads, NEW c \in Heads, c # b, NEW h, NEW G, NEW z \in Nat,
         Relinked(Region8, Heads, h, G), Sizing(h, b, z),
         NEW e, e = Store(h, c, SizeOf(h, c) + SizeOf(h, b))
  PROVE  /\ Relinked(Region8, Heads, e, G)
         /\ e.mem[c] = size[c] + z
         /\ \A x \in Heads \ {b, c} : e.mem[x] = size[x]
<1>1. /\ Spaced(Heads, Region8) /\ h \in Memory(Region8) /\ G \in Seq(Heads) /\ Linked(h, G)
      /\ Injective(G) /\ Region8 = Words(start, end)
      /\ \A x \in Region8 \ LinkWords(Heads) : x \notin Heads => h.mem[x] = s.mem[x]
  BY DEF Relinked
<1>2. h.mem[b] = z /\ h.mem[c] = size[c] /\ \A x \in Heads \ {b, c} : h.mem[x] = size[x]
  BY DEF Sizing
<1>3. PICK v : v = size[c] + z
  OBVIOUS
<1>4. v \in Int /\ e = Store(h, c, v)
  <2>1. size[c] \in Nat
    BY BlockFacts DEF MemInv
  <2>. QED  BY <1>2, <1>3, <2>1 DEF SizeOf
<1>5. Heads \subseteq Region8 /\ \A x \in LinkWords(Heads) : x \in Region8
  BY <1>1 DEF Spaced, LinkWords
<1>6. /\ e \in Memory(Region8) /\ e.head = h.head
      /\ \A x \in Region8 : e.mem[x] = IF x = c THEN v ELSE h.mem[x]
  BY <1>1, <1>4, <1>5, StoreIs
<1>7. Linked(e, G)
  <2>1. c \notin LinkWords(Heads)
    BY <1>1, FieldsApart
  <2>2. \A x \in LinkWords(Heads) : e.mem[x] = h.mem[x]
    BY <1>5, <1>6, <2>1
  <2>. QED  BY <1>1, <1>6, <2>2, LinkedKept
<1>8. \A x \in Region8 \ LinkWords(Heads) : x \notin Heads => e.mem[x] = s.mem[x]
  BY <1>1, <1>6
<1>9. Relinked(Region8, Heads, e, G)
  BY <1>1, <1>6, <1>7, <1>8 DEF Relinked
<1>. QED  BY <1>2, <1>3, <1>5, <1>6, <1>9

(* No left neighbour: the block is put in front. *)
LEMMA PutInFront ==
  ASSUME NEW b \in Heads, NEW h, NEW G, b \notin ToSet(G), NEW z,
         Relinked(Region8, Heads, h, G), Sizing(h, b, z),
         NEW e, e = Prepend(h, b)
  PROVE  Relinked(Region8, Heads, e, Cons(b, G)) /\ Sizing(e, b, z)
<1>1. /\ Spaced(Heads, Region8) /\ h \in Memory(Region8) /\ G \in Seq(Heads) /\ Linked(h, G)
      /\ Injective(G) /\ Region8 = Words(start, end)
      /\ \A x \in Region8 \ LinkWords(Heads) : x \notin Heads => h.mem[x] = s.mem[x]
  BY DEF Relinked
<1>2. /\ e \in Memory(Region8) /\ Linked(e, Cons(b, G))
      /\ \A x \in Region8 \ LinkWords(Heads) : e.mem[x] = h.mem[x]
  BY <1>1, PrependIs
<1>3. Cons(b, G) \in Seq(Heads) /\ Injective(Cons(b, G))
  BY <1>1, ConsProps
<1>4. \A x \in Heads : x \in Region8 \ LinkWords(Heads)
  BY <1>1, FieldsApart DEF Spaced
<1>. QED  BY <1>1, <1>2, <1>3, <1>4 DEF Relinked, Sizing

(* The right half of the merge: the list is G, the block has size z. *)
LEMMA RightHalf ==
  ASSUME MemInv, NEW g \in live, NEW b, b = GrantBlock(g),
         NEW right, right = LastNode({b + SizeOf(s, b)}),
         NEW h, h = AbsorbRight(s, b, right)
  PROVE  \/ /\ RightOf(b) = {}
            /\ Relinked(Region8, Heads, h, free) /\ Sizing(h, b, size[b])
         \/ \E k \in RightOf(b) :
              /\ Relinked(Region8, Heads, h, RemoveAt(free, k))
              /\ Sizing(h, b, size[b] + size[free[k]])
<1>1. IInv /\ b \in Heads /\ b \notin FreeSet
  BY OthersAre DEF MemInv
<1>2. CASE RightOf(b) = {}
  <2>1. right = 0
    BY <1>1, <1>2, RightIs
  <2>2. h = s
    BY <2>1 DEF AbsorbRight
  <2>. QED  BY <1>1, <1>2, <2>2, Unmerged
<1>3. CASE RightOf(b) # {}
  <2>1. PICK k \in DOMAIN free : RightOf(b) = {k}
    BY <1>1, <1>3, NeighboursAlone
  <2>2. right = free[k]
    BY <1>1, <2>1, RightIs
  <2>3. free[k] # b
    BY <1>1 DEF FreeSet, ToSet
  <2>4. PICK z : z = size[b] + size[free[k]]
    OBVIOUS
  <2>5. h = AbsorbRight(s, b, free[k])
    BY <2>2
  <2>6. Relinked(Region8, Heads, h, RemoveAt(free, k)) /\ Sizing(h, b, z)
    BY <1>1, <2>3, <2>4, <2>5, RightAbsorbed
  <2>. QED  BY <2>1, <2>4, <2>6
<1>. QED  BY <1>2, <1>3

LEMMA MergeIs ==
  ASSUME NEW b, NEW left, left = LastNode({x \in ToSet(Nodes) : x + SizeOf(s, x) = b}),
         NEW right, right = LastNode({b + SizeOf(s, b)}),
         NEW h, h = AbsorbRight(s, b, right)
  PROVE  /\ left = 0 => Merge(b) = Prepend(h, b)
         /\ left # 0 => Merge(b) = Store(h, left, SizeOf(h, left) + SizeOf(h, b))
  BY DEF Merge

LEMMA SizesRead ==
  ASSUME View'
  PROVE  size' = [x \in Heads' |-> s'.mem[x]]
  BY DEF View, Sizes, SizeOf, Heads

(* The left half, for the list G and the size z of the right one. *)
LEMMA NoLeft ==
  ASSUME MemInv, NEW g \in live, NEW b, b = GrantBlock(g), GivesBack(g),
         NEW h, NEW G, NEW z, Relinked(Region8, Heads, h, G), Sizing(h, b, z),
         ToSet(G) \subseteq FreeSet, s' = Prepend(h, b)
  PROVE  /\ free' = Cons(b, G) /\ Sound' /\ Trimmed(g)
         /\ Heads' = ToSet(G) \cup {b} \cup Others(g)
         /\ size' = [x \in Heads' |-> IF x = b THEN z ELSE size[x]]
<1>1. IInv /\ b \in Heads /\ b \notin FreeSet /\ Others(g) \subseteq Heads /\ FreeSet \subseteq Heads
  BY OthersAre DEF MemInv
<1>2. Relinked(Region8, Heads, s', Cons(b, G)) /\ Sizing(s', b, z)
  BY <1>1, PutInFront
<1>3. /\ free' = Cons(b, G) /\ Sound' /\ Trimmed(g)
      /\ Heads' = ToSet(Cons(b, G)) \cup Others(g)
  BY <1>2, Freed
<1>4. ToSet(Cons(b, G)) = ToSet(G) \cup {b}
  BY <1>1, ConsProps DEF Relinked
<1>5. Heads' \subseteq Heads
  BY <1>1, <1>3, <1>4
<1>6. \A x \in Heads' : s'.mem[x] = IF x = b THEN z ELSE size[x]
  BY <1>2, <1>5 DEF Sizing
<1>7. View'
  BY DEF GivesBack
<1>. QED  BY <1>3, <1>4, <1>6, <1>7, SizesRead

LEMMA WithLeft ==
  ASSUME MemInv, NEW g \in live, NEW b, b = GrantBlock(g), GivesBack(g),
         NEW h, NEW G, NEW z \in Nat, Relinked(Region8, Heads, h, G), Sizing(h, b, z),
         ToSet(G) \subseteq FreeSet,
         NEW c \in FreeSet, s' = Store(h, c, SizeOf(h, c) + SizeOf(h, b))
  PROVE  /\ free' = G /\ Sound' /\ Trimmed(g)
         /\ Heads' = ToSet(G) \cup Others(g)
         /\ size' = [x \in Heads' |-> IF x = c THEN size[c] + z ELSE size[x]]
<1>1. /\ IInv /\ b \in Heads /\ b \notin FreeSet /\ b \notin Others(g)
      /\ Others(g) \subseteq Heads /\ FreeSet \subseteq Heads /\ c \in Heads /\ c # b
  BY OthersAre DEF MemInv
<1>2. /\ Relinked(Region8, Heads, s', G)
      /\ s'.mem[c] = size[c] + z
      /\ \A x \in Heads \ {b, c} : s'.mem[x] = size[x]
  BY <1>1, LeftGrown
<1>3. /\ free' = G /\ Sound' /\ Trimmed(g)
      /\ Heads' = ToSet(G) \cup Others(g)
  BY <1>2, Freed
<1>4. Heads' \subseteq Heads \ {b}
  BY <1>1, <1>3
<1>5. \A x \in Heads' : s'.mem[x] = IF x = c THEN size[c] + z ELSE size[x]
  BY <1>2, <1>4
<1>6. View'
  BY DEF GivesBack
<1>. QED  BY <1>3, <1>5, <1>6, SizesRead

LEMMA Joined ==
  ASSUME MemInv, NEW g \in live, NEW b, b = GrantBlock(g), GivesBack(g), s' = Merge(b)
  PROVE  Coalesce(b) /\ Sound' /\ Trimmed(g)
<1>1. /\ IInv /\ b \in Heads /\ b \notin FreeSet /\ b \notin Others(g)
      /\ Heads = FreeSet \cup {b} \cup Others(g) /\ FreeSet \cap Others(g) = {}
  BY OthersAre DEF MemInv
<1>2. PICK left, right, h :
        /\ left = LastNode({x \in ToSet(Nodes) : x + SizeOf(s, x) = b})
        /\ right = LastNode({b + SizeOf(s, b)})
        /\ h = AbsorbRight(s, b, right)
  OBVIOUS
<1>3. /\ left = 0 => s' = Prepend(h, b)
      /\ left # 0 => s' = Store(h, left, SizeOf(h, left) + SizeOf(h, b))
  BY <1>2, MergeIs
<1>4. /\ LeftOf(b) = {} => left = 0
      /\ \A l \in DOMAIN free : LeftOf(b) = {l} => left = free[l]
  <2>1. PICK N : N = {x \in ToSet(Nodes) : x + SizeOf(s, x) = b}
    OBVIOUS
  <2>. QED  BY <1>1, <1>2, <2>1, LeftIs
<1>5. /\ free \in Seq(Heads) /\ Injective(free) /\ size = [x \in Heads |-> size[x]]
      /\ \A i \in DOMAIN free : free[i] \in FreeSet /\ free[i] # 0
      /\ \A x \in Heads : size[x] \in Nat
  <2>0. IInv
    BY <1>1
  <2>1. free \in Seq(Heads) /\ Injective(free) /\ size = [x \in Heads |-> size[x]]
    <3>1. free \in Seq(Heads) /\ Injective(free)
      BY <2>0 DEF IInv, TypeOK, BlocksAccounted, Injective
    <3>2. size = [x \in Heads |-> size[x]]
      BY <2>0 DEF IInv, TypeOK
    <3>. QED  BY <3>1, <3>2
  <2>2. ASSUME NEW x \in Heads PROVE size[x] \in Nat /\ x # 0
    BY <2>0 DEF IInv, TypeOK
  <2>3. ASSUME NEW i \in DOMAIN free PROVE free[i] \in FreeSet /\ free[i] # 0
    <3>1. free[i] \in FreeSet /\ free[i] \in Heads
      BY <2>1 DEF FreeSet, ToSet
    <3>. QED  BY <2>2, <3>1
  <2>. QED  BY <2>1, <2>2, <2>3
<1>6. CASE /\ RightOf(b) = {}
           /\ Relinked(Region8, Heads, h, free) /\ Sizing(h, b, size[b])
  <2>0. ToSet(free) = FreeSet /\ size[b] \in Nat
    BY <1>1, <1>5 DEF FreeSet
  <2>1. CASE LeftOf(b) = {}
    <3>1. s' = Prepend(h, b)
      BY <1>3, <1>4, <2>1
    <3>2. PICK z : z = size[b]
      OBVIOUS
    <3>3. /\ free' = Cons(b, free) /\ Sound' /\ Trimmed(g)
          /\ Heads' = ToSet(free) \cup {b} \cup Others(g)
          /\ size' = [x \in Heads' |-> IF x = b THEN z ELSE size[x]]
      BY <1>6, <2>0, <3>1, <3>2, NoLeft
    <3>4. Heads' = Heads
      BY <1>1, <2>0, <3>3
    <3>5. size' = size
      BY <1>5, <3>2, <3>3, <3>4
    <3>. QED  BY <1>6, <2>1, <3>3, <3>5 DEF Coalesce, MergeNone
  <2>2. CASE LeftOf(b) # {}
    <3>1. PICK l \in DOMAIN free : LeftOf(b) = {l}
      BY <1>1, <2>2, NeighboursAlone
    <3>2. PICK c : c = free[l]
      OBVIOUS
    <3>3. c \in FreeSet /\ s' = Store(h, c, SizeOf(h, c) + SizeOf(h, b))
      BY <1>3, <1>4, <1>5, <3>1, <3>2
    <3>4. PICK z \in Nat : z = size[b]
      BY <2>0
    <3>5. /\ free' = free /\ Sound' /\ Trimmed(g)
          /\ Heads' = ToSet(free) \cup Others(g)
          /\ size' = [x \in Heads' |-> IF x = c THEN size[c] + z ELSE size[x]]
      BY <1>6, <2>0, <3>3, <3>4, WithLeft
    <3>6. Heads' = Heads \ {b}
      BY <1>1, <2>0, <3>5
    <3>7. size' = [Without(b) EXCEPT ![c] = size[c] + size[b]]
      BY <3>4, <3>5, <3>6 DEF Without
    <3>8. MergeLeft(b)
      BY <1>6, <3>1, <3>2, <3>5, <3>7 DEF MergeLeft
    <3>. QED  BY <3>5, <3>8 DEF Coalesce
  <2>. QED  BY <2>1, <2>2
<1>7. ASSUME NEW k \in RightOf(b),
             Relinked(Region8, Heads, h, RemoveAt(free, k)),
             Sizing(h, b, size[b] + size[free[k]])
      PROVE  Coalesce(b) /\ Sound' /\ Trimmed(g)
  <2>1. PICK G, r, z : G = RemoveAt(free, k) /\ r = free[k] /\ z = size[b] + size[r]
    OBVIOUS
  <2>2. /\ k \in DOMAIN free /\ r \in FreeSet /\ r \in Heads /\ r # b /\ r \notin Others(g)
        /\ z \in Nat /\ r = BlockEnd(b)
    <3>1. k \in DOMAIN free /\ r = BlockEnd(b) /\ r \in FreeSet
      BY <1>5, <2>1 DEF RightOf
    <3>2. r \in Heads /\ r # b /\ r \notin Others(g)
      BY <1>1, <3>1
    <3>3. size[b] \in Nat /\ size[r] \in Nat
      BY <1>1, <1>5, <3>2
    <3>4. z \in Nat
      BY <2>1, <3>3
    <3>. QED  BY <3>1, <3>2, <3>4
  <2>3. ToSet(G) = FreeSet \ {r}
    <3>1. free \in Seq(Heads) /\ Injective(free) /\ k \in DOMAIN free
      BY <1>5, <2>2
    <3>2. ToSet(RemoveAt(free, k)) = ToSet(free) \ {free[k]}
      BY ONLY <3>1, RemoveAtProps
    <3>. QED  BY <2>1, <3>2 DEF FreeSet
  <2>4. Relinked(Region8, Heads, h, G) /\ Sizing(h, b, z) /\ ToSet(G) \subseteq FreeSet
    BY <1>7, <2>1, <2>3
  <2>5. CASE LeftOf(b) = {}
    <3>1. s' = Prepend(h, b)
      BY <1>3, <1>4, <2>5
    <3>2. /\ free' = Cons(b, G) /\ Sound' /\ Trimmed(g)
          /\ Heads' = ToSet(G) \cup {b} \cup Others(g)
          /\ size' = [x \in Heads' |-> IF x = b THEN z ELSE size[x]]
      BY <2>4, <3>1, NoLeft
    <3>3. Heads' = Heads \ {r}
      BY <1>1, <2>2, <2>3, <3>2
    <3>4. size' = [Without(r) EXCEPT ![b] = z]
      BY <3>2, <3>3 DEF Without
    <3>5. MergeRight(b)
      BY <2>1, <2>5, <3>2, <3>4 DEF MergeRight
    <3>. QED  BY <3>2, <3>5 DEF Coalesce
  <2>6. CASE LeftOf(b) # {}
    <3>1. PICK l \in DOMAIN free : LeftOf(b) = {l}
      BY <1>1, <2>6, NeighboursAlone
    <3>2. PICK c : c = free[l]
      OBVIOUS
    <3>3. c \in FreeSet /\ c \in Heads /\ s' = Store(h, c, SizeOf(h, c) + SizeOf(h, b))
      BY <1>1, <1>3, <1>4, <1>5, <3>1, <3>2
    <3>4. /\ free' = G /\ Sound' /\ Trimmed(g)
          /\ Heads' = ToSet(G) \cup Others(g)
          /\ size' = [x \in Heads' |-> IF x = c THEN size[c] + z ELSE size[x]]
      BY <2>2, <2>4, <3>3, WithLeft
    <3>5. Heads' = Heads \ {b, r}
      BY <1>1, <2>2, <2>3, <3>4
    <3>6. size[c] \in Nat /\ size[b] \in Nat /\ size[r] \in Nat
      BY <1>1, <1>5, <2>2, <3>3
    <3>7. size' = [x \in Heads \ {b, r} |->
                     IF x = c THEN size[x] + size[b] + size[r] ELSE size[x]]
      <4>1. size[c] + z = size[c] + size[b] + size[r]
        BY <2>1, <3>6
      <4>. QED  BY <3>4, <3>5, <4>1
    <3>8. MergeBoth(b)
      BY <2>1, <3>1, <3>2, <3>4, <3>7 DEF MergeBoth
    <3>. QED  BY <3>4, <3>8 DEF Coalesce
  <2>. QED  BY <2>5, <2>6
<1>8. \/ /\ RightOf(b) = {}
         /\ Relinked(Region8, Heads, h, free) /\ Sizing(h, b, size[b])
      \/ \E k \in RightOf(b) :
           /\ Relinked(Region8, Heads, h, RemoveAt(free, k))
           /\ Sizing(h, b, size[b] + size[free[k]])
  BY <1>2, RightHalf
<1>. QED  BY <1>6, <1>7, <1>8

(* dealloc on the memory is dealloc on the blocks. *)
LEMMA MemDeallocStep ==
  ASSUME MemInv, NEW g \in live, MemDealloc(g), View'
  PROVE  Dealloc(g) /\ Sound'
<1>1. IInv /\ HeaderOf(g.ptr) = GrantBlock(g) /\ GrantBlock(g) = BlockOf(g.ptr)
  BY ReadGrant DEF MemInv, GrantBlock
<1>2. Recovers(g.ptr)
  BY <1>1, AlwaysRecovers
<1>3. InRange(g.ptr)
  BY <1>1, <1>2 DEF Recovers, InRange
<1>4. GivesBack(g) /\ s' = Merge(GrantBlock(g)) /\ reply' = Nothing /\ region' = region
  BY <1>1, <1>3 DEF MemDealloc, GivesBack
<1>5. Coalesce(GrantBlock(g)) /\ Sound' /\ Trimmed(g)
  BY <1>4, Joined
<1>. QED  BY <1>1, <1>2, <1>4, <1>5 DEF Dealloc, Trimmed, GivesBack
-----------------------------------------------------------------------------
(***************************************************************************)
(* The memory when the heap is installed, and before.                      *)
(***************************************************************************)
LEMMA Before ==
  ASSUME MemInit
  PROVE  Init /\ Sound
<1>1. Words(0, 0) = {}
  BY DEF Words
<1>2. start = 0 /\ end = 0 /\ s.head = 0 /\ s.mem = <<>> /\ live = {} /\ DOMAIN s.mem = {}
  BY DEF MemInit
<1>3. s \in Memory({})
  <2>1. <<>> \in [{} -> Int]
    OBVIOUS
  <2>. QED  BY <2>1 DEF MemInit, Memory
<1>4. Linked(s, <<>>)
  BY <1>2 DEF Linked
<1>5. Nodes = <<>>
  <2>1. <<>> \in Seq({}) /\ Injective(<<>>)
    BY DEF Injective
  <2>2. IsFiniteSet({})
    BY FS_EmptySet
  <2>. QED  BY <1>2, <1>3, <1>4, <2>1, <2>2, NodesAre DEF Nodes
<1>6. free = <<>>
  BY <1>5 DEF MemInit, View
<1>7. size = <<>> /\ pad = <<>>
  <2>1. ToSet(Nodes) \cup {HeaderOf(p) : p \in Ptrs} = {} /\ Ptrs = {}
    BY <1>2, <1>5 DEF ToSet, Ptrs
  <2>2. size = [x \in {} |-> SizeOf(s, x)] /\ pad = [x \in {} |-> s.mem[x - HEADER_GAP]]
    BY <2>1 DEF MemInit, View, Sizes, Pads
  <2>. QED  BY <2>2
<1>8. CallerBytesIntact
  BY <1>2 DEF CallerBytesIntact
<1>. QED  BY <1>1, <1>2, <1>3, <1>4, <1>6, <1>7, <1>8 DEF MemInit, Init, Sound

LEMMA Formatted ==
  ASSUME MemInv, region = <<>>, NEW r, r \in Region, r.base > 0, Accepts(r),
         Format(r), UNCHANGED <<live, reply>>, View'
  PROVE  InitRegion(r) /\ pad' = pad /\ Sound'
<1>1. PICK b, e, h : b = RegionStart(r) /\ e = RegionEnd(r) /\ h = s'
  OBVIOUS
<1>2. b \in Nat /\ b > 0 /\ b % 8 = 0 /\ e \in Nat /\ b + 48 <= e
  <2>1. r.base \in Nat /\ r.len \in Nat
    BY ONLY r \in Region DEF Region
  <2>2. b \in Nat /\ b > 0 /\ b % 8 = 0
    <3>1. PICK v : v = r.base
      OBVIOUS
    <3>2. v \in Nat /\ v > 0 /\ b = AlignUp(v, 8)
      BY <1>1, <2>1, <3>1 DEF RegionStart
    <3>. QED  BY ONLY <3>2, AlignUp8
  <2>3. e \in Nat /\ e - b >= 48
    BY <1>1, <2>1, <2>2 DEF RegionEnd, Accepts, MIN_BLOCK, HEADER_SIZE
  <2>. QED  BY <2>2, <2>3
<1>3. PICK D : D = Words(b, e)
  OBVIOUS
<1>4. /\ start' = b /\ end' = e /\ region' = <<r>>
      /\ h = [head |-> b, mem |-> [x \in D |-> IF x = b THEN e - b ELSE 0]]
  BY <1>1, <1>3 DEF Format
<1>5. b \in D /\ b + 8 \in D /\ b + 16 \in D
  <2>1. \A x \in Nat : x \in D <=> b <= x /\ x + 8 <= e /\ x % 8 = 0
    BY <1>2, <1>3, WordsFacts
  <2>2. (b + 8) % 8 = 0 /\ (b + 16) % 8 = 0
    BY <1>2
  <2>. QED  BY <1>2, <2>1, <2>2
<1>6. /\ h \in Memory(D) /\ h.head = b /\ h.mem[b] = e - b
      /\ h.mem[b + 8] = 0 /\ h.mem[b + 16] = 0
  <2>1. PICK m : m = [x \in D |-> IF x = b THEN e - b ELSE 0]
    OBVIOUS
  <2>2. m \in [D -> Int] /\ m[b] = e - b /\ m[b + 8] = 0 /\ m[b + 16] = 0
    BY <1>2, <1>5, <2>1
  <2>3. h = [head |-> b, mem |-> m]
    BY <1>4, <2>1
  <2>. QED  BY <1>2, <2>2, <2>3 DEF Memory
<1>7. Linked(h, <<b>>) /\ <<b>> \in Seq(D) /\ Injective(<<b>>)
  BY <1>5, <1>6 DEF Linked, NextOf, PrevOf, Injective
<1>8. NodesOf(h) = <<b>>
  BY <1>2, <1>3, <1>6, <1>7, ReadList
<1>9. Nodes' = <<b>> /\ ToSet(Nodes') = {b}
  BY <1>1, <1>8 DEF Nodes, ToSet
<1>10. free' = <<b>>
  BY <1>9 DEF View
<1>11. live = {} /\ live' = {} /\ Ptrs' = {}
  BY DEF MemInv, IInv, Boot, Installed, Ptrs
<1>12. size' = [x \in {b} |-> e - b]
  <2>1. size' = [x \in {b} |-> h.mem[x]]
    BY <1>1, <1>9, <1>11 DEF View, Sizes, SizeOf
  <2>. QED  BY <1>6, <2>1
<1>13. pad' = pad
  <2>1. pad \in [{} -> Nat]
    BY <1>11 DEF MemInv, IInv, TypeOK
  <2>2. pad' = [x \in {} |-> h.mem[x - HEADER_GAP]]
    BY <1>1, <1>11 DEF View, Pads
  <2>. QED  BY <2>1, <2>2
<1>14. Sound'
  <2>1. CallerBytesIntact'
    BY <1>11 DEF CallerBytesIntact
  <2>2. s' \in Memory(Words(start', end')) /\ Linked(s', free')
    BY <1>1, <1>3, <1>4, <1>6, <1>7, <1>10
  <2>. QED  BY <1>11, <2>1, <2>2 DEF Sound
<1>. QED  BY <1>1, <1>4, <1>10, <1>12, <1>13, <1>14 DEF InitRegion

LEMMA MemInstallStep ==
  ASSUME MemInv, NEW m \in MemoryMaps, MemInstall(m), View'
  PROVE  InstallFromBootInfo(m) /\ Sound'
<1>1. region = <<>> /\ UNCHANGED <<live, reply>>
  BY DEF MemInstall
<1>2. ASSUME NEW i \in DOMAIN m, IsBest(m, i), Accepts(EntryRegion(m[i])),
             Format(EntryRegion(m[i]))
      PROVE  InstallFromBootInfo(m) /\ Sound'
  <2>1. PICK r : r = EntryRegion(m[i])
    OBVIOUS
  <2>2. r \in Region /\ r.base > 0
    BY <2>1, EntryGiven
  <2>3. InitRegion(r) /\ pad' = pad /\ Sound'
    BY <1>1, <1>2, <2>1, <2>2, Formatted
  <2>. QED  BY <1>1, <1>2, <2>1, <2>3 DEF InstallFromBootInfo
<1>3. ASSUME \A i \in DOMAIN m : IsBest(m, i) => ~Accepts(EntryRegion(m[i])),
             Format(StaticArena)
      PROVE  InstallFromBootInfo(m) /\ Sound'
  <2>1. InitRegion(StaticArena) /\ pad' = pad /\ Sound'
    BY <1>1, <1>3, ArenaGiven, Formatted
  <2>. QED  BY <1>1, <1>3, <2>1 DEF InstallFromBootInfo
<1>. QED  BY <1>2, <1>3 DEF MemInstall

LEMMA MemNullStep ==
  ASSUME MemInv, NEW n, NEW a, MemAllocNull(n, a), View'
  PROVE  AllocNull(n, a) /\ Sound'
<1>1. /\ reply' = 0
      /\ start' = start /\ end' = end /\ s' = s /\ live' = live /\ region' = region
      /\ \A k \in DOMAIN Nodes : ~FitsAt(Nodes[k], n, a)
  BY DEF MemAllocNull
<1>2. IInv /\ free = Nodes /\ size = Sizes /\ pad = Pads
  BY DEF MemInv, View
<1>3. Nodes' = Nodes /\ Sizes' = Sizes /\ Pads' = Pads
  BY <1>1 DEF Nodes, Sizes, Pads, Ptrs, HeaderOf
<1>4. free' = free /\ size' = size /\ pad' = pad
  BY <1>2, <1>3 DEF View
<1>5. ASSUME NEW k \in DOMAIN free PROVE ~Fits(free[k], n, a)
  <2>1. free[k] \in Heads
    BY <1>2 DEF IInv, TypeOK
  <2>2. free[k] + SizeOf(s, free[k]) = BlockEnd(free[k])
    BY <2>1, ReadBlock
  <2>. QED  BY <1>1, <1>2, <2>2 DEF FitsAt, Fits
<1>6. Sound'
  BY <1>1, <1>4 DEF MemInv, Sound, CallerBytesIntact
<1>. QED  BY <1>1, <1>4, <1>5, <1>6 DEF AllocNull
-----------------------------------------------------------------------------
(***************************************************************************)
(* The invariant of the memory machine, and its steps.                     *)
(***************************************************************************)
LEMMA MemStep ==
  ASSUME MemInv, [MemNext]_memVars
  PROVE  [Next]_vars /\ MemInv'
<1>1. SUFFICES [Next]_vars /\ View' /\ Sound'
  <2>1. IInv
    BY DEF MemInv
  <2>2. [Next]_vars => IInv'
    BY <2>1, StepIInv
  <2>. QED  BY <2>2 DEF MemInv
<1>2. CASE UNCHANGED memVars
  <2>1. s' = s /\ UNCHANGED vars
    BY <1>2 DEF memVars
  <2>2. View'
    BY <2>1 DEF MemInv, View, vars, Nodes, Sizes, Pads, Ptrs, HeaderOf
  <2>3. Sound'
    BY <2>1 DEF MemInv, Sound, vars, CallerBytesIntact
  <2>. QED  BY <2>1, <2>2, <2>3
<1>3. CASE MemNext
  <2>1. View'
    BY <1>3 DEF MemNext, View
  <2>2. ASSUME NEW m \in MemoryMaps, MemInstall(m) PROVE Next /\ Sound'
    BY <2>1, <2>2, MemInstallStep DEF Next
  <2>3. ASSUME NEW q \in Requests, MemAlloc(q[1], q[2]) PROVE Next /\ Sound'
    <3>1. q[1] \in Nat /\ q[2] \in Nat \ {0} /\ (q[2] \in {1, 2, 4} \/ q[2] % 8 = 0)
      BY RequestAssumption, AlignAssumption
    <3>2. Alloc(q[1], q[2]) /\ Sound'
      BY <2>1, <2>3, <3>1, MemAllocStep
    <3>. QED  BY <3>2 DEF Next
  <2>4. ASSUME NEW q \in Requests, MemAllocNull(q[1], q[2]) PROVE Next /\ Sound'
    <3>1. AllocNull(q[1], q[2]) /\ Sound'
      BY <2>1, <2>4, MemNullStep
    <3>. QED  BY <3>1 DEF Next
  <2>5. ASSUME NEW g \in live, MemDealloc(g) PROVE Next /\ Sound'
    BY <2>1, <2>5, MemDeallocStep DEF Next
  <2>. QED  BY <1>3, <2>1, <2>2, <2>3, <2>4, <2>5 DEF MemNext
<1>. QED  BY <1>2, <1>3

LEMMA MemInvariance == MemSpec => []MemInv
<1>1. MemInit => MemInv
  BY Before, InitIInv DEF MemInv, MemInit
<1>. QED  BY <1>1, MemStep, PTL DEF MemSpec

(* Read through its headers, links and paddings, the memory is the state   *)
(* of Heap in every step, whatever blocks are split, merged or unlinked    *)
(* (heap.rs): what is proved of Heap holds of the memory.                  *)
THEOREM LinksImplementHeap == MemSpec => ImplementsHeap
<1>1. MemInit => Init
  BY Before
<1>. QED  BY <1>1, MemInvariance, MemStep, PTL DEF MemSpec, ImplementsHeap, Spec

LEMMA ListIsSound == MemInv => ListWellFormed
<1> SUFFICES ASSUME MemInv PROVE ListWellFormed
  OBVIOUS
<1>1. Linked(s, free) /\ Nodes = free /\ IInv
  BY DEF MemInv, Sound, View
<1>2. free \in Seq(Heads) /\ Injective(free) /\ \A b \in Heads : b # 0
  BY <1>1 DEF IInv, TypeOK, BlocksAccounted, Injective
<1>3. s.head = 0 <=> free = <<>>
  <2>1. free # <<>> => free[1] \in Heads
    BY <1>2
  <2>. QED  BY <1>1, <1>2, <2>1 DEF Linked
<1>4. ASSUME NEW i \in DOMAIN free
      PROVE  /\ PrevOf(s, free[i]) = (IF i = 1 THEN 0 ELSE free[i - 1])
             /\ i = Len(free) => NextOf(s, free[i]) = 0
  BY <1>1 DEF Linked
<1>. QED  BY <1>1, <1>2, <1>3, <1>4 DEF ListWellFormed, Injective

(* The list can be walked both ways and ends, and no store of the          *)
(* allocator lands in bytes a caller owns (heap.rs), for every region,     *)
(* memory map and set of layouts.                                          *)
THEOREM MemoryIsSound == MemSpec => []MemorySound
<1>1. MemInv => MemorySound
  BY ListIsSound DEF MemInv, Sound, MemorySound
<1>. QED  BY <1>1, MemInvariance, PTL
=============================================================================
