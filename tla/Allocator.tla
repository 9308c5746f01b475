----------------------------- MODULE Allocator ------------------------------
(***************************************************************************)
(* What the kernel heap promises to the code that allocates from it, with  *)
(* no blocks, headers or free list.                                        *)
(*                                                                         *)
(* A grant is a record [ptr, size, align].  Grants never share a byte, lie *)
(* in the arena and are aligned as asked.  A request may be refused, but   *)
(* never by an idle heap large enough for it: whatever has been allocated  *)
(* and freed before, in any order, an empty heap is as good as new.        *)
(***************************************************************************)
EXTENDS Integers

CONSTANTS Requests,    \* pairs <<size, align>> that are asked for
          Overhead     \* bytes the allocator may spend on a single grant

VARIABLES arena,       \* [lo, hi): the bytes grants are taken from
          live,        \* the grants outstanding
          reply        \* the pointer the last call returned, 0 for null

vars == <<arena, live, reply>>

Nothing == -1       \* a call that returns no pointer

Max1(n) == IF n = 0 THEN 1 ELSE n

Apart(p, n, g) == p + Max1(n) <= g.ptr \/ g.ptr + Max1(g.size) <= p

Init ==
  /\ arena = [lo |-> 0, hi |-> 0]
  /\ live = {}
  /\ reply = Nothing

Install ==
  /\ arena = [lo |-> 0, hi |-> 0]
  /\ arena' \in [lo : Nat \ {0}, hi : Nat \ {0}]
  /\ UNCHANGED <<live, reply>>

Grant(n, a) ==
  /\ reply' \in Nat \ {0}
  /\ reply' % a = 0
  /\ arena.lo <= reply' /\ reply' + Max1(n) <= arena.hi
  /\ \A g \in live : Apart(reply', n, g)
  /\ live' = live \cup {[ptr |-> reply', size |-> n, align |-> a]}
  /\ UNCHANGED arena

Refuse(n, a) ==
  /\ live = {} => arena.lo + Overhead + a + Max1(n) > arena.hi
  /\ reply' = 0
  /\ UNCHANGED <<arena, live>>

Release(g) ==
  /\ live' = live \ {g}
  /\ reply' = Nothing
  /\ UNCHANGED arena

Next ==
  \/ Install
  \/ \E r \in Requests : Grant(r[1], r[2]) \/ Refuse(r[1], r[2])
  \/ \E g \in live : Release(g)

Spec == Init /\ [][Next]_vars
=============================================================================
