------------------------------ MODULE Spinlock ------------------------------
(***************************************************************************)
(* The kernel's spin lock (ferric-unsafe-core, sync.rs).                   *)
(*                                                                         *)
(* `locked` is the AtomicBool; spin[c] says where context c stands in      *)
(* lock() / try_lock() / the guard's lifetime.  The payload is reached     *)
(* only through a guard, and a mutation through DerefMut is a load and a   *)
(* separate store, so that a second guard would be seen as a lost update.  *)
(*                                                                         *)
(* A context is anything that runs kernel code: a thread of the host       *)
(* tests, or the boot thread and the handlers that interrupt it.           *)
(***************************************************************************)
EXTENDS Naturals

CONSTANTS Contexts,    \* the execution contexts that share the lock
          MaxUpdates   \* bound on the payload counter (model checking only)

ASSUME SpinlockAssumption == MaxUpdates \in Nat

VARIABLES locked,      \* Spinlock.locked
          payload,     \* the UnsafeCell's content, a counter
          spin,        \* progress of each context
          scratch      \* the value a context loaded and is about to add one to

spinVars == <<locked, payload, spin, scratch>>

SpinInit ==
  /\ locked = FALSE
  /\ payload = 0
  /\ spin = [c \in Contexts |-> "out"]
  /\ scratch = [c \in Contexts |-> 0]

SpinTypeOK ==
  /\ locked \in BOOLEAN
  /\ payload \in Nat
  /\ spin \in [Contexts -> {"out", "spinning", "guard", "mutating"}]
  /\ scratch \in [Contexts -> Nat]

HasGuard(c) == spin[c] \in {"guard", "mutating"}
-----------------------------------------------------------------------------
(* lock(): the caller enters the compare_exchange_weak loop. *)
LockCall(c) ==
  /\ spin[c] = "out"
  /\ spin' = [spin EXCEPT ![c] = "spinning"]
  /\ UNCHANGED <<locked, payload, scratch>>

(* A bug to compare with: a load, then a store, instead of one CAS. *)
MutantLockWinsUnchecked(c) ==
  /\ spin[c] = "spinning"
  /\ locked' = TRUE
  /\ spin' = [spin EXCEPT ![c] = "guard"]
  /\ UNCHANGED <<payload, scratch>>

(* The weak CAS succeeds.  A failing iteration, spurious or not, changes   *)
(* nothing: it is a stuttering step.                                       *)
LockWins(c) ==
  /\ spin[c] = "spinning"
  /\ ~locked
  /\ locked' = TRUE
  /\ spin' = [spin EXCEPT ![c] = "guard"]
  /\ UNCHANGED <<payload, scratch>>

(* try_lock() that succeeds; one that answers None changes nothing. *)
TryLock(c) ==
  /\ spin[c] = "out"
  /\ ~locked
  /\ locked' = TRUE
  /\ spin' = [spin EXCEPT ![c] = "guard"]
  /\ UNCHANGED <<payload, scratch>>

(* DerefMut: the two halves of `*guard += 1`. *)
LoadPayload(c) ==
  /\ spin[c] = "guard"
  /\ payload < MaxUpdates
  /\ scratch' = [scratch EXCEPT ![c] = payload]
  /\ spin' = [spin EXCEPT ![c] = "mutating"]
  /\ UNCHANGED <<locked, payload>>

StorePayload(c) ==
  /\ spin[c] = "mutating"
  /\ payload' = scratch[c] + 1
  /\ scratch' = [scratch EXCEPT ![c] = 0]
  /\ spin' = [spin EXCEPT ![c] = "guard"]
  /\ UNCHANGED locked

(* Drop for SpinlockGuard. *)
DropGuard(c) ==
  /\ spin[c] = "guard"
  /\ locked' = FALSE
  /\ spin' = [spin EXCEPT ![c] = "out"]
  /\ UNCHANGED <<payload, scratch>>

(* What a context that is inside the lock does without being asked. *)
SpinStep(c) ==
  \/ LockWins(c)
  \/ LoadPayload(c)
  \/ StorePayload(c)
  \/ DropGuard(c)
=============================================================================
