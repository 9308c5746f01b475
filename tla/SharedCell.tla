----------------------------- MODULE SharedCell -----------------------------
(***************************************************************************)
(* OnceLock<Spinlock<T>>: how the kernel keeps SERIAL, PL011, FRAMEBUFFER  *)
(* and KEYBOARD (serial.rs, pl011.rs, framebuffer.rs, ps2.rs).             *)
(*                                                                         *)
(* init_global stores a new Spinlock in the cell; with_* gets a reference  *)
(* to it, takes the lock, runs its closure on the payload and drops the    *)
(* guard; with_*_try does the same through try_lock.  The two primitives   *)
(* meet in one place: a context calls lock() only on a reference that      *)
(* get() or wait() handed to it.                                           *)
(***************************************************************************)
EXTENDS Spinlock, OnceLock

VARIABLES wins,      \* history: contexts whose set() answered Ok
          updates    \* history: closures that completed `+= 1`

cellVars == <<spinVars, onceVars, wins, updates>>

ASSUME SameUsers == Users = Contexts

Init ==
  /\ SpinInit
  /\ OnceInit
  /\ wins = {}
  /\ updates = 0

Outside(c) == once[c] = "idle" /\ spin[c] = "out"

HasRef(c) == answer[c][1] = "ref"
-----------------------------------------------------------------------------
(* The two primitives, each leaving the other's state alone. *)
OnceAlone == UNCHANGED <<spinVars, updates>>
SpinAlone == UNCHANGED <<onceVars, wins>>

InitGlobal(c, v) ==
  /\ Outside(c)
  /\ SetCall(c, v)
  /\ OnceAlone /\ UNCHANGED wins

Lookup(c) ==
  /\ Outside(c)
  /\ GetNone(c) \/ GetSome(c) \/ WaitCall(c)
  /\ OnceAlone /\ UNCHANGED wins

ContinueOnce(c) ==
  /\ OnceStep(c)
  /\ wins' = IF once[c] = "publish" THEN wins \cup {c} ELSE wins
  /\ OnceAlone

With(c) ==
  /\ Outside(c) /\ HasRef(c)
  /\ LockCall(c)
  /\ SpinAlone /\ UNCHANGED updates

WithTry(c) ==
  /\ Outside(c) /\ HasRef(c)
  /\ TryLock(c)
  /\ SpinAlone /\ UNCHANGED updates

ContinueLock(c) ==
  /\ SpinStep(c)
  /\ updates' = IF spin[c] = "mutating" THEN updates + 1 ELSE updates
  /\ SpinAlone

Next ==
  \E c \in Contexts :
    \/ \E v \in Values : InitGlobal(c, v)
    \/ Lookup(c)
    \/ ContinueOnce(c)
    \/ With(c)
    \/ WithTry(c)
    \/ ContinueLock(c)

Spec == Init /\ [][Next]_cellVars

(* A context that is inside a call keeps running: nothing preempts it for  *)
(* good.  No fairness between spinners: the CAS is a free-for-all.         *)
Fairness ==
  \A c \in Contexts :
    /\ WF_cellVars(ContinueOnce(c))
    /\ WF_cellVars(ContinueLock(c))

FairSpec == Spec /\ Fairness
-----------------------------------------------------------------------------
(* Every variable stays in its range. *)
TypeOK ==
  /\ SpinTypeOK
  /\ OnceTypeOK
  /\ wins \subseteq Contexts
  /\ updates \in Nat

(* The lock flag is set exactly while one context holds a guard: no two    *)
(* closures of with_serial ever run at once, and a free flag means that    *)
(* nobody is inside.                                                       *)
GuardsExclusive ==
  /\ \A c, d \in Contexts : HasGuard(c) /\ HasGuard(d) => c = d
  /\ locked <=> \E c \in Contexts : HasGuard(c)

(* Each closure that finished its update is visible in the payload: an     *)
(* interleaved load and store would lose one.                              *)
NoLostUpdate == payload = updates

(* set() answers Ok to at most one context, and only once the value can be *)
(* read; a context that was refused (Err) can rely on get() from then on.  *)
OneWinner ==
  /\ \A c, d \in wins : c = d
  /\ (wins # {}) <=> (state = "READY")
  /\ \A c \in Contexts : answer[c][1] = "err" => state = "READY"

(* A reference never shows uninitialized memory, and every reference shows *)
(* the one value that the winner stored.                                   *)
ReferencesShowWinner ==
  \A c \in Contexts :
    HasRef(c) => answer[c][2] = value /\ answer[c][2] \in Values

(* Whoever races, all contexts agree on one value: one set succeeds, and   *)
(* what it stored is what everybody reads (sync.rs OnceLock).              *)
WinnerAgreed == OneWinner /\ ReferencesShowWinner

(* Readers see an empty cell, then the winner's value for ever. *)
Abstract == INSTANCE WriteOnce WITH
  Offers <- Values,
  Empty <- None,
  cell <- IF state = "READY" THEN value ELSE None

ImplementsWriteOnce == Abstract!Spec

(* A setter always gets its answer, also when it found another one in the  *)
(* middle of its store; a waiter gets its reference once anyone has begun; *)
(* and the lock is never kept: whoever takes it lets it go.                *)
CallsReturn ==
  /\ \A c \in Contexts :
       /\ once[c] \in {"set", "busyWait"} ~> once[c] = "idle"
       /\ once[c] = "wait" /\ state # "EMPTY" ~> once[c] = "idle" /\ HasRef(c)
  /\ locked ~> ~locked
=============================================================================
