-------------------------- MODULE SharedCellProofs --------------------------
(***************************************************************************)
(* Proofs about OnceLock<Spinlock<T>> for any set of contexts, any set of  *)
(* payloads and any number of updates.                                     *)
(*                                                                         *)
(* IInv adds to the stated invariants what makes them inductive: a context *)
(* between the load and the store of `+= 1` still holds the payload it     *)
(* loaded, and the state byte of the cell says exactly how far the one     *)
(* setter that won the CAS has come.                                       *)
(***************************************************************************)
EXTENDS SharedCell, TLAPS

SpinInv ==
  /\ GuardsExclusive
  /\ NoLostUpdate
  /\ \A c \in Contexts : spin[c] = "mutating" => scratch[c] = payload

Storing(c) == once[c] \in {"write", "publish"}

OnceInv ==
  /\ OneWinner
  /\ ReferencesShowWinner
  /\ \A c, d \in Contexts : Storing(c) /\ Storing(d) => c = d
  /\ state = "BUSY" <=> \E c \in Contexts : Storing(c)
  /\ \A c \in Contexts :
       /\ once[c] \in {"set", "busyWait", "write", "publish"} => arg[c] \in Values
       /\ once[c] = "publish" => value = arg[c]
       /\ once[c] = "deref" => state = "READY"
       /\ HasRef(c) => state = "READY"
  /\ state = "READY" => value \in Values

IInv == TypeOK /\ SpinInv /\ OnceInv
-----------------------------------------------------------------------------
LEMMA InitIInv == Init => IInv
<1> SUFFICES ASSUME Init PROVE IInv
  OBVIOUS
<1> USE SameUsers DEF Init
<1>1. SpinTypeOK /\ SpinInv
  BY DEF SpinInit, SpinTypeOK, SpinInv, GuardsExclusive, NoLostUpdate, HasGuard
<1>2. OnceTypeOK
  BY DEF OnceInit, OnceTypeOK, Answers
<1>3. \A c \in Contexts : once[c] = "idle" /\ answer[c][1] = "none"
  BY DEF OnceInit
<1>4. OnceInv
  BY <1>3 DEF OnceInit, OnceInv, OneWinner, ReferencesShowWinner, Storing, HasRef
<1>. QED  BY <1>1, <1>2, <1>4 DEF IInv, TypeOK

(* The lock's half of a step. *)
LEMMA SpinStepInv ==
  ASSUME IInv, Next
  PROVE  SpinTypeOK' /\ updates' \in Nat /\ SpinInv'
<1> USE DEF IInv, TypeOK, SpinTypeOK, SpinInv, GuardsExclusive, NoLostUpdate,
            HasGuard
<1>1. PICK c \in Contexts :
         \/ \E v \in Values : InitGlobal(c, v)
         \/ Lookup(c) \/ ContinueOnce(c)
         \/ With(c) \/ WithTry(c) \/ ContinueLock(c)
  BY DEF Next
<1>2. CASE UNCHANGED <<spinVars, updates>>
  BY <1>2 DEF spinVars
<1>3. CASE With(c)
  BY <1>3 DEF With, LockCall
<1>4. CASE WithTry(c)
  BY <1>4 DEF WithTry, TryLock
<1>5. CASE ContinueLock(c)
  <2>1. CASE LockWins(c)
    BY <1>5, <2>1 DEF ContinueLock, LockWins
  <2>2. CASE LoadPayload(c)
    BY <1>5, <2>2 DEF ContinueLock, LoadPayload
  <2>3. CASE StorePayload(c)
    BY <1>5, <2>3 DEF ContinueLock, StorePayload
  <2>4. CASE DropGuard(c)
    BY <1>5, <2>4 DEF ContinueLock, DropGuard
  <2>. QED  BY <1>5, <2>1, <2>2, <2>3, <2>4 DEF ContinueLock, SpinStep
<1>. QED
  BY <1>1, <1>2, <1>3, <1>4, <1>5
  DEF InitGlobal, Lookup, ContinueOnce, OnceAlone

(* The cell's half of a step. *)
LEMMA OnceStepInv ==
  ASSUME IInv, Next
  PROVE  OnceTypeOK' /\ wins' \subseteq Contexts /\ OnceInv'
<1> USE SameUsers, OnceAssumption
    DEF IInv, TypeOK, OnceTypeOK, Answers, OnceInv, OneWinner,
        ReferencesShowWinner, Storing, HasRef
<1>1. PICK c \in Contexts :
         \/ \E v \in Values : InitGlobal(c, v)
         \/ Lookup(c) \/ ContinueOnce(c)
         \/ With(c) \/ WithTry(c) \/ ContinueLock(c)
  BY DEF Next
<1>2. CASE UNCHANGED <<onceVars, wins>>
  BY <1>2 DEF onceVars
<1>3. ASSUME NEW v \in Values, InitGlobal(c, v)
      PROVE  OnceTypeOK' /\ wins' \subseteq Contexts /\ OnceInv'
  BY <1>3 DEF InitGlobal, SetCall
<1>4. CASE Lookup(c)
  <2>1. CASE GetNone(c)
    BY <1>4, <2>1 DEF Lookup, GetNone, Return
  <2>2. CASE GetSome(c)
    BY <1>4, <2>2 DEF Lookup, GetSome
  <2>3. CASE WaitCall(c)
    BY <1>4, <2>3 DEF Lookup, WaitCall
  <2>. QED  BY <1>4, <2>1, <2>2, <2>3 DEF Lookup
<1>5. CASE ContinueOnce(c)
  <2> USE <1>5 DEF ContinueOnce
  <2>1. CASE SetWins(c)
    BY <2>1 DEF SetWins
  <2>2. CASE SetMeetsBusy(c)
    BY <2>2 DEF SetMeetsBusy
  <2>3. CASE SetLoses(c)
    BY <2>3 DEF SetLoses, Return
  <2>4. CASE BusyEnds(c)
    BY <2>4 DEF BusyEnds
  <2>5. CASE SetWrites(c)
    BY <2>5 DEF SetWrites
  <2>6. CASE SetPublishes(c)
    BY <2>6 DEF SetPublishes, Return
  <2>7. CASE WaitSees(c)
    BY <2>7 DEF WaitSees
  <2>8. CASE Deref(c)
    BY <2>8 DEF Deref, Return
  <2>. QED
    BY <2>1, <2>2, <2>3, <2>4, <2>5, <2>6, <2>7, <2>8 DEF OnceStep
<1>. QED
  BY <1>1, <1>2, <1>3, <1>4, <1>5 DEF With, WithTry, ContinueLock, SpinAlone

(* IInv holds in every reachable state. *)
THEOREM Invariance == Spec => []IInv
<1>1. IInv /\ [Next]_cellVars => IInv'
  <2> SUFFICES ASSUME IInv, [Next]_cellVars PROVE IInv'
    OBVIOUS
  <2>1. CASE Next
    BY <2>1, SpinStepInv, OnceStepInv DEF IInv, TypeOK
  <2>2. CASE UNCHANGED cellVars
    BY <2>2
    DEF cellVars, spinVars, onceVars, IInv, TypeOK, SpinTypeOK, OnceTypeOK,
        Answers, SpinInv, OnceInv, GuardsExclusive, NoLostUpdate, OneWinner,
        HasGuard, ReferencesShowWinner, Storing, HasRef
  <2>. QED  BY <2>1, <2>2
<1>. QED  BY InitIInv, <1>1, PTL DEF Spec

(* Every variable of the cell, the lock and their users keeps its type. *)
THEOREM TypeCorrect == Spec => []TypeOK
  BY Invariance, PTL DEF IInv

(* At most one guard exists, and the flag is set exactly while one does. *)
THEOREM MutualExclusion == Spec => []GuardsExclusive
  BY Invariance, PTL DEF IInv, SpinInv

(* No update made through a guard is lost. *)
THEOREM UpdatesKept == Spec => []NoLostUpdate
  BY Invariance, PTL DEF IInv, SpinInv

(* set() answers Ok once, and Err only when the value can be read. *)
THEOREM SetOnce == Spec => []OneWinner
  BY Invariance, PTL DEF IInv, OnceInv

(* No reference ever shows anything but the winner's value. *)
THEOREM ReadersAgree == Spec => []ReferencesShowWinner
  BY Invariance, PTL DEF IInv, OnceInv

(* One winner, and its value for everybody. *)
THEOREM Agreement == Spec => []WinnerAgreed
  BY SetOnce, ReadersAgree, PTL DEF WinnerAgreed

(* To its readers the cell is a register that is written once. *)
THEOREM CellImplementsWriteOnce == Spec => ImplementsWriteOnce
<1>1. Init => Abstract!Init
  BY DEF Init, OnceInit, Abstract!Init
<1>2. IInv /\ [Next]_cellVars
      => [Abstract!Next]_(IF state = "READY" THEN value ELSE None)
  <2> SUFFICES ASSUME IInv, [Next]_cellVars
               PROVE  [Abstract!Next]_(IF state = "READY" THEN value ELSE None)
    OBVIOUS
  <2>1. CASE UNCHANGED <<state, value>>
    BY <2>1
  <2>2. ASSUME NEW c \in Contexts, SetWins(c)
        PROVE  UNCHANGED (IF state = "READY" THEN value ELSE None)
    BY <2>2 DEF SetWins
  <2>3. ASSUME NEW c \in Contexts, SetWrites(c)
        PROVE  UNCHANGED (IF state = "READY" THEN value ELSE None)
    BY <2>3 DEF SetWrites, IInv, OnceInv, Storing
  <2>4. ASSUME NEW c \in Contexts, SetPublishes(c)
        PROVE  Abstract!Next
    BY <2>4 DEF SetPublishes, IInv, OnceInv, Storing, Abstract!Next,
                Abstract!Install
  <2>5. CASE UNCHANGED cellVars
    BY <2>5 DEF cellVars, onceVars
  <2>. QED
    BY <2>1, <2>2, <2>3, <2>4, <2>5
    DEF Next, InitGlobal, Lookup, ContinueOnce, With, WithTry, ContinueLock,
        OnceStep, SetCall, SetMeetsBusy, SetLoses, BusyEnds, WaitSees, Deref,
        GetNone, GetSome, WaitCall, SpinAlone, onceVars
<1>. QED
  BY <1>1, <1>2, Invariance, PTL DEF Spec, ImplementsWriteOnce, Abstract!Spec
=============================================================================
