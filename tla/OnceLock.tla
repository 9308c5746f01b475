------------------------------ MODULE OnceLock ------------------------------
(***************************************************************************)
(* The kernel's set-once cell (ferric-unsafe-core, sync.rs).               *)
(*                                                                         *)
(* `state` is the AtomicU8 and `value` the MaybeUninit behind it.  once[c] *)
(* is the point context c has reached inside set(), get() or wait();       *)
(* answer[c] is what its last call returned.  The CAS, the payload write   *)
(* and the Release store of set() are three steps, as are the Acquire load *)
(* and the dereference of get().                                           *)
(***************************************************************************)
EXTENDS Naturals

CONSTANTS Users,      \* the execution contexts that share the cell
          Values,     \* what they try to store
          Uninit,     \* the content of the cell before the write
          None        \* get() before a successful set

ASSUME OnceAssumption == Uninit \notin Values /\ None \notin Values

VARIABLES state, value, once, arg, answer

onceVars == <<state, value, once, arg, answer>>

OnceInit ==
  /\ state = "EMPTY"
  /\ value = Uninit
  /\ once = [c \in Users |-> "idle"]
  /\ arg = [c \in Users |-> None]
  /\ answer = [c \in Users |-> <<"none", None>>]

(* No call ever shows the uninitialized payload. *)
Answers == {"none", "ok", "err", "ref"} \X (Values \cup {None})

OnceTypeOK ==
  /\ state \in {"EMPTY", "BUSY", "READY"}
  /\ value \in Values \cup {Uninit}
  /\ once \in [Users -> {"idle", "set", "busyWait", "write", "publish",
                            "wait", "deref"}]
  /\ arg \in [Users -> Values \cup {None}]
  /\ answer \in [Users -> Answers]

(* The call is over; a refused argument goes back to its owner. *)
Return(c, tag, v) ==
  /\ once' = [once EXCEPT ![c] = "idle"]
  /\ answer' = [answer EXCEPT ![c] = <<tag, v>>]
  /\ arg' = [arg EXCEPT ![c] = None]
-----------------------------------------------------------------------------
SetCall(c, v) ==
  /\ once[c] = "idle"
  /\ once' = [once EXCEPT ![c] = "set"]
  /\ arg' = [arg EXCEPT ![c] = v]
  /\ UNCHANGED <<state, value, answer>>

(* A bug to compare with: a setter that meets BUSY gives up at once. *)
MutantSetGivesUp(c) ==
  /\ once[c] = "set"
  /\ state # "EMPTY"
  /\ Return(c, "err", None)
  /\ UNCHANGED <<state, value>>

(* compare_exchange(EMPTY, BUSY): won, met BUSY, or met READY. *)
SetWins(c) ==
  /\ once[c] = "set"
  /\ state = "EMPTY"
  /\ state' = "BUSY"
  /\ once' = [once EXCEPT ![c] = "write"]
  /\ UNCHANGED <<value, arg, answer>>

SetMeetsBusy(c) ==
  /\ once[c] = "set"
  /\ state = "BUSY"
  /\ once' = [once EXCEPT ![c] = "busyWait"]
  /\ UNCHANGED <<state, value, arg, answer>>

SetLoses(c) ==
  /\ once[c] = "set"
  /\ state = "READY"
  /\ Return(c, "err", None)
  /\ UNCHANGED <<state, value>>

(* `while state.load() == BUSY` ends and the outer loop tries again. *)
BusyEnds(c) ==
  /\ once[c] = "busyWait"
  /\ state # "BUSY"
  /\ once' = [once EXCEPT ![c] = "set"]
  /\ UNCHANGED <<state, value, arg, answer>>

(* A bug to compare with: READY is stored before the payload is written. *)
MutantPublishFirst(c) ==
  /\ once[c] = "write"
  /\ state' = "READY"
  /\ once' = [once EXCEPT ![c] = "publish"]
  /\ UNCHANGED <<value, arg, answer>>

SetWrites(c) ==
  /\ once[c] = "write"
  /\ value' = arg[c]
  /\ once' = [once EXCEPT ![c] = "publish"]
  /\ UNCHANGED <<state, arg, answer>>

(* A bug to compare with: the Release store never happens. *)
MutantForgetsReady(c) ==
  /\ once[c] = "publish"
  /\ Return(c, "ok", None)
  /\ UNCHANGED <<state, value>>

SetPublishes(c) ==
  /\ once[c] = "publish"
  /\ state' = "READY"
  /\ Return(c, "ok", None)
  /\ UNCHANGED value

(* get(): the Acquire load decides between None and a reference. *)
GetNone(c) ==
  /\ once[c] = "idle"
  /\ state # "READY"
  /\ Return(c, "none", None)
  /\ UNCHANGED <<state, value>>

GetSome(c) ==
  /\ once[c] = "idle"
  /\ state = "READY"
  /\ once' = [once EXCEPT ![c] = "deref"]
  /\ UNCHANGED <<state, value, arg, answer>>

(* wait(): get() in a loop; an iteration that sees None changes nothing. *)
WaitCall(c) ==
  /\ once[c] = "idle"
  /\ once' = [once EXCEPT ![c] = "wait"]
  /\ UNCHANGED <<state, value, arg, answer>>

WaitSees(c) ==
  /\ once[c] = "wait"
  /\ state = "READY"
  /\ once' = [once EXCEPT ![c] = "deref"]
  /\ UNCHANGED <<state, value, arg, answer>>

(* assume_init_ref(): what the reference shows. *)
Deref(c) ==
  /\ once[c] = "deref"
  /\ Return(c, "ref", value)
  /\ UNCHANGED <<state, value>>

(* What a context inside a call does without being asked. *)
OnceStep(c) ==
  \/ SetWins(c) \/ SetMeetsBusy(c) \/ SetLoses(c) \/ BusyEnds(c)
  \/ SetWrites(c) \/ SetPublishes(c)
  \/ WaitSees(c) \/ Deref(c)
=============================================================================
