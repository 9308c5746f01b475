---------------------------- MODULE SmokeDriver ----------------------------
(***************************************************************************)
(* The smoke test of the build tool (xtask runner.rs, qmp.rs): a driver on *)
(* the host boots the kernel in QEMU, waits for a marker on the serial     *)
(* log, types the next command, retypes it when nothing answers, and       *)
(* judges the transcript and the exit code.                                *)
(*                                                                         *)
(* Driver and guest share nothing but the keys on their way and the log.   *)
(* A key may be lost.  Each side may be slow: the grace of ten seconds can *)
(* run out while the answer is still on its way.  Only the deadline is     *)
(* taken to be generous: it strikes when nothing else can happen any more. *)
(***************************************************************************)
EXTENDS Integers, Sequences, FiniteSets, SequencesExt

CONSTANTS Arches,       \* the targets: subset of {"x64", "arm64"}
          MaxAttempts,  \* MAX_ATTEMPTS: times a command is typed
          MaxLost,      \* bound on lost keys (model checking only)
          MaxHasty      \* bound on retries that come too soon (likewise)

ASSUME SmokeAssumption ==
  /\ Arches \subseteq {"x64", "arm64"}
  /\ MaxAttempts \in Nat \ {0}
  /\ MaxLost \in Nat /\ MaxHasty \in Nat

VARIABLES
  arch,
  status,    \* "connecting", "driving", or how the driver returned: "passed",
             \* "rejected", "timeout", "transport"
  step, typed, attempts,    \* the closure of run_with_injection
  sending,   \* keys of the running send_input that are still to be sent
  keys,      \* keys on their way to the guest
  app,       \* what reads the keys: "boot", "shell", an application, "off"
  line,      \* the line editor of the shell
  field, shown, sel, tap,   \* run_keyboard: text, last_text, sel_col, pending
  framed,    \* the running application has shown its first frame
  out,       \* the markers the guest has put on the wire, in order
  logged,    \* how many of them are in the log
  code,      \* exit code of QEMU, "none" while it runs
  mishaps    \* history: keys lost and commands retyped too soon, by step

driver == <<status, step, typed, attempts, sending>>
guest == <<app, line, field, shown, sel, tap, framed>>
smokeVars == <<arch, driver, keys, guest, out, logged, code, mishaps>>

None == "none"
Words == {"gui", "monitor", "keyboard", "help", "xyz", "uptime", "halt"}
Applications == {"gui", "monitor", "keyboard"}
Garbled == "garbled"      \* a word that lost a letter
-----------------------------------------------------------------------------
Await(marker, type) == [marker |-> marker, type |-> type]
Command(word) == <<word, "ret">>

\* A bug to compare with: the line that ends the monitor is awaited by the
\* words that ended the GUI.
MutantOpening ==
  << Await("Hello from Ferric-K!", Command("gui")),
     Await("SLINT OK", <<"esc">>),
     Await("GUI EXIT OK", Command("monitor")),
     Await("MONITOR OK", <<"esc">>),
     Await("GUI EXIT OK", Command("keyboard")),
     Await("KEYBOARD OK", <<"a", "b">>) >>

Opening ==
  << Await("Hello from Ferric-K!", Command("gui")),
     Await("SLINT OK", <<"esc">>),
     Await("GUI EXIT OK", Command("monitor")),
     Await("MONITOR OK", <<"esc">>),
     Await("MONITOR EXIT OK", Command("keyboard")),
     Await("KEYBOARD OK", <<"a", "b">>) >>

Tapping ==
  << Await("KEYBOARD TEXT ab", <<"right">>),
     Await("KEYBOARD SEL 0 1", <<"ret">>),
     Await("KEYBOARD TEXT ab1", <<"esc">>) >>

Closing ==
  << Await("KEYBOARD EXIT OK", Command("help")),
     Await("power off", Command("xyz")),
     Await("unknown command", Command("uptime")),
     Await("Uptime:", Command("halt")) >>

X64_SCRIPT == Opening \o Tapping \o Closing
ARM64_SCRIPT == Opening \o <<Await("KEYBOARD TEXT ab", <<"esc">>)>> \o Closing
Script == IF arch = "x64" THEN X64_SCRIPT ELSE ARM64_SCRIPT

\* The marker an application prints when Escape closes it.
ExitMarker(a) ==
  CASE a = "gui" -> "GUI EXIT OK"
    [] a = "monitor" -> "MONITOR EXIT OK"
    [] a = "keyboard" -> "KEYBOARD EXIT OK"

FrameMarker(a) ==
  CASE a = "gui" -> "SLINT OK"
    [] a = "monitor" -> "MONITOR OK"
    [] a = "keyboard" -> "KEYBOARD OK"

Told(n, marker) == \E i \in 1..n : out[i] = marker
log_has_marker(marker) == Told(logged, marker)

\* QEMU writes the log of x64; a thread of the driver copies it on arm64.
Emit(markers) ==
  /\ out' = out \o markers
  /\ logged' = IF arch = "x64" THEN Len(out') ELSE logged

Silent == UNCHANGED <<out, logged>>
-----------------------------------------------------------------------------
SmokeInit ==
  /\ arch \in Arches
  /\ status = "connecting"
  /\ step = 1 /\ typed = FALSE /\ attempts = 0
  /\ sending = <<>> /\ keys = <<>>
  /\ app = "boot" /\ line = <<>>
  /\ field = <<>> /\ shown = <<>> /\ sel = 0 /\ tap = None
  /\ framed = FALSE
  /\ out = <<>> /\ logged = 0
  /\ code = None
  /\ mishaps = {}

Alive == app # "off"

\* lib.rs boot, up to the prompt of the shell, or a fault on the way.
GuestBoots ==
  /\ app = "boot"
  /\ app' = "shell"
  /\ Emit(<<"BOOT OK", "FRAMEBUFFER OK", "Hello from Ferric-K!">>)
  /\ UNCHANGED <<arch, driver, keys, line, field, shown, sel, tap, framed,
                 code, mishaps>>

GuestFaults ==
  /\ app = "boot"
  /\ app' = "off"
  /\ code' = "fault"
  /\ UNCHANGED <<arch, driver, keys, line, field, shown, sel, tap, framed,
                 out, logged, mishaps>>

Arrives == keys # <<>> /\ keys' = Tail(keys)
Key == Head(keys)

Open(a) ==
  /\ app' = a
  /\ framed' = FALSE
  /\ field' = <<>> /\ shown' = <<>> /\ sel' = 0 /\ tap' = None

Reply(markers) ==
  Emit(markers) /\ UNCHANGED <<app, framed, field, shown, sel, tap, code>>

\* parse_command and run_command, for the words the script types.
RunCommand ==
  /\ line' = <<>>
  /\ CASE line = <<>> -> Reply(<<>>)
       [] line \in {<<a>> : a \in Applications} ->
            Open(line[1]) /\ Silent /\ UNCHANGED code
       [] line = <<"help">> -> Reply(<<"power off">>)
       [] line = <<"uptime">> -> Reply(<<"Uptime:">>)
       [] line = <<"halt">> ->
            /\ Emit(<<"HALT">>)
            /\ app' = "off" /\ code' = "halt"
            /\ UNCHANGED <<framed, field, shown, sel, tap>>
       [] OTHER -> Reply(<<"unknown command">>)

ShellKey ==
  /\ app = "shell"
  /\ Arrives
  /\ \/ Key = "ret" /\ RunCommand
     \/ /\ Key \notin {"ret", "esc", "right"}
        /\ line' = Append(line, Key)
        /\ Silent /\ UNCHANGED <<app, field, shown, sel, tap, framed, code>>
     \/ /\ Key \in {"esc", "right"}
        /\ Silent /\ UNCHANGED <<guest, code>>
  /\ UNCHANGED <<arch, driver, mishaps>>

\* Escape closes an application; every other key goes to its window.
ApplicationEscape ==
  /\ app \in Applications
  /\ Arrives /\ Key = "esc"
  /\ app' = "shell"
  /\ Emit(<<ExitMarker(app)>>)
  /\ UNCHANGED <<arch, driver, line, field, shown, sel, tap, framed, code, mishaps>>

ApplicationKey ==
  /\ app \in {"gui", "monitor"}
  /\ Arrives /\ Key # "esc"
  /\ UNCHANGED <<arch, driver, guest, out, logged, code, mishaps>>

\* The first keys of the top row of the on-screen keyboard.
TopRow == <<"grave", "1", "2", "3">>

KeyboardKey ==
  /\ app = "keyboard"
  /\ Arrives /\ Key # "esc"
  /\ \/ /\ Key = "ret"
        /\ tap' = TopRow[sel + 1]
        /\ Silent /\ UNCHANGED <<field, sel>>
     \/ /\ Key = "right"
        /\ sel' = sel + 1
        /\ Emit(IF sel' = 1 THEN <<"KEYBOARD SEL 0 1">> ELSE <<>>)
        /\ UNCHANGED <<field, tap>>
     \/ /\ Key \notin {"ret", "right"}
        /\ field' = Append(field, Key)
        /\ Silent /\ UNCHANGED <<sel, tap>>
  /\ UNCHANGED <<arch, driver, app, line, shown, framed, code, mishaps>>

\* What emit_text writes that the script knows.
TextMarkers(text) ==
  CASE text = <<"a", "b">> -> <<"KEYBOARD TEXT ab">>
    [] IsPrefix(<<"a", "b", "1">>, text) -> <<"KEYBOARD TEXT ab1">>
    [] OTHER -> <<>>

FirstFrame == IF framed THEN <<>> ELSE <<FrameMarker(app)>>

\* The end of a pass of an application's loop, when it has something to show:
\* the deferred tap, the changed text, the first frame.
ApplicationPass ==
  /\ app \in Applications
  /\ ~framed \/ tap # None \/ field # shown
  /\ field' = IF tap = None THEN field ELSE Append(field, tap)
  /\ tap' = None
  /\ shown' = field'
  /\ framed' = TRUE
  /\ Emit((IF field' # shown THEN TextMarkers(field') ELSE <<>>) \o FirstFrame)
  /\ UNCHANGED <<arch, driver, keys, app, line, sel, code, mishaps>>

ReaderCopies ==
  /\ logged < Len(out)
  /\ logged' = logged + 1
  /\ UNCHANGED <<arch, driver, keys, guest, out, code, mishaps>>
-----------------------------------------------------------------------------
(* The driver.  Connecting may fail: the port was taken between            *)
(* ephemeral_port and QEMU, or the guest is slow to open it.               *)
Connect ==
  /\ status = "connecting"
  /\ status' \in IF Alive THEN {"driving", "transport"} ELSE {"transport"}
  /\ UNCHANGED <<arch, step, typed, attempts, sending, keys, guest, out, logged,
                 code, mishaps>>

Driving == status = "driving"
Polling == Driving /\ sending = <<>>
Awaited == log_has_marker(Script[step].marker)
Answered == step < Len(Script) /\ log_has_marker(Script[step + 1].marker)

\* A bug to compare with: one attempt too few.
MutantMayRetype == step > 1 /\ attempts + 1 < MaxAttempts
MayRetype == step > 1 /\ attempts < MaxAttempts

TypeCommand ==
  /\ Polling /\ Awaited /\ ~typed
  /\ sending' = Script[step].type
  /\ typed' = TRUE
  /\ attempts' = 1
  /\ UNCHANGED <<arch, status, step, keys, guest, out, logged, code, mishaps>>

Advance ==
  /\ Polling /\ Awaited /\ typed /\ Answered
  /\ step' = step + 1
  /\ typed' = FALSE
  /\ attempts' = 0
  /\ UNCHANGED <<arch, status, sending, keys, guest, out, logged, code, mishaps>>

\* The guest has done all it will do with the keys it was sent.
Settled ==
  /\ keys = <<>> /\ logged = Len(out)
  /\ app \in Applications => framed /\ tap = None /\ field = shown

Mishaps(kind) == {m \in mishaps : m[1] = kind}

Retype ==
  /\ Polling /\ Awaited /\ typed /\ ~Answered /\ MayRetype
  /\ sending' = Script[step].type
  /\ attempts' = attempts + 1
  /\ IF Settled THEN UNCHANGED mishaps
     ELSE /\ Cardinality(Mishaps("hasty")) < MaxHasty
          /\ mishaps' = mishaps \cup {<<"hasty", step, attempts>>}
  /\ UNCHANGED <<arch, status, step, typed, keys, guest, out, logged, code>>

Lost(k) == IF k \in Words THEN <<Garbled>> ELSE <<>>

\* One sendkey, or one write to the socket; keys reach a live guest in order.
SendKey ==
  /\ Driving /\ sending # <<>> /\ Alive
  /\ sending' = Tail(sending)
  /\ \/ keys' = Append(keys, Head(sending)) /\ UNCHANGED mishaps
     \/ /\ Cardinality(Mishaps("lost")) < MaxLost
        /\ keys' = keys \o Lost(Head(sending))
        /\ mishaps' = mishaps \cup {<<"lost", step, Len(sending) + 10 * attempts>>}
  /\ UNCHANGED <<arch, status, step, typed, attempts, guest, out, logged, code>>

\* The monitor of QEMU is gone with QEMU, or answers after more than 5 s.
SendFails ==
  /\ Driving /\ sending # <<>>
  /\ ~Alive \/ arch = "x64"
  /\ status' = "transport"
  /\ UNCHANGED <<arch, step, typed, attempts, sending, keys, guest, out, logged,
                 code, mishaps>>

SmokeMarkers ==
  {"BOOT OK", "FRAMEBUFFER OK", "HALT"} \cup {Script[i].marker : i \in 1..Len(Script)}

assert_smoke ==
  /\ \A m \in SmokeMarkers : log_has_marker(m)
  /\ code = "halt"

\* wait_for_exit sees that QEMU is gone; the reader of arm64 is joined first.
NoticeExit ==
  /\ Polling /\ ~Alive
  /\ logged = Len(out)
  /\ status' = IF assert_smoke THEN "passed" ELSE "rejected"
  /\ UNCHANGED <<arch, step, typed, attempts, sending, keys, guest, out, logged,
                 code, mishaps>>

TimedOut ==
  /\ Polling /\ app \notin {"boot", "off"} /\ Settled
  /\ ~(Awaited /\ (~typed \/ Answered \/ MayRetype))
  /\ status' = "timeout"
  /\ UNCHANGED <<arch, step, typed, attempts, sending, keys, line, field, shown,
                 sel, tap, framed, out, logged, mishaps>>

\* A bug to compare with: the clock is looked at only while the marker of a step
\* is awaited.
MutantLateDeadline == TimedOut /\ ~Awaited /\ app' = "off" /\ code' = "killed"

Deadline == TimedOut /\ app' = "off" /\ code' = "killed"
-----------------------------------------------------------------------------
GuestNext ==
  GuestBoots \/ GuestFaults \/ ShellKey \/ ApplicationEscape \/ ApplicationKey
    \/ KeyboardKey \/ ApplicationPass \/ ReaderCopies

DriverNext ==
  Connect \/ TypeCommand \/ Advance \/ Retype \/ SendKey \/ SendFails
    \/ NoticeExit \/ Deadline

SmokeNext == GuestNext \/ DriverNext

\* QEMU runs, and wait_for_exit polls every 50 ms.
SmokeSpec ==
  /\ SmokeInit /\ [][SmokeNext]_smokeVars
  /\ WF_smokeVars(GuestNext) /\ WF_smokeVars(DriverNext)
-----------------------------------------------------------------------------
Returned == status \notin {"connecting", "driving"}

TypeOK ==
  /\ arch \in Arches
  /\ status \in {"connecting", "driving", "passed", "rejected", "timeout", "transport"}
  /\ step \in 1..Len(Script) /\ typed \in BOOLEAN /\ attempts \in 0..MaxAttempts
  /\ app \in Applications \cup {"boot", "shell", "off"}
  /\ logged \in 0..Len(out)
  /\ code \in {None, "halt", "fault", "killed"}
  /\ sel \in 0..3

\* The application a step's keys are meant for: the one that printed the
\* marker the step waits for.
Home(i) ==
  CASE Script[i].marker = "SLINT OK" -> "gui"
    [] Script[i].marker = "MONITOR OK" -> "monitor"
    [] Script[i].marker \in {"KEYBOARD OK", "KEYBOARD TEXT ab", "KEYBOARD SEL 0 1",
                             "KEYBOARD TEXT ab1"} -> "keyboard"
    [] OTHER -> "shell"

(* Whenever the driver is about to type a step for the first time, the     *)
(* application that step is for is the one that reads the keys, whatever   *)
(* was lost or typed twice before: the markers of the script are never     *)
(* satisfied by an old line of the log that means something else           *)
(* (runner.rs run_with_injection, log_has_marker).                         *)
TypedIntoItsApplication ==
  Polling /\ Awaited /\ ~typed /\ Alive => app = Home(step)

\* Steps that do not survive a mishap: the first is never typed again; keys
\* of a repeated one are added to what the first typing did.
FragileToLoss(i) == i = 1 \/ Script[i].type = <<"a", "b">>
FragileToHaste(i) ==
  Script[i].type \in {Command("keyboard"), <<"a", "b">>, <<"right">>}

(* A smoke boot that the guest survives fails for a reason: the monitor    *)
(* connection broke, a key was lost in a step that cannot be repeated, a   *)
(* step that must not be repeated was typed again while its answer was on  *)
(* its way, or a second key was lost.  One lost key in any other step, and *)
(* any number of hasty retries of one, still pass (runner.rs RETRY_GRACE). *)
FailureExplained ==
  /\ status = "timeout" =>
       \/ \E m \in Mishaps("lost") : FragileToLoss(m[2])
       \/ \E m \in Mishaps("hasty") : FragileToHaste(m[2])
       \/ Cardinality(Mishaps("lost")) > 1
  /\ status = "rejected" => code = "fault"

(* The driver leaves no QEMU behind, except when the monitor connection    *)
(* fails under it: connect and send_input return through `?` and drop the  *)
(* child without killing it (runner.rs run_with_injection).                *)
OrphanOnlyAfterTransport == Returned /\ Alive => status = "transport"

(* Every way the driver can end has its cause, the verdict as well as the  *)
(* QEMU that is or is not still there (runner.rs run_with_injection).      *)
OutcomeExplained == FailureExplained /\ OrphanOnlyAfterTransport

(* The driver returns: no marker that never comes, key that is lost or     *)
(* guest that dies leaves it waiting (runner.rs wait_for_exit).            *)
DriverReturns == <>Returned
=============================================================================
