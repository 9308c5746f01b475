----------------------------- MODULE Workspace -----------------------------
(***************************************************************************)
(* The build tool (xtask) on a non-Windows host, seen from the files it    *)
(* leaves: commands are run one after the other, each a list of steps, and *)
(* any step may fail or be the last one before the command is interrupted. *)
(* Between commands the user edits the kernel, moves to a commit with      *)
(* another Limine pin, updates QEMU, loses or gains the C compiler or the  *)
(* limine package of the distribution, or deletes a file.                  *)
(*                                                                         *)
(* A file is Absent, Torn (a copy that was cut short: it is there, it is   *)
(* not whole) or the version it was made from.                             *)
(***************************************************************************)
EXTENDS Integers, Sequences, SequencesExt

CONSTANTS Payloads,    \* REQUIRED_FILES, in the order they are copied
          Versions,    \* pins of Limine, kernel sources and QEMU firmwares
          MaxEvents,   \* bound on what the user changes (model checking only)
          MaxStops     \* bound on failed or interrupted commands (likewise)

ASSUME WorkspaceAssumption ==
  /\ Payloads \in Seq(ToSet(Payloads))
  /\ {"limine-bios.sys", "BOOTAA64.EFI"} \subseteq ToSet(Payloads)
  /\ {"limine", "edk2"} \cap ToSet(Payloads) = {}
  /\ Versions \subseteq Nat \ {0}
  /\ MaxEvents \in Nat /\ MaxStops \in Nat

VARIABLES
  host,     \* what the user and the host provide: pin, source, firmware,
            \* a C compiler (cc), a limine on PATH (distro)
  ready,    \* installed by bootstrap: subset of {"toolchain", "native"}
  file,     \* third_party: the payloads, the tool "limine", "edk2"
  marker,   \* LIMINE_VERSION in third_party/limine
  elf,      \* the kernels in target/ and in the scratch directory of a demo
  image,    \* build/ferric.img and the image of the demo
  name, todo,  \* the running command and the steps it has left
  verdict,  \* <<command, how it ended>>, just after it ended
  scars,    \* history: versions whose payloads may be mixed or torn
  unbuilt,  \* history: the version of marker was installed without a compiler
  events, stops

command == <<name, todo>>
history == <<scars, unbuilt>>
vars == <<host, ready, file, marker, elf, image, command, verdict, history,
          events, stops>>

Absent == 0
Torn == -1
Distro == 100      \* the version of the distribution's tool, of no pin
Targets == {"x86_64", "aarch64"}
Builds == {"kernel", "demo"}
Tool == "limine"
Files == ToSet(Payloads) \cup {Tool, "edk2"}
IsFile(f) == file[f] # Absent
NoImage == [stage |-> 0]
Created == 1       \* the stages of an image: truncated, perhaps formatted;
Staged == 2        \* the files are in its FAT;
Installed == 3     \* bios-install has finished
IsImage(b) == image[b].stage > 0
-----------------------------------------------------------------------------
(* The steps of each command.                                              *)
Do(op) == <<<<op, "">>>>
On(op, x) == <<<<op, x>>>>
Both(op, b) == << <<op, <<b, "x86_64">>>>, <<op, <<b, "aarch64">>>> >>

Copy(f) == On("open", f) \o On("fill", f)

CopyPayloads ==
  [i \in 1 .. 2 * Len(Payloads) |->
     IF i % 2 = 1 THEN <<"open", Payloads[(i + 1) \div 2]>>
     ELSE <<"fill", Payloads[i \div 2]>>]

\* A bug to compare with: the version is recorded before the tool is built.
MutantMaterialize ==
  Do("fetch") \o CopyPayloads \o Do("record") \o Do("compile")

Materialize ==
  Do("fetch") \o CopyPayloads \o Do("compile") \o Do("record")

marker_matches == marker = host.pin
payloads_ok == \A f \in ToSet(Payloads) : IsFile(f)
tool_ok == IsFile(Tool)

\* A bug to compare with: only the version is looked at.
MutantPresent == marker_matches /\ tool_ok
AlreadyPresent == marker_matches /\ payloads_ok /\ tool_ok

\* A bug to compare with: an image that is there is used as it is.
MutantAssembleOnce(b) ==
  IF IsImage(b) THEN <<>>
  ELSE On("inputs", b) \o On("create", b) \o On("stage", b) \o On("install", b)
         \o On("validate", b)
Assemble(b) ==
  On("inputs", b) \o On("create", b) \o On("stage", b) \o On("install", b)
    \o On("validate", b)

Runs == {"run x64", "run arm64"}
RunTarget(c) == IF c = "run x64" THEN "x86_64" ELSE "aarch64"

Steps(c) ==
  CASE c = "bootstrap" ->
         Do("toolchain") \o Do("native")
           \o (IF AlreadyPresent THEN <<>> ELSE Materialize) \o Do("firmware")
    [] c = "build" -> Both("cargo", "kernel")
    [] c = "build-image" -> Assemble("kernel")
    [] c \in Runs ->
         (IF IsImage("kernel") THEN <<>> ELSE Assemble("kernel"))
           \o On("boot", <<"kernel", RunTarget(c)>>)
    [] c = "check" -> Both("cargo", "kernel") \o Assemble("kernel") \o Both("boot", "kernel")
    [] c = "demo" -> Both("cargo", "demo") \o Assemble("demo") \o Both("boot", "demo")
    [] c = "clean" -> On("remove", "target") \o On("remove", "build")
-----------------------------------------------------------------------------
Commands ==
  {"bootstrap", "build", "build-image", "check", "demo", "clean"} \cup Runs
Idle == name = "none"
NoVerdict == <<"none", "none">>

Init ==
  /\ \E d \in BOOLEAN :
       host = [pin |-> 1, source |-> 1, firmware |-> 1, cc |-> TRUE, distro |-> d]
  /\ ready = {}
  /\ file = [f \in Files |-> Absent]
  /\ marker = Absent
  /\ elf = [b \in Builds |-> [t \in Targets |-> Absent]]
  /\ image = [b \in Builds |-> NoImage]
  /\ name = "none" /\ todo = <<>>
  /\ verdict = NoVerdict
  /\ scars = {}
  /\ unbuilt = FALSE
  /\ events = 0 /\ stops = 0

\* Everything on the disk.
tree == <<ready, file, marker, elf, image>>

Start(c) ==
  /\ Idle
  /\ name' = c
  /\ todo' = Steps(c)
  /\ verdict' = NoVerdict
  /\ UNCHANGED <<host, tree, history, events, stops>>

Running(op) == todo # <<>> /\ Head(todo)[1] = op
Arg == Head(todo)[2]
Kept == UNCHANGED <<name, verdict, host, events, stops>>
Onward == todo' = Tail(todo) /\ Kept

Finish ==
  /\ ~Idle /\ todo = <<>>
  /\ verdict' = <<name, "ok">>
  /\ name' = "none"
  /\ UNCHANGED <<todo, host, tree, history, events, stops>>

\* A materialization that stops half-way leaves the old marker in place, over
\* files that may now be torn or of the new version.
Ahead(op) == \E i \in 1..Len(todo) : todo[i][1] = op
Materializing == Ahead("record") /\ ~Ahead("fetch")

\* A step fails, or the command is interrupted before it.
End(how) ==
  /\ verdict' = <<name, how>>
  /\ name' = "none" /\ todo' = <<>>
  /\ scars' = IF Materializing THEN scars \cup {marker} ELSE scars
  /\ UNCHANGED <<host, tree, unbuilt, events>>

Stop == ~Idle /\ todo # <<>> /\ stops < MaxStops /\ stops' = stops + 1 /\ End("stopped")

\* A check of the tool itself refuses to go on.
Refuse(guard) == ~guard /\ End("refused") /\ UNCHANGED stops
-----------------------------------------------------------------------------
(* bootstrap                                                               *)
Install ==
  \E x \in {"toolchain", "native"} :
    /\ Running(x)
    /\ ready' = ready \cup {x}
    /\ Onward
    /\ UNCHANGED <<file, marker, elf, image, history>>

Fetch ==
  /\ Running("fetch")
  /\ Onward
  /\ UNCHANGED <<tree, history>>

OpenFile ==
  /\ Running("open")
  /\ file' = [file EXCEPT ![Arg] = Torn]
  /\ Onward
  /\ UNCHANGED <<ready, marker, elf, image, history>>

FillFile ==
  /\ Running("fill")
  /\ file' = [file EXCEPT ![Arg] = IF Arg = "edk2" THEN host.firmware ELSE host.pin]
  /\ Onward
  /\ UNCHANGED <<ready, marker, elf, image, history>>

\* build_host_tool: without a C compiler whatever tool is there stays there.
Compile ==
  /\ Running("compile")
  /\ todo' = (IF host.cc THEN Copy(Tool) ELSE <<>>) \o Tail(todo)
  /\ UNCHANGED <<tree, history>>
  /\ Kept

Record ==
  /\ Running("record")
  /\ marker' = host.pin
  /\ scars' = {}
  /\ unbuilt' = ~host.cc
  /\ Onward
  /\ UNCHANGED <<ready, file, elf, image>>

\* stage_firmware compares the contents, so a torn copy is made again.
StageFirmware ==
  /\ Running("firmware")
  /\ todo' = (IF file["edk2"] = host.firmware THEN <<>> ELSE Copy("edk2")) \o Tail(todo)
  /\ UNCHANGED <<tree, history>>
  /\ Kept
-----------------------------------------------------------------------------
(* build, build-image, run, the demos, clean                               *)
Cargo ==
  /\ Running("cargo")
  /\ IF "toolchain" \in ready
     THEN /\ elf' = [elf EXCEPT ![Arg[1]][Arg[2]] = host.source]
          /\ Onward
          /\ UNCHANGED <<ready, file, marker, image, history>>
     ELSE Refuse(FALSE)

\* The payloads that go into the image: the two for a CD do not.
ImageFiles == ToSet(Payloads) \ {"limine-bios-cd.bin", "limine-uefi-cd.bin"}
FilesThere == \A f \in ImageFiles : IsFile(f)

\* The tool that installs the stages: the one bootstrap built, else the one on
\* PATH, if there is one.
LimineTool ==
  IF IsFile(Tool) THEN file[Tool] ELSE IF host.distro THEN Distro ELSE Absent

\* A bug to compare with: the tool is not looked for before it is needed.
MutantInputsPresent(b) ==
  /\ "native" \in ready
  /\ FilesThere
  /\ \A t \in Targets : elf[b][t] # Absent

\* Everything assemble looks for before it touches the image.
InputsPresent(b) ==
  /\ "native" \in ready
  /\ FilesThere
  /\ LimineTool # Absent
  /\ \A t \in Targets : elf[b][t] # Absent

FindInputs ==
  /\ Running("inputs")
  /\ IF InputsPresent(Arg)
     THEN Onward /\ UNCHANGED <<tree, history>>
     ELSE Refuse(FALSE)

ImageStep(op, b, im) ==
  /\ Running(op) /\ Arg = b
  /\ image' = [image EXCEPT ![b] = im]
  /\ Onward
  /\ UNCHANGED <<ready, file, marker, elf, history>>

CreateImage(b) == ImageStep("create", b, [stage |-> Created])

\* mcopy copies files that are there; the system runs a tool that is whole.
CanStage(b) ==
  /\ FilesThere
  /\ \A t \in Targets : elf[b][t] # Absent
CanInstall == LimineTool \notin {Absent, Torn}

StageFiles(b) ==
  /\ CanStage(b)
  /\ ImageStep("stage", b,
               [stage |-> Staged, kernels |-> elf[b],
                loaders |-> [f \in ImageFiles |-> file[f]]])

InstallBios(b) ==
  /\ CanInstall
  /\ ImageStep("install", b,
               [stage |-> Installed, kernels |-> image[b].kernels,
                loaders |-> image[b].loaders, tool |-> LimineTool])

\* The error paths of the two steps.
AssemblyFails ==
  \E op \in {"stage", "install"} :
    Running(op) /\ Refuse(IF op = "stage" THEN CanStage(Arg) ELSE CanInstall)

Validate ==
  /\ Running("validate")
  /\ Onward
  /\ UNCHANGED <<tree, history>>

\* What a target boots from: on x86_64 SeaBIOS runs the stages that the tool
\* wrote into the image, and they load limine-bios.sys; on aarch64 the UEFI
\* firmware loads BOOTAA64.EFI from the FAT, whether or not bios-install ran.
BootStages(t) == IF t = "x86_64" THEN {Installed} ELSE {Staged, Installed}
Loader(t) == IF t = "x86_64" THEN "limine-bios.sys" ELSE "BOOTAA64.EFI"

BootsUp(im, t) ==
  /\ im.stage \in BootStages(t)
  /\ im.loaders[Loader(t)] # Torn
  /\ t = "aarch64" => file["edk2"] # Torn

\* A tool of another release may write stages that do not find their loader.
MayFail(im, t) ==
  BootsUp(im, t) => t = "x86_64" /\ im.tool # im.loaders[Loader(t)]

Findable(t) == "native" \in ready /\ (t = "aarch64" => IsFile("edk2"))

\* The smoke boot of runner::run, or the wait for the markers of a demo.
Boots ==
  /\ Running("boot")
  /\ LET im == image[Arg[1]] t == Arg[2]
     IN \/ /\ Findable(t) /\ BootsUp(im, t)
           /\ Onward
           /\ UNCHANGED <<tree, history>>
        \/ Refuse(Findable(t))
        \/ /\ Findable(t)
           /\ MayFail(im, t)
           /\ End("no boot") /\ UNCHANGED stops

RemoveTree ==
  /\ Running("remove")
  /\ IF Arg = "target"
     THEN /\ elf' = [elf EXCEPT !["kernel"] = [t \in Targets |-> Absent]]
          /\ UNCHANGED image
     ELSE /\ elf' = [elf EXCEPT !["demo"] = [t \in Targets |-> Absent]]
          /\ image' = [b \in Builds |-> NoImage]
  /\ Onward
  /\ UNCHANGED <<ready, file, marker, history>>
-----------------------------------------------------------------------------
UserChanges ==
  /\ Idle /\ events < MaxEvents
  /\ events' = events + 1
  /\ verdict' = NoVerdict
  /\ \/ /\ \E x \in {"pin", "source", "firmware"}, v \in Versions :
             host[x] # v /\ host' = [host EXCEPT ![x] = v]
        /\ UNCHANGED file
     \/ /\ \E x \in {"cc", "distro"} : host' = [host EXCEPT ![x] = ~@]
        /\ UNCHANGED file
     \/ /\ \E f \in Files : IsFile(f) /\ file' = [file EXCEPT ![f] = Absent]
        /\ UNCHANGED host
  /\ UNCHANGED <<command, ready, marker, elf, image, history, stops>>

Next ==
  \/ \E c \in Commands : Start(c)
  \/ Finish \/ Stop
  \/ Install \/ Fetch \/ OpenFile \/ FillFile \/ Compile \/ Record \/ StageFirmware
  \/ Cargo \/ FindInputs \/ AssemblyFails \/ Validate \/ Boots \/ RemoveTree
  \/ \E b \in Builds : CreateImage(b) \/ StageFiles(b) \/ InstallBios(b)
  \/ UserChanges

Spec == Init /\ [][Next]_vars
-----------------------------------------------------------------------------
(* A bootstrap that succeeds leaves the pinned payloads whole, and the     *)
(* firmware of the installed QEMU, whatever was interrupted, upgraded or   *)
(* deleted before.  The one way around it is a materialization that was    *)
(* cut short over a finished one of the same version: its marker is still  *)
(* there (bootstrap.rs ensure_limine, stage_firmware).                     *)
BootstrapMeansReady ==
  verdict = <<"bootstrap", "ok">> =>
    /\ \A f \in ToSet(Payloads) : file[f] = host.pin \/ host.pin \in scars
    /\ file["edk2"] = host.firmware

(* A check or a demo that passes booted the kernels of the sources as they *)
(* are now, on both targets, from a finished image.  `run` boots any file  *)
(* it finds: that it passes on x86_64 still means a finished image with a  *)
(* whole loader, on aarch64 only that the files were staged and the loader *)
(* is whole (check.rs run, runner.rs run, image.rs assemble).              *)
PassMeansCurrent ==
  LET Loads(im, t) == im.loaders[Loader(t)] # Torn
      Current(im) == /\ im.stage = Installed
                     /\ \A t \in Targets : Loads(im, t) /\ im.kernels[t] = host.source
  IN /\ verdict = <<"check", "ok">> => Current(image["kernel"])
     /\ verdict = <<"demo", "ok">> => Current(image["demo"])
     /\ verdict = <<"run x64", "ok">> =>
          image["kernel"].stage = Installed /\ Loads(image["kernel"], "x86_64")
     /\ verdict = <<"run arm64", "ok">> =>
          image["kernel"].stage \in {Staged, Installed} /\ Loads(image["kernel"], "aarch64")

(* Nothing is missing once the image is truncated: a command that is       *)
(* refused between the truncation and the end of bios-install had a tool   *)
(* that was cut short, which assemble finds out only by running it.  A     *)
(* missing input is refused before the truncation (image.rs assemble).     *)
RefusalKeepsImage ==
  [][verdict' # verdict /\ verdict'[2] = "refused"
       /\ Ahead("install") /\ ~Ahead("create")
     => file[Tool] = Torn]_vars

(* After a bootstrap for the pin that found a compiler, the boot of a check *)
(* does not fail for want of a good file: not after failed builds and      *)
(* upgrades, half-made images, and commands cut short in any other place.  *)
(* What is left is a marker that survived a cut, a torn firmware, or a     *)
(* tool that the user has deleted (bootstrap.rs, image.rs assemble).       *)
FailedCheckExplained ==
  verdict = <<"check", "no boot">> =>
    \/ marker # host.pin \/ host.pin \in scars
    \/ unbuilt \/ ~IsFile(Tool)
    \/ file["edk2"] = Torn
=============================================================================
