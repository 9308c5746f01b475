------------------------------ MODULE Monitor ------------------------------
(***************************************************************************)
(* The hardware monitor (both monitor.rs) above the timer interrupt: the   *)
(* shell sleeps, starts the monitor, and the monitor polls the time and    *)
(* the tick counters in a loop that never sleeps.  A sample is three reads *)
(* of three counters, and an interrupt may come between any two of them.   *)
(*                                                                         *)
(* `now' is real time in timer periods, which the TSC of x86_64 and the    *)
(* counter of aarch64 follow; without a TSC frequency from the loader the  *)
(* uptime is TICKS.  The memory map the window also lists is left out: it  *)
(* is the same in every sample.                                            *)
(***************************************************************************)
EXTENDS TimerIrq

CONSTANTS Second,    \* timer periods in a second
          MaxElapsed \* periods that pass while one is pending (checking only)

ASSUME MonitorAssumption == Second \in Nat \ {0} /\ MaxElapsed \in Nat

VARIABLES now, elapsed,
          tsc,         \* the loader told the frequency of the TSC
          running,     \* run_monitor is in its loop
          reads,       \* the counters read in this pass
          previous,    \* MonitorModel.previous
          lastSecond,
          shown        \* what the window shows

clockVars == <<now, elapsed, tsc>>
monitorVars == <<running, reads, previous, lastSecond, shown>>

Nothing == <<>>

MonitorInit ==
  /\ Init
  /\ now = 0 /\ elapsed = 0
  /\ tsc \in IF arch = "x86_64" THEN BOOLEAN ELSE {FALSE}
  /\ running = FALSE
  /\ reads = <<>> /\ previous = Nothing /\ lastSecond = -1
  /\ shown = Nothing
-----------------------------------------------------------------------------
(* Time goes on whether or not the interrupt of the last period was taken. *)
PeriodEnds ==
  /\ TimerFires
  /\ now' = now + 1
  /\ UNCHANGED <<elapsed, tsc, monitorVars>>

PeriodIsMissed ==
  /\ pending /\ elapsed < MaxElapsed
  /\ now' = now + 1
  /\ elapsed' = elapsed + 1
  /\ UNCHANGED <<vars, tsc, monitorVars>>

(* time_source().uptime_ns(), in periods. *)
Uptime == IF arch = "x86_64" /\ ~tsc THEN ticks ELSE now
-----------------------------------------------------------------------------
(* A bug to compare with: the model outlives the window, so that its first *)
(* interval reaches back over the time in the shell.                       *)
MutantRunMonitor ==
  /\ InThread /\ thread = "run" /\ ~running
  /\ running' = TRUE
  /\ reads' = <<>> /\ lastSecond' = -1
  /\ UNCHANGED <<vars, clockVars, previous, shown>>

RunMonitor ==
  /\ InThread /\ thread = "run" /\ ~running
  /\ running' = TRUE
  /\ reads' = <<>> /\ previous' = Nothing /\ lastSecond' = -1
  /\ UNCHANGED <<vars, clockVars, shown>>

(* ArchMonitor::sample: the uptime, then TICKS, then IDLE_TICKS. *)
Sample ==
  /\ InThread /\ running /\ Len(reads) < 3
  /\ reads' = Append(reads, <<Uptime, ticks, idle>>[Len(reads) + 1])
  /\ UNCHANGED <<vars, clockVars, running, previous, lastSecond, shown>>

SaturatingSub(a, b) == IF a >= b THEN a - b ELSE 0

CpuLoadPercent(deltaTicks, deltaIdle) ==
  IF deltaTicks = 0 THEN 0
  ELSE (SaturatingSub(deltaTicks, deltaIdle) * 100 + deltaTicks \div 2)
         \div deltaTicks

Load ==
  IF previous = Nothing THEN 0
  ELSE CpuLoadPercent(SaturatingSub(reads[2], previous[2]),
                      SaturatingSub(reads[3], previous[3]))

(* MonitorModel::update, and refresh when the second is a new one. *)
Update ==
  /\ InThread /\ running /\ Len(reads) = 3
  /\ LET second == reads[1] \div Second
     IN  /\ shown' = IF second = lastSecond THEN shown
                     ELSE [second |-> second, load |-> Load]
         /\ lastSecond' = second
  /\ previous' = reads
  /\ reads' = <<>>
  /\ UNCHANGED <<vars, clockVars, running>>

(* Escape, found by the drain at the head of the loop; the window goes. *)
LeaveMonitor ==
  /\ InThread /\ running /\ reads = <<>>
  /\ running' = FALSE
  /\ shown' = Nothing
  /\ UNCHANGED <<vars, clockVars, reads, previous, lastSecond>>
-----------------------------------------------------------------------------
Shell == (Enable \/ (Enter /\ ~running) \/ Sleep \/ WfiReturns \/ RecordIdle
            \/ IrqStep)
           /\ UNCHANGED <<clockVars, monitorVars>>

MonitorNext ==
  \/ Shell
  \/ PeriodEnds \/ PeriodIsMissed
  \/ RunMonitor \/ Sample \/ Update \/ LeaveMonitor

allVars == <<vars, clockVars, monitorVars>>

(* As in TimerIrq: the timer is periodic, the CPU takes a pending interrupt*)
(* and runs its handler, and a wfi with one pending returns.               *)
MonitorSpec ==
  /\ MonitorInit /\ [][MonitorNext]_allVars
  /\ WF_allVars(PeriodEnds)
  /\ WF_allVars(IrqStep /\ UNCHANGED <<clockVars, monitorVars>>)
  /\ WF_allVars(WfiReturns /\ UNCHANGED <<clockVars, monitorVars>>)
-----------------------------------------------------------------------------
(* What the window tells.  The second shown is that of the last pass and   *)
(* never ahead of the time.  The load is that of the last pass too, not of *)
(* the second: since the loop does not sleep no idle tick falls into a     *)
(* pass, so that a machine idle or busy shows as 100 when a tick fell into *)
(* the pass and as 0 when none did, and always as 0 on aarch64, where none *)
(* is ever counted (run_monitor, compute, bump_tick).                      *)
MonitorTells ==
  shown # Nothing =>
    /\ shown.second <= now \div Second
    /\ reads = <<>> => shown.second = previous[1] \div Second
    /\ shown.load \in {0, 100}
    /\ arch = "aarch64" => shown.load = 0
=============================================================================
