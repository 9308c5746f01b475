---------------------------- MODULE MonitorProofs ---------------------------
(***************************************************************************)
(* Proofs about TimerIrq and, above it, Monitor, for every set of targets, *)
(* length of a second and bound on the ticks.                              *)
(*                                                                         *)
(* First two invariants of the interrupt, each inductive on its own: that  *)
(* of the clock, and that of the stack, which says for every place of the  *)
(* interrupt's path how many words were pushed and what the ones to be     *)
(* read again hold.  Then the arithmetic of the load and of whole seconds, *)
(* and the invariant of the samples, which rests on that of the clock, as  *)
(* a step of Monitor is one of TimerIrq or leaves its variables alone.     *)
(***************************************************************************)
EXTENDS Monitor, TLAPS
-----------------------------------------------------------------------------
(***************************************************************************)
(* The clock.  A nap begins at entered, and nothing is counted as idle     *)
(* before it ends; on x86_64 it ends by an interrupt whose handler has     *)
(* counted a tick since.  On aarch64 no interrupt is ever taken.           *)
(***************************************************************************)
InNap == thread \in {"entered", "asleep", "woken"}

ClockTypes ==
  /\ ticks \in Nat /\ idle \in Nat /\ entered \in Nat
  /\ pending \in BOOLEAN /\ inService \in BOOLEAN

ClockInv ==
  /\ ClockTypes
  /\ arch \in {"x86_64", "aarch64"}
  /\ idle <= ticks
  /\ InNap => idle <= entered /\ entered <= ticks
  /\ cpu \in {"stub", "wrapper", "handler"} => inService
  /\ InNap /\ cpu \in {"unwrap", "restore", "iret"} => entered < ticks
  /\ arch = "x86_64" /\ thread = "woken" => entered < ticks
  /\ arch = "aarch64" => "I" \in masked /\ cpu = "thread" /\ ticks = 0

LEMMA ClockStart ==
  ASSUME Init
  PROVE  ClockInv
<1>1. arch \in {"x86_64", "aarch64"}
  BY TimerAssumption DEF Init
<1>2. /\ thread = "boot" /\ cpu = "thread"
      /\ ticks = 0 /\ idle = 0 /\ entered = 0
  BY DEF Init
<1>3. pending \in BOOLEAN /\ inService \in BOOLEAN
  BY DEF Init
<1>4. arch = "aarch64" => "I" \in masked
  BY DEF Init, DAIF
<1>. QED  BY <1>1, <1>2, <1>3, <1>4 DEF ClockInv, ClockTypes, InNap

LEMMA ClockStep ==
  ASSUME ClockInv, [Next]_vars
  PROVE  ClockInv'
<1>1. CASE Enable
  BY <1>1 DEF Enable, ClockInv, ClockTypes, InNap, InThread, cpuVars, deviceVars, timeVars
<1>2. CASE Enter
  BY <1>2 DEF Enter, ClockInv, ClockTypes, InNap, InThread, cpuVars, deviceVars, timeVars
<1>3. CASE Sleep
  BY <1>3 DEF Sleep, ClockInv, ClockTypes, InNap, InThread, cpuVars, deviceVars, timeVars
<1>4. CASE WfiReturns
  BY <1>4 DEF WfiReturns, Woken, ClockInv, ClockTypes, InNap, InThread, cpuVars,
              deviceVars, timeVars
<1>5. CASE RecordIdle
  BY <1>5 DEF RecordIdle, ClockInv, ClockTypes, InNap, InThread, cpuVars, deviceVars,
              timeVars
<1>6. CASE TimerFires
  BY <1>6 DEF TimerFires, ClockInv, ClockTypes, InNap, cpuVars, timeVars
<1>7. CASE Deliver
  BY <1>7 DEF Deliver, ClockInv, ClockTypes, InNap, timeVars
<1>8. CASE Save
  BY <1>8 DEF Save, ClockInv, ClockTypes, InNap, deviceVars, timeVars
<1>9. CASE Wrap
  BY <1>9 DEF Wrap, ClockInv, ClockTypes, InNap, deviceVars, timeVars
<1>10. CASE Handle
  <2>1. /\ cpu = "handler" /\ cpu' = "unwrap"
        /\ ticks' = ticks + 1
        /\ UNCHANGED <<arch, thread, masked, pending, idle, entered>>
    BY <1>10 DEF Handle
  <2>2. inService' \in BOOLEAN
    BY <1>10 DEF Handle
  <2>. QED  BY <2>1, <2>2 DEF ClockInv, ClockTypes, InNap
<1>11. CASE Unwrap
  BY <1>11 DEF Unwrap, ClockInv, ClockTypes, InNap, deviceVars, timeVars
<1>12. CASE Restore
  BY <1>12 DEF Restore, ClockInv, ClockTypes, InNap, deviceVars, timeVars
<1>13. CASE Iretq
  BY <1>13 DEF Iretq, Woken, ClockInv, ClockTypes, InNap, deviceVars, timeVars
<1>14. CASE UNCHANGED vars
  BY <1>14 DEF vars, ClockInv, ClockTypes, InNap, cpuVars, deviceVars, timeVars
<1>. QED
  BY <1>1, <1>2, <1>3, <1>4, <1>5, <1>6, <1>7, <1>8, <1>9, <1>10, <1>11, <1>12,
     <1>13, <1>14 DEF Next, IrqStep

LEMMA ClockIsSound == ClockInv => IdleWithinTime
  BY DEF ClockInv, ClockTypes, InNap, IdleWithinTime

LEMMA ClockKept == Spec => []ClockInv
<1>1. Init => ClockInv
  BY ClockStart
<1>2. ClockInv /\ [Next]_vars => ClockInv'
  BY ClockStep
<1>. QED  BY <1>1, <1>2, PTL DEF Spec
-----------------------------------------------------------------------------
(***************************************************************************)
(* The stack.  It is counted in words from where the interrupt found it;   *)
(* the CPU pushes five, after a word of padding if skew is 1, the stub two *)
(* and the nine registers it saves, and a return address.                  *)
(***************************************************************************)
Words == Tags \X (Nat \cup SUBSET DAIF)

LEMMA WordIsWord ==
  ASSUME NEW t \in Tags, NEW x \in Nat \cup SUBSET DAIF
  PROVE  <<t, x>> \in Words
  BY DEF Words

Kept == Regs \ (CallerSaved \cup {"r12", "r13"})

FrameIntact ==
  /\ stack[2 + skew] = <<"rsp", 0>>
  /\ stack[3 + skew] = <<"rflags", {}>>

RegsSaved == \A i \in 1 .. 9 : stack[7 + skew + i] = Live

Place ==
  /\ cpu = "thread" => stack = <<>> /\ \A r \in CallerSaved : regs[r] = Live
  /\ cpu = "stub" => /\ Len(stack) = 5 + skew /\ FrameIntact
                     /\ \A r \in CallerSaved : regs[r] = Live
  /\ cpu = "wrapper" => /\ Len(stack) = 17 + skew /\ FrameIntact /\ RegsSaved
  /\ cpu = "handler" => /\ Len(stack) = 19 + skew /\ FrameIntact /\ RegsSaved
                        /\ regs["r12"] = Address(17 + skew)
  /\ cpu = "unwrap" => /\ Len(stack) = 18 + skew /\ FrameIntact /\ RegsSaved
                       /\ regs["r12"] = Address(17 + skew)
  /\ cpu = "restore" => Len(stack) = 16 + skew /\ FrameIntact /\ RegsSaved
  /\ cpu = "iret" => /\ Len(stack) = 5 + skew /\ FrameIntact
                     /\ \A r \in CallerSaved : regs[r] = Live

StackInv ==
  /\ skew \in {0, 1}
  /\ cpu \in {"thread", "stub", "wrapper", "handler", "unwrap", "restore", "iret"}
  /\ stack \in Seq(Words) /\ regs \in [Regs -> Words] /\ masked \subseteq DAIF
  /\ \A r \in Kept : regs[r] = Live
  /\ arch = "x86_64" /\ thread = "boot" => "I" \in masked /\ cpu = "thread"
  /\ arch = "x86_64" /\ thread # "boot" /\ cpu = "thread" => masked = {}
  /\ arch # "x86_64" => "I" \in masked /\ cpu = "thread"
  /\ cpu # "thread" => "I" \in masked
  /\ Place

LEMMA StackStart ==
  ASSUME Init
  PROVE  StackInv
<1>1. /\ thread = "boot" /\ cpu = "thread" /\ skew \in {0, 1}
      /\ stack = <<>> /\ regs = [r \in Regs |-> Live]
  BY DEF Init
<1>2. Live \in Words
  BY WordIsWord DEF Live, Tags
<1>3. regs \in [Regs -> Words] /\ \A r \in Regs : regs[r] = Live
  BY <1>1, <1>2
<1>4. stack \in Seq(Words)
  BY <1>1
<1>5. masked \subseteq DAIF /\ "I" \in masked
  BY DEF Init, DAIF
<1>6. Place
  BY <1>1, <1>3 DEF Place, Regs
<1>. QED  BY <1>1, <1>3, <1>4, <1>5, <1>6 DEF StackInv, Kept

LEMMA Joined ==
  ASSUME NEW s \in Seq(Words), NEW t \in Seq(Words)
  PROVE  /\ s \o t \in Seq(Words) /\ Len(s \o t) = Len(s) + Len(t)
         /\ \A i \in 1 .. Len(s) : (s \o t)[i] = s[i]
         /\ \A i \in 1 .. Len(t) : (s \o t)[Len(s) + i] = t[i]
  OBVIOUS

LEMMA AlignedProps ==
  ASSUME NEW s \in Seq(Words), skew \in {0, 1}
  PROVE  /\ Aligned(s) \in Seq(Words)
         /\ Len(Aligned(s)) = Len(s) + ((skew + Len(s)) % 2)
         /\ \A i \in 1 .. Len(s) : Aligned(s)[i] = s[i]
<1>1. Word("pad") \in Words
  BY WordIsWord DEF Word, Tags
<1>2. PICK n \in Nat : n = Len(s)
  OBVIOUS
<1>3. (skew + n) % 2 \in {0, 1}
  BY <1>2
<1>4. CASE (skew + n) % 2 = 0
  BY <1>2, <1>4 DEF Aligned
<1>5. CASE (skew + n) % 2 = 1
  <2>1. Aligned(s) = Append(s, Word("pad"))
    BY <1>2, <1>5 DEF Aligned, Push
  <2>. QED  BY <1>1, <1>2, <1>5, <2>1
<1>. QED  BY <1>3, <1>4, <1>5

(* A step of the thread: the registers, the stack and the path are as they *)
(* were.                                                                   *)
LEMMA ThreadStep ==
  ASSUME StackInv, UNCHANGED <<arch, cpu, regs, stack, skew>>,
         masked' \subseteq DAIF,
         arch = "x86_64" /\ thread' = "boot" => "I" \in masked' /\ cpu = "thread",
         arch = "x86_64" /\ thread' # "boot" /\ cpu = "thread" => masked' = {},
         arch # "x86_64" => "I" \in masked',
         cpu # "thread" => "I" \in masked'
  PROVE  StackInv'
<1>1. Place'
  BY ZenonT(60) DEF StackInv, Place, FrameIntact, RegsSaved
<1>. QED  BY <1>1 DEF StackInv

LEMMA DeliverStep ==
  ASSUME StackInv, Deliver
  PROVE  StackInv'
<1>1. /\ "I" \notin masked /\ cpu' = "stub" /\ masked' = masked \cup {"I"}
      /\ stack' = Aligned(stack) \o Frame
      /\ UNCHANGED <<arch, thread, regs, skew>>
  BY DEF Deliver, timeVars
<1>2. arch = "x86_64" /\ thread # "boot"
  BY <1>1 DEF StackInv
<1>3. cpu = "thread" /\ masked = {}
  BY <1>1, <1>2 DEF StackInv
<1>4. stack = <<>> /\ \A r \in CallerSaved : regs[r] = Live
  BY <1>3 DEF StackInv, Place
<1>5. Frame = <<<<"ss", 0>>, <<"rsp", 0>>, <<"rflags", {}>>, <<"cs", 0>>, <<"rip", 0>>>>
  BY <1>3, <1>4 DEF Frame, Word
<1>6. Frame \in Seq(Words) /\ Len(Frame) = 5
  <2>1. /\ <<"ss", 0>> \in Words /\ <<"rsp", 0>> \in Words
        /\ <<"rflags", {}>> \in Words
        /\ <<"cs", 0>> \in Words /\ <<"rip", 0>> \in Words
    BY WordIsWord DEF Tags
  <2>. QED  BY <1>5, <2>1
<1>7. PICK s \in Seq(Words) : s = Aligned(stack) /\ Len(s) = skew
  <2>1. /\ skew \in {0, 1} /\ skew % 2 = skew
        /\ stack \in Seq(Words) /\ Len(stack) = 0
    BY <1>4 DEF StackInv
  <2>2. /\ Aligned(stack) \in Seq(Words)
        /\ Len(Aligned(stack)) = Len(stack) + ((skew + Len(stack)) % 2)
    BY <2>1, AlignedProps
  <2>3. Len(stack) + ((skew + Len(stack)) % 2) = skew
    BY <2>1
  <2>. QED  BY <2>2, <2>3
<1>8. /\ stack' \in Seq(Words) /\ Len(stack') = skew + 5
      /\ \A i \in 1 .. 5 : stack'[skew + i] = Frame[i]
  <2>1. PICK f \in Seq(Words) : f = Frame /\ Len(f) = 5
    BY <1>6
  <2>2. stack' = s \o f
    BY <1>1, <1>7, <2>1
  <2>3. /\ s \o f \in Seq(Words) /\ Len(s \o f) = Len(s) + Len(f)
        /\ \A i \in 1 .. Len(f) : (s \o f)[Len(s) + i] = f[i]
    BY Joined
  <2>. QED  BY <1>7, <2>1, <2>2, <2>3
<1>9. FrameIntact'
  <2>1. PICK k \in {0, 1} : k = skew /\ k = skew'
    BY <1>1 DEF StackInv
  <2>2. stack'[k + 2] = Frame[2] /\ stack'[k + 3] = Frame[3]
    <3>1. \A i \in 1 .. 5 : stack'[k + i] = Frame[i]
      BY <1>8, <2>1
    <3>. QED  BY <3>1
  <2>3. Frame[2] = <<"rsp", 0>> /\ Frame[3] = <<"rflags", {}>>
    BY <1>5
  <2>4. stack'[2 + k] = <<"rsp", 0>> /\ stack'[3 + k] = <<"rflags", {}>>
    BY <2>1, <2>2, <2>3
  <2>. QED  BY <2>1, <2>4 DEF FrameIntact
<1>10. Place'
  BY <1>1, <1>4, <1>8, <1>9 DEF Place, StackInv
<1>. QED  BY <1>1, <1>2, <1>8, <1>10 DEF StackInv, DAIF

(* The two words that are read again stay where they are, whatever is      *)
(* pushed above them or taken off.                                         *)
LEMMA BelowKept ==
  ASSUME FrameIntact, skew \in {0, 1}, UNCHANGED skew,
         \A i \in 1 .. 5 : stack'[i] = stack[i]
  PROVE  FrameIntact'
<1>1. PICK k \in {0, 1} : k = skew /\ k = skew'
  OBVIOUS
<1>2. 2 + k \in 1 .. 5 /\ 3 + k \in 1 .. 5
  OBVIOUS
<1>. QED  BY <1>1, <1>2 DEF FrameIntact

LEMMA SavedKept ==
  ASSUME RegsSaved, skew \in {0, 1}, UNCHANGED skew,
         \A i \in 1 .. 16 + skew : stack'[i] = stack[i]
  PROVE  RegsSaved'
<1>1. PICK k \in {0, 1} : k = skew /\ k = skew'
  OBVIOUS
<1>2. \A i \in 1 .. 9 : 7 + k + i \in 1 .. 16 + k
  OBVIOUS
<1>. QED  BY <1>1, <1>2 DEF RegsSaved

LEMMA SaveStep ==
  ASSUME StackInv, Save
  PROVE  StackInv'
<1> DEFINE nine == [i \in DOMAIN Pushed |-> regs[Pushed[i]]]
           two == <<Word("error"), Word("vector")>>
<1>1. /\ cpu = "stub" /\ cpu' = "wrapper"
      /\ regs' = [regs EXCEPT !["rdi"] = Address(Len(stack \o two \o nine))]
      /\ stack' = Append(stack \o two \o nine, Word("return"))
      /\ UNCHANGED <<arch, thread, masked, skew>>
  BY DEF Save, Push
<1>2. PICK k \in {0, 1} : k = skew /\ k = skew'
  BY <1>1 DEF StackInv
<1>3. /\ stack \in Seq(Words) /\ Len(stack) = 5 + k /\ FrameIntact
      /\ \A r \in CallerSaved : regs[r] = Live
  BY <1>1, <1>2 DEF StackInv, Place
<1>4. /\ two \in Seq(Words) /\ Len(two) = 2
  BY WordIsWord DEF Word, Tags
<1>5. /\ nine \in Seq(Words) /\ Len(nine) = 9
      /\ \A i \in 1 .. 9 : nine[i] = Live
  <2>1. DOMAIN Pushed = 1 .. 9 /\ \A i \in 1 .. 9 : Pushed[i] \in CallerSaved
    BY DEF Pushed, CallerSaved
  <2>2. nine = [i \in 1 .. 9 |-> Live]
    BY <1>3, <2>1
  <2>3. Live \in Words
    BY WordIsWord DEF Live, Tags
  <2>. QED  BY <2>2, <2>3
<1>6. PICK a \in Seq(Words) : a = stack \o two
  BY <1>3, <1>4, Joined
<1>7. Len(a) = 7 + k /\ \A i \in 1 .. 5 : a[i] = stack[i]
  <2>1. /\ Len(a) = Len(stack) + Len(two)
        /\ \A i \in 1 .. Len(stack) : a[i] = stack[i]
    BY <1>3, <1>4, <1>6, Joined
  <2>. QED  BY <1>3, <1>4, <2>1
<1>8. PICK b \in Seq(Words) : b = a \o nine
  BY <1>5, Joined
<1>9. /\ Len(b) = 16 + k /\ \A i \in 1 .. 5 : b[i] = stack[i]
      /\ \A i \in 1 .. 9 : b[7 + k + i] = Live
  <2> HIDE DEF nine
  <2>1. /\ Len(b) = Len(a) + Len(nine)
        /\ \A i \in 1 .. Len(a) : b[i] = a[i]
        /\ \A i \in 1 .. Len(nine) : b[Len(a) + i] = nine[i]
    BY ZenonT(60), <1>5, <1>8, Joined
  <2>. QED  BY SMTT(60), <1>5, <1>7, <2>1
<1>10. stack' = Append(b, Word("return")) /\ Word("return") \in Words
  BY <1>1, <1>6, <1>8, WordIsWord DEF Word, Tags
<1>11. /\ stack' \in Seq(Words) /\ Len(stack') = 17 + k
       /\ \A i \in 1 .. 16 + k : stack'[i] = b[i]
  BY <1>9, <1>10
<1>12. FrameIntact'
  <2>1. \A i \in 1 .. 5 : stack'[i] = stack[i]
    BY SMTT(60), <1>9, <1>11
  <2>. QED  BY <1>2, <1>3, <2>1, BelowKept
<1>13. RegsSaved'
  <2>1. \A i \in 1 .. 9 : stack'[7 + k + i] = Live
    BY SMTT(60), <1>9, <1>11
  <2>. QED  BY <1>2, <2>1 DEF RegsSaved
<1>14. regs' \in [Regs -> Words] /\ \A r \in Kept : regs'[r] = Live
  <2>1. PICK n \in Nat : n = Len(stack \o two \o nine)
    <3> HIDE DEF nine, two
    <3>. QED  BY <1>6, <1>8
  <2>2. Address(n) \in Words
    BY WordIsWord DEF Address, Tags
  <2>3. "rdi" \in CallerSaved
    BY DEF CallerSaved
  <2>. QED  BY <1>1, <2>1, <2>2, <2>3 DEF StackInv, Kept
<1>15. Place'
  BY <1>1, <1>2, <1>11, <1>12, <1>13 DEF Place
<1>16. arch = "x86_64" /\ thread # "boot"
  BY <1>1 DEF StackInv
<1>. QED  BY <1>1, <1>11, <1>14, <1>15, <1>16 DEF StackInv

LEMMA WrapStep ==
  ASSUME StackInv, Wrap
  PROVE  StackInv'
<1>1. /\ cpu = "wrapper" /\ cpu' = "handler"
      /\ regs' = [regs EXCEPT !["r12"] = Address(Len(stack)), !["r13"] = regs["rdi"]]
      /\ stack' = Append(Aligned(stack), Word("return"))
      /\ UNCHANGED <<arch, thread, masked, skew>>
  BY DEF Wrap, Push
<1>2. PICK k \in {0, 1} : k = skew /\ k = skew'
  BY <1>1 DEF StackInv
<1>3. /\ stack \in Seq(Words) /\ Len(stack) = 17 + k /\ FrameIntact /\ RegsSaved
      /\ regs \in [Regs -> Words]
  BY <1>1, <1>2 DEF StackInv, Place
<1>4. PICK a \in Seq(Words) :
        /\ a = Aligned(stack) /\ Len(a) = 18 + k
        /\ \A i \in 1 .. 17 + k : a[i] = stack[i]
  <2>1. /\ Aligned(stack) \in Seq(Words)
        /\ Len(Aligned(stack)) = Len(stack) + ((skew + Len(stack)) % 2)
        /\ \A i \in 1 .. Len(stack) : Aligned(stack)[i] = stack[i]
    BY <1>2, <1>3, AlignedProps
  <2>2. (skew + Len(stack)) % 2 = 1
    <3>1. k = 0 \/ k = 1
      BY <1>2
    <3>2. (k + (17 + k)) % 2 = 1
      BY <3>1
    <3>. QED  BY <1>2, <1>3, <3>2
  <2>. QED  BY <1>3, <2>1, <2>2
<1>5. Word("return") \in Words
  BY WordIsWord DEF Word, Tags
<1>6. /\ stack' \in Seq(Words) /\ Len(stack') = 19 + k
      /\ \A i \in 1 .. 17 + k : stack'[i] = stack[i]
  BY <1>1, <1>4, <1>5
<1>7. FrameIntact' /\ RegsSaved'
  <2>1. /\ \A i \in 1 .. 5 : stack'[i] = stack[i]
        /\ \A i \in 1 .. 16 + k : stack'[i] = stack[i]
    <3>1. k = 0 \/ k = 1
      BY <1>2
    <3>. QED  BY SMTT(60), <3>1, <1>6
  <2>. QED  BY <1>2, <1>3, <2>1, BelowKept, SavedKept
<1>8. /\ regs' \in [Regs -> Words] /\ regs'["r12"] = Address(17 + k)
      /\ \A r \in Kept : regs'[r] = Live
  <2>1. Address(17 + k) \in Words
    BY WordIsWord DEF Address, Tags
  <2>2. {"r12", "r13", "rdi"} \subseteq Regs
    BY DEF Regs, CallerSaved, CalleeSaved
  <2>3. Address(Len(stack)) = Address(17 + k) /\ regs["rdi"] \in Words
    BY <1>3, <2>2
  <2>. QED  BY <1>1, <1>3, <2>1, <2>2, <2>3 DEF StackInv, Kept
<1>9. Place'
  BY <1>1, <1>2, <1>6, <1>7, <1>8 DEF Place
<1>10. arch = "x86_64" /\ thread # "boot"
  BY <1>1 DEF StackInv
<1>. QED  BY <1>1, <1>6, <1>8, <1>9, <1>10 DEF StackInv

LEMMA HandleStep ==
  ASSUME StackInv, Handle
  PROVE  StackInv'
<1>1. /\ cpu = "handler" /\ cpu' = "unwrap"
      /\ regs' = [r \in Regs |-> IF r \in CallerSaved THEN Junk ELSE regs[r]]
      /\ stack' = Front(stack)
      /\ UNCHANGED <<arch, thread, masked, skew>>
  BY DEF Handle
<1>2. PICK k \in {0, 1} : k = skew /\ k = skew'
  BY <1>1 DEF StackInv
<1>3. /\ stack \in Seq(Words) /\ Len(stack) = 19 + k /\ FrameIntact /\ RegsSaved
      /\ regs \in [Regs -> Words] /\ regs["r12"] = Address(17 + k)
  BY <1>1, <1>2 DEF StackInv, Place
<1>4. /\ stack' \in Seq(Words) /\ Len(stack') = 18 + k
      /\ \A i \in 1 .. 17 + k : stack'[i] = stack[i]
  BY <1>1, <1>3 DEF Front
<1>5. FrameIntact' /\ RegsSaved'
  <2>1. /\ \A i \in 1 .. 5 : stack'[i] = stack[i]
        /\ \A i \in 1 .. 16 + k : stack'[i] = stack[i]
    <3>1. k = 0 \/ k = 1
      BY <1>2
    <3>. QED  BY <3>1, <1>4
  <2>. QED  BY <1>2, <1>3, <2>1, BelowKept, SavedKept
<1>6. /\ regs' \in [Regs -> Words] /\ regs'["r12"] = Address(17 + k)
      /\ \A r \in Kept : regs'[r] = Live
  <2>1. Junk \in Words
    BY WordIsWord DEF Junk, Tags
  <2>2. "r12" \in Regs \ CallerSaved
    BY DEF Regs, CallerSaved, CalleeSaved
  <2>. QED  BY <1>1, <1>3, <2>1, <2>2 DEF StackInv, Kept
<1>7. Place'
  BY <1>1, <1>2, <1>4, <1>5, <1>6 DEF Place
<1>8. arch = "x86_64" /\ thread # "boot"
  BY <1>1 DEF StackInv
<1>. QED  BY <1>1, <1>4, <1>6, <1>7, <1>8 DEF StackInv

LEMMA UnwrapStep ==
  ASSUME StackInv, Unwrap
  PROVE  StackInv'
<1>1. /\ cpu = "unwrap" /\ cpu' = "restore"
      /\ stack' = SubSeq(stack, 1, regs["r12"][2] - 1)
      /\ UNCHANGED <<arch, thread, masked, regs, skew>>
  BY DEF Unwrap
<1>2. PICK k \in {0, 1} : k = skew /\ k = skew'
  BY <1>1 DEF StackInv
<1>3. /\ stack \in Seq(Words) /\ Len(stack) = 18 + k /\ FrameIntact /\ RegsSaved
      /\ regs["r12"] = Address(17 + k)
  BY <1>1, <1>2 DEF StackInv, Place
<1>4. stack' = SubSeq(stack, 1, 16 + k)
  <2>1. regs["r12"][2] = 17 + k
    BY <1>3 DEF Address
  <2>2. (17 + k) - 1 = 16 + k
    OBVIOUS
  <2>. QED  BY <1>1, <2>1, <2>2
<1>5. /\ stack' \in Seq(Words) /\ Len(stack') = 16 + k
      /\ \A i \in 1 .. 16 + k : stack'[i] = stack[i]
  BY <1>3, <1>4
<1>6. FrameIntact' /\ RegsSaved'
  <2>1. \A i \in 1 .. 5 : stack'[i] = stack[i]
    BY <1>5
  <2>. QED  BY <1>2, <1>3, <1>5, <2>1, BelowKept, SavedKept
<1>7. Place'
  BY <1>1, <1>2, <1>5, <1>6 DEF Place
<1>8. arch = "x86_64" /\ thread # "boot"
  BY <1>1 DEF StackInv
<1>. QED  BY <1>1, <1>5, <1>7, <1>8 DEF StackInv

LEMMA RestoreStep ==
  ASSUME StackInv, Restore
  PROVE  StackInv'
<1> DEFINE at(r) == CHOOSE i \in DOMAIN Popped : Popped[i] = r
<1>1. /\ cpu = "restore" /\ cpu' = "iret"
      /\ regs' = [r \in Regs |-> IF r \in CallerSaved
                                 THEN stack[Len(stack) + 1 - at(r)] ELSE regs[r]]
      /\ stack' = SubSeq(stack, 1, Len(stack) - 9 - 2)
      /\ UNCHANGED <<arch, thread, masked, skew>>
  BY DEF Restore
<1>2. PICK k \in {0, 1} : k = skew /\ k = skew'
  BY <1>1 DEF StackInv
<1>3. /\ stack \in Seq(Words) /\ Len(stack) = 16 + k /\ FrameIntact
      /\ \A i \in 1 .. 9 : stack[7 + k + i] = Live
      /\ regs \in [Regs -> Words]
  BY <1>1, <1>2 DEF StackInv, Place, RegsSaved
<1>4. stack' = SubSeq(stack, 1, 5 + k)
  <2>1. (16 + k) - 9 - 2 = 5 + k
    OBVIOUS
  <2>. QED  BY <1>1, <1>3, <2>1
<1>5. /\ stack' \in Seq(Words) /\ Len(stack') = 5 + k
      /\ \A i \in 1 .. 5 + k : stack'[i] = stack[i]
  BY <1>3, <1>4
<1>6. FrameIntact'
  <2>1. \A i \in 1 .. 5 : stack'[i] = stack[i]
    <3>1. k = 0 \/ k = 1
      BY <1>2
    <3>. QED  BY <3>1, <1>5
  <2>. QED  BY <1>2, <1>3, <2>1, BelowKept
<1>7. ASSUME NEW r \in CallerSaved PROVE stack[Len(stack) + 1 - at(r)] = Live
  <2>1. \E i \in DOMAIN Popped : Popped[i] = r
    BY DEF CallerSaved, Popped
  <2>2. PICK i \in 1 .. 9 : i = at(r)
    <3>1. DOMAIN Popped = 1 .. 9
      BY DEF Popped
    <3>. QED  BY <2>1, <3>1
  <2>3. Len(stack) + 1 - i = 7 + k + (10 - i) /\ 10 - i \in 1 .. 9
    BY <1>3
  <2>4. stack[7 + k + (10 - i)] = Live
    BY <1>3, <2>3
  <2>. QED  BY <2>2, <2>3, <2>4
<1>8. /\ regs' \in [Regs -> Words]
      /\ \A r \in CallerSaved : regs'[r] = Live
      /\ \A r \in Kept : regs'[r] = Live
  <2> HIDE DEF at
  <2>1. Live \in Words
    BY WordIsWord DEF Live, Tags
  <2>2. CallerSaved \subseteq Regs
    BY DEF Regs
  <2>3. regs' = [r \in Regs |-> IF r \in CallerSaved THEN Live ELSE regs[r]]
    BY <1>1, <1>7
  <2>. QED  BY <1>3, <2>1, <2>2, <2>3 DEF StackInv, Kept
<1>9. Place'
  BY <1>1, <1>2, <1>5, <1>6, <1>8 DEF Place
<1>10. arch = "x86_64" /\ thread # "boot"
  BY <1>1 DEF StackInv
<1>. QED  BY <1>1, <1>5, <1>8, <1>9, <1>10 DEF StackInv

LEMMA IretqStep ==
  ASSUME StackInv, Iretq
  PROVE  StackInv'
<1>1. /\ cpu = "iret" /\ cpu' = "thread"
      /\ masked' = stack[Len(stack) - 2][2]
      /\ stack' = SubSeq(stack, 1, stack[Len(stack) - 3][2])
      /\ thread' = IF thread = "asleep" THEN "woken" ELSE thread
      /\ UNCHANGED <<arch, regs, skew>>
  BY DEF Iretq, Woken
<1>2. PICK k \in {0, 1} : k = skew /\ k = skew'
  BY <1>1 DEF StackInv
<1>3. /\ stack \in Seq(Words) /\ Len(stack) = 5 + k
      /\ stack[2 + k] = <<"rsp", 0>> /\ stack[3 + k] = <<"rflags", {}>>
      /\ \A r \in CallerSaved : regs[r] = Live
  BY <1>1, <1>2 DEF StackInv, Place, FrameIntact
<1>4. masked' = {} /\ stack' = SubSeq(stack, 1, 0)
  <2>1. Len(stack) - 2 = 3 + k /\ Len(stack) - 3 = 2 + k
    BY <1>3
  <2>. QED  BY <1>1, <1>3, <2>1
<1>5. stack' = <<>> /\ stack' \in Seq(Words)
  BY <1>3, <1>4
<1>6. Place'
  BY <1>1, <1>3, <1>5 DEF Place
<1>7. arch = "x86_64" /\ thread # "boot" /\ thread' # "boot"
  BY <1>1 DEF StackInv
<1>. QED  BY <1>1, <1>4, <1>5, <1>6, <1>7 DEF StackInv

LEMMA StackStep ==
  ASSUME StackInv, [Next]_vars
  PROVE  StackInv'
<1>1. CASE Enable
  <2>1. /\ cpu = "thread" /\ thread = "boot" /\ thread' = "run"
        /\ masked' = IF arch = "x86_64" THEN {} ELSE masked \ {"A"}
        /\ UNCHANGED <<arch, cpu, regs, stack, skew>>
    BY <1>1 DEF Enable, InThread
  <2>. QED  BY <2>1, ThreadStep DEF StackInv
<1>2. CASE Enter \/ Sleep \/ WfiReturns \/ RecordIdle
  <2>1. /\ thread # "boot" /\ thread' # "boot"
        /\ UNCHANGED <<arch, masked, cpu, regs, stack, skew>>
    BY <1>2 DEF Enter, Sleep, WfiReturns, RecordIdle, Woken, cpuVars
  <2>. QED  BY <2>1, ThreadStep DEF StackInv
<1>3. CASE TimerFires \/ UNCHANGED vars
  <2>1. UNCHANGED <<arch, thread, masked, cpu, regs, stack, skew>>
    BY <1>3 DEF TimerFires, vars, cpuVars
  <2>. QED  BY <2>1, ThreadStep DEF StackInv
<1>4. CASE IrqStep
  BY <1>4, DeliverStep, SaveStep, WrapStep, HandleStep, UnwrapStep, RestoreStep,
     IretqStep DEF IrqStep
<1>. QED  BY <1>1, <1>2, <1>3, <1>4 DEF Next

LEMMA StackKept == Spec => []StackInv
<1>1. Init => StackInv
  BY StackStart
<1>2. StackInv /\ [Next]_vars => StackInv'
  BY StackStep
<1>. QED  BY <1>1, <1>2, PTL DEF Spec
-----------------------------------------------------------------------------
(* Whatever the timer interrupts, the thread goes on with its stack, its   *)
(* interrupt mask and every register but r12 and r13 as they were, and     *)
(* Rust is entered with an aligned stack, for either alignment of the      *)
(* thread's (irq_stub_irq0, irq_handler_wrapper).                          *)
THEOREM InterruptIsTransparent == Spec => []ThreadUndisturbed
<1>1. ASSUME StackInv PROVE ContextRestored
  <2>1. Regs \ {"r12", "r13"} = Kept \cup CallerSaved
    BY DEF Kept, Regs, CallerSaved, CalleeSaved
  <2>. QED  BY <1>1, <2>1 DEF StackInv, Place, ContextRestored
<1>2. ASSUME StackInv PROVE RustAligned
  <2>1. SUFFICES ASSUME cpu = "handler"
                 PROVE  (skew + Len(stack) - 1) % 2 = 0
    BY DEF RustAligned
  <2>2. Len(stack) = 19 + skew /\ skew \in {0, 1}
    BY <1>2, <2>1 DEF StackInv, Place
  <2>3. skew = 0 \/ skew = 1
    BY <2>2
  <2>. QED  BY <2>2, <2>3
<1>3. StackInv => ThreadUndisturbed
  BY <1>1, <1>2 DEF ThreadUndisturbed
<1>. QED  BY <1>3, StackKept, PTL

(* wait_for_interrupt never counts more idle time than has passed, and on  *)
(* x86_64 a nap always counts, for every interleaving of the interrupt.    *)
THEOREM IdleIsBounded == Spec => []IdleWithinTime
<1>1. ClockInv => IdleWithinTime
  BY ClockIsSound
<1>. QED  BY <1>1, ClockKept, PTL
-----------------------------------------------------------------------------
LEMMA Euclid ==
  ASSUME NEW n \in Nat, NEW d \in Nat \ {0}
  PROVE  /\ n \div d \in Nat
         /\ n % d \in 0 .. d - 1
         /\ n = d * (n \div d) + (n % d)
<1>1. n \in Int /\ d > 0 /\ n % d \in 0 .. d - 1
  OBVIOUS
<1>2. n = d * (n \div d) + (n % d)
  BY <1>1
<1>3. n \div d \in Nat
  OBVIOUS
<1>. QED  BY <1>1, <1>2, <1>3

LEMMA DivOfProduct ==
  ASSUME NEW d \in Nat \ {0}, NEW q \in Nat, NEW r \in 0 .. d - 1
  PROVE  (d * q + r) \div d = q
<1>1. PICK n \in Nat : n = d * q + r
  OBVIOUS
<1>2. PICK k \in Nat, m \in 0 .. d - 1 : k = n \div d /\ n = d * k + m
  BY Euclid
<1>3. d * (k - q) = r - m
  BY <1>1, <1>2
<1>4. ASSUME k > q PROVE FALSE
  <2>1. PICK t \in Nat : k - q = 1 + t
    BY <1>4
  <2>2. d * (1 + t) = d + d * t /\ d * t >= 0
    OBVIOUS
  <2>. QED  BY <1>3, <2>1, <2>2
<1>5. ASSUME k < q PROVE FALSE
  <2>1. PICK t \in Nat : k - q = -(1 + t)
    <3>1. q - k - 1 \in Nat /\ k - q = -(1 + (q - k - 1))
      BY <1>5
    <3>. QED  BY <3>1
  <2>2. d * (-(1 + t)) = -(d + d * t) /\ d * t >= 0
    OBVIOUS
  <2>. QED  BY <1>3, <2>1, <2>2
<1>6. k = q
  BY <1>4, <1>5
<1>. QED  BY <1>1, <1>2, <1>6

(* A pass without an idle tick is fully busy, or shows nothing. *)
LEMMA LoadWithoutIdle ==
  ASSUME NEW d \in Nat
  PROVE  CpuLoadPercent(d, 0) = IF d = 0 THEN 0 ELSE 100
<1>1. CASE d = 0
  BY <1>1 DEF CpuLoadPercent
<1>2. CASE d # 0
  <2>1. d \div 2 \in 0 .. d - 1
    BY <1>2
  <2>2. (d * 100 + d \div 2) \div d = 100
    BY <1>2, <2>1, DivOfProduct
  <2>3. SaturatingSub(d, 0) = d
    BY DEF SaturatingSub
  <2>. QED  BY <1>2, <2>2, <2>3 DEF CpuLoadPercent
<1>. QED  BY <1>1, <1>2

LEMMA SecondsGrow ==
  ASSUME NEW s \in Nat \ {0}, NEW a \in Nat, NEW b \in Nat, a <= b
  PROVE  a \div s <= b \div s
<1>1. PICK p \in Nat, u \in 0 .. s - 1 : p = a \div s /\ a = s * p + u
  BY Euclid
<1>2. PICK q \in Nat, v \in 0 .. s - 1 : q = b \div s /\ b = s * q + v
  BY Euclid
<1>3. s * (p - q) < s
  BY <1>1, <1>2
<1>4. ASSUME p > q PROVE FALSE
  <2>1. PICK t \in Nat : p - q = 1 + t
    BY <1>4
  <2>2. s * (1 + t) = s + s * t /\ s * t >= 0
    OBVIOUS
  <2>. QED  BY <1>3, <2>1, <2>2
<1>. QED  BY <1>1, <1>2, <1>4
-----------------------------------------------------------------------------
(***************************************************************************)
(* The samples.  Every tick is a period that has ended; the monitor runs   *)
(* only while the thread is not in a nap, so that the idle ticks do not    *)
(* change under it, and what it shows is what it read last.                *)
(***************************************************************************)
Counted ==
  ticks + (IF pending THEN 1 ELSE 0) + (IF inService THEN 1 ELSE 0) <= now

Reading(r) ==
  /\ Len(r) >= 1 => r[1] <= now
  /\ Len(r) >= 2 /\ arch = "aarch64" => r[2] = 0
  /\ Len(r) >= 3 => r[3] = idle

Told ==
  /\ shown.second <= now \div Second
  /\ shown.second = previous[1] \div Second /\ shown.second = lastSecond
  /\ shown.load \in {0, 100}
  /\ arch = "aarch64" => shown.load = 0

SampleTypes ==
  /\ now \in Nat
  /\ running \in BOOLEAN
  /\ reads \in Seq(Nat) /\ Len(reads) <= 3
  /\ previous = Nothing \/ (previous \in Seq(Nat) /\ Len(previous) = 3)

MonitorInv ==
  /\ ClockInv /\ SampleTypes /\ Counted
  /\ running => thread = "run" /\ Reading(reads)
  /\ running /\ previous # Nothing => Reading(previous)
  /\ shown # Nothing => running /\ previous # Nothing /\ Told

LEMMA MonitorStart ==
  ASSUME MonitorInit
  PROVE  MonitorInv
<1>1. ClockInv
  BY ClockStart DEF MonitorInit
<1>2. SampleTypes
  <2>1. now = 0 /\ running = FALSE /\ reads = <<>> /\ previous = Nothing
    BY DEF MonitorInit
  <2>2. <<>> \in Seq(Nat) /\ Len(<<>>) = 0
    OBVIOUS
  <2>3. reads \in Seq(Nat) /\ Len(reads) <= 3
    BY <2>1, <2>2
  <2>4. now \in Nat /\ running \in BOOLEAN /\ previous = Nothing
    BY <2>1
  <2>. QED  BY <2>3, <2>4 DEF SampleTypes
<1>3. Counted
  BY DEF MonitorInit, Init, Counted
<1>4. ~running /\ shown = Nothing
  BY DEF MonitorInit
<1>. QED  BY <1>1, <1>2, <1>3, <1>4 DEF MonitorInv

(* A step that keeps Counted. *)
LEMMA TimeStep ==
  ASSUME MonitorInv, [Next]_vars, now' = now,
         ~TimerFires
  PROVE  Counted'
<1>1. ClockTypes /\ Counted /\ now \in Nat
  BY DEF MonitorInv, ClockInv, SampleTypes
<1>2. CASE UNCHANGED <<pending, inService, ticks>>
  BY <1>1, <1>2 DEF Counted
<1>3. CASE Deliver
  <2>1. pending /\ ~inService /\ ~pending' /\ inService' /\ ticks' = ticks
    BY <1>3 DEF Deliver, timeVars
  <2>. QED  BY <1>1, <2>1 DEF Counted, ClockTypes
<1>4. CASE Handle
  <2>1. inService
    BY <1>4 DEF Handle, MonitorInv, ClockInv
  <2>2. ~inService' /\ pending' = pending /\ ticks' = ticks + 1
    BY <1>4 DEF Handle
  <2>. QED  BY <1>1, <2>1, <2>2 DEF Counted, ClockTypes
<1>5. CASE Enable \/ Enter \/ Sleep \/ WfiReturns \/ RecordIdle
  <2>1. UNCHANGED <<pending, inService, ticks>>
    BY <1>5 DEF Enable, Enter, Sleep, WfiReturns, RecordIdle, deviceVars, timeVars
  <2>. QED  BY <1>2, <2>1
<1>6. CASE Save \/ Wrap \/ Unwrap \/ Restore \/ Iretq
  <2>1. UNCHANGED <<pending, inService, ticks>>
    BY <1>6 DEF Save, Wrap, Unwrap, Restore, Iretq, deviceVars, timeVars
  <2>. QED  BY <1>2, <2>1
<1>7. CASE UNCHANGED vars
  BY <1>2, <1>7 DEF vars, deviceVars, timeVars
<1>. QED  BY <1>3, <1>4, <1>5, <1>6, <1>7 DEF Next, IrqStep

(* The monitor's variables are kept, and the time not set back.            *)
LEMMA WindowKept ==
  ASSUME MonitorInv, ClockInv', Counted', UNCHANGED monitorVars,
         now' \in Nat, now <= now', arch' = arch,
         running => thread' = "run" /\ idle' = idle
  PROVE  MonitorInv'
<1>1. SampleTypes'
  BY DEF MonitorInv, SampleTypes, monitorVars
<1>2. ASSUME running, NEW r \in Seq(Nat), Reading(r) PROVE Reading(r)'
  <2>1. Len(r) >= 1 => r[1] \in Nat
    BY <1>2
  <2>. QED  BY <1>2, <2>1 DEF Reading, MonitorInv, SampleTypes
<1>3. running => Reading(reads)'
  BY <1>2 DEF MonitorInv, SampleTypes, monitorVars, Reading
<1>4. running /\ previous # Nothing => Reading(previous)'
  BY <1>2 DEF MonitorInv, SampleTypes, monitorVars, Reading
<1>5. ASSUME shown # Nothing PROVE Told'
  <2>1. Told /\ now \in Nat /\ previous # Nothing
    BY <1>5 DEF MonitorInv, SampleTypes
  <2>2. now \div Second <= now' \div Second
    BY <2>1, SecondsGrow, MonitorAssumption
  <2>3. previous[1] \in Nat
    BY <2>1 DEF MonitorInv, SampleTypes
  <2>4. previous[1] \div Second \in Nat /\ now \div Second \in Nat /\ now' \div Second \in Nat
    BY <2>1, <2>3, Euclid, MonitorAssumption
  <2>. QED  BY <2>1, <2>2, <2>4 DEF Told, monitorVars
<1>. QED
  BY <1>1, <1>3, <1>4, <1>5 DEF MonitorInv, monitorVars

LEMMA MonitorStep ==
  ASSUME MonitorInv, [MonitorNext]_allVars
  PROVE  MonitorInv'
<1>0. ClockInv /\ now \in Nat /\ arch \in {"x86_64", "aarch64"}
  BY DEF MonitorInv, SampleTypes, ClockInv
<1>1. CASE Shell
  <2>1. [Next]_vars /\ UNCHANGED <<clockVars, monitorVars>>
    BY <1>1 DEF Shell, Next
  <2>2. now' = now
    BY <2>1 DEF clockVars
  <2>3. ~TimerFires
    <3>1. ASSUME TimerFires PROVE FALSE
      <4>1. pending' = TRUE /\ pending = FALSE /\ UNCHANGED <<arch, thread, cpu>>
        BY <3>1, <1>0 DEF TimerFires, cpuVars, ClockInv, ClockTypes
      <4>2. CASE Enable \/ Enter \/ Sleep \/ WfiReturns \/ RecordIdle
        BY <4>1, <4>2 DEF Enable, Enter, Sleep, WfiReturns, RecordIdle, deviceVars
      <4>3. CASE Deliver
        BY <4>1, <4>3 DEF Deliver
      <4>4. CASE Save \/ Wrap \/ Handle \/ Unwrap \/ Restore \/ Iretq
        BY <4>1, <4>4 DEF Save, Wrap, Handle, Unwrap, Restore, Iretq, deviceVars
      <4>. QED  BY <1>1, <4>2, <4>3, <4>4 DEF Shell, IrqStep
    <3>. QED  BY <3>1
  <2>4. ClockInv' /\ Counted'
    BY <2>1, <2>2, <2>3, <1>0, ClockStep, TimeStep
  <2>5. ASSUME running PROVE thread' = "run" /\ idle' = idle
    <3>1. thread = "run"
      BY <2>5 DEF MonitorInv
    <3>2. CASE Enable \/ (Enter /\ ~running) \/ Sleep \/ WfiReturns \/ RecordIdle
      BY <3>1, <3>2, <2>5 DEF Enable, Sleep, WfiReturns, RecordIdle
    <3>3. CASE Deliver \/ Save \/ Wrap \/ Handle \/ Unwrap \/ Restore
      BY <3>1, <3>3 DEF Deliver, Save, Wrap, Handle, Unwrap, Restore, timeVars
    <3>4. CASE Iretq
      BY <3>1, <3>4 DEF Iretq, Woken, timeVars
    <3>. QED  BY <1>1, <3>2, <3>3, <3>4 DEF Shell, IrqStep
  <2>6. arch' = arch
    BY <1>1 DEF Shell, IrqStep, Enable, Enter, Sleep, WfiReturns, RecordIdle,
                Deliver, Save, Wrap, Handle, Unwrap, Restore, Iretq
  <2>. QED  BY <2>1, <2>2, <2>4, <2>5, <2>6, <1>0, WindowKept
<1>2. CASE PeriodEnds
  <2>1. /\ TimerFires /\ now' = now + 1 /\ UNCHANGED monitorVars
        /\ ClockTypes /\ Counted
    BY <1>2 DEF PeriodEnds, MonitorInv, ClockInv
  <2>2. /\ UNCHANGED <<arch, thread, inService, ticks, idle>>
        /\ ~pending /\ pending' = TRUE
    BY <2>1 DEF TimerFires, timeVars
  <2>3. Counted'
    BY <2>1, <2>2, <1>0 DEF Counted, ClockTypes
  <2>4. ClockInv'
    BY <2>1, <1>0, ClockStep DEF Next
  <2>. QED
    BY <2>1, <2>2, <2>3, <2>4, <1>0, WindowKept DEF MonitorInv
<1>3. CASE PeriodIsMissed
  <2>1. /\ UNCHANGED vars /\ UNCHANGED monitorVars /\ now' = now + 1
        /\ ClockTypes /\ Counted
    BY <1>3 DEF PeriodIsMissed, MonitorInv, ClockInv
  <2>2. UNCHANGED <<arch, thread, pending, inService, ticks, idle>>
    BY <2>1 DEF vars, deviceVars, timeVars
  <2>3. Counted'
    BY <2>1, <2>2, <1>0 DEF Counted, ClockTypes
  <2>4. ClockInv'
    BY <2>1, <1>0, ClockStep
  <2>. QED
    BY <2>1, <2>2, <2>3, <2>4, <1>0, WindowKept DEF MonitorInv
<1>4. CASE RunMonitor \/ Sample \/ Update \/ LeaveMonitor
  <2>1. /\ UNCHANGED vars /\ UNCHANGED clockVars
    BY <1>4 DEF RunMonitor, Sample, Update, LeaveMonitor
  <2>2. UNCHANGED <<arch, thread, pending, inService, ticks, idle, now>>
    BY <2>1 DEF vars, deviceVars, timeVars, clockVars
  <2>3. ClockInv' /\ Counted'
    BY <2>1, <2>2, <1>0, ClockStep DEF MonitorInv, Counted
  <2>8. SampleTypes /\ Second \in Nat \ {0}
    BY MonitorAssumption DEF MonitorInv
  <2>4. CASE RunMonitor
    <3>1. /\ ~running /\ thread = "run" /\ running' = TRUE
          /\ reads' = <<>> /\ previous' = Nothing /\ shown' = shown
      BY <2>4 DEF RunMonitor
    <3>2. shown = Nothing
      BY <3>1 DEF MonitorInv
    <3>3. <<>> \in Seq(Nat) /\ Len(<<>>) = 0
      OBVIOUS
    <3>4. reads' \in Seq(Nat) /\ Len(reads') = 0
      BY <3>1, <3>3
    <3>5. SampleTypes'
      BY <2>8, <2>2, <3>1, <3>4 DEF SampleTypes
    <3>6. Reading(reads)'
      BY <3>4 DEF Reading
    <3>. QED  BY <2>2, <2>3, <3>1, <3>2, <3>5, <3>6 DEF MonitorInv
  <2>5. CASE Sample
    <3>1. /\ running /\ Len(reads) < 3
          /\ reads' = Append(reads, <<Uptime, ticks, idle>>[Len(reads) + 1])
          /\ UNCHANGED <<running, previous, lastSecond, shown>>
      BY <2>5 DEF Sample
    <3>2. Uptime \in Nat /\ Uptime <= now
      BY <1>0 DEF Uptime, MonitorInv, ClockInv, ClockTypes, Counted
    <3>3. ticks \in Nat /\ idle \in Nat /\ (arch = "aarch64" => ticks = 0)
      BY <1>0 DEF ClockInv, ClockTypes
    <3>4. reads \in Seq(Nat) /\ Len(reads) \in 0 .. 2 /\ Reading(reads)
      <4>1. reads \in Seq(Nat)
        BY <2>8 DEF SampleTypes
      <4>2. Len(reads) \in 0 .. 2
        <5>1. PICK n \in Nat : n = Len(reads)
          BY <4>1
        <5>2. n < 3
          BY <2>5, <5>1 DEF Sample
        <5>. QED  BY <5>1, <5>2
      <4>3. Reading(reads)
        BY <3>1 DEF MonitorInv
      <4>. QED  BY <4>1, <4>2, <4>3
    <3>5. PICK x \in Nat :
            /\ reads' = Append(reads, x)
            /\ Len(reads) = 0 => x <= now
            /\ Len(reads) = 1 /\ arch = "aarch64" => x = 0
            /\ Len(reads) = 2 => x = idle
      <4>1. CASE Len(reads) = 0
        BY <3>1, <3>2, <4>1
      <4>2. CASE Len(reads) = 1
        BY <3>1, <3>3, <4>2
      <4>3. CASE Len(reads) = 2
        BY <3>1, <3>3, <4>3
      <4>. QED  BY <3>4, <4>1, <4>2, <4>3
    <3>6. /\ reads' \in Seq(Nat) /\ Len(reads') = Len(reads) + 1
          /\ \A i \in 1 .. Len(reads) : reads'[i] = reads[i]
          /\ reads'[Len(reads) + 1] = x
      BY <3>4, <3>5
    <3>7. Reading(reads)'
      <4>1. Len(reads') >= 1 => reads'[1] <= now
        BY <3>4, <3>5, <3>6 DEF Reading
      <4>2. Len(reads') >= 2 /\ arch = "aarch64" => reads'[2] = 0
        BY <3>4, <3>5, <3>6 DEF Reading
      <4>3. Len(reads') >= 3 => reads'[3] = idle
        BY <3>4, <3>5, <3>6 DEF Reading
      <4>. QED  BY <2>2, <4>1, <4>2, <4>3 DEF Reading
    <3>8. SampleTypes'
      BY <2>8, <2>2, <3>1, <3>4, <3>6 DEF SampleTypes
    <3>9. running /\ previous # Nothing => Reading(previous)'
      BY <2>2, <3>1 DEF MonitorInv, Reading
    <3>10. shown # Nothing => Told'
      BY <2>2, <3>1 DEF MonitorInv, Told
    <3>. QED
      BY <2>2, <2>3, <3>1, <3>7, <3>8, <3>9, <3>10 DEF MonitorInv
  <2>6. CASE Update
    <3> DEFINE second == reads[1] \div Second
    <3>1. /\ running /\ Len(reads) = 3
          /\ shown' = IF second = lastSecond THEN shown
                      ELSE [second |-> second, load |-> Load]
          /\ lastSecond' = second
          /\ previous' = reads /\ reads' = <<>> /\ running' = running
      BY <2>6 DEF Update
    <3>2. /\ reads \in Seq(Nat) /\ Reading(reads)
          /\ reads[1] \in Nat /\ reads[2] \in Nat /\ reads[3] = idle
          /\ reads[1] <= now
          /\ arch = "aarch64" => reads[2] = 0
      <4>1. reads \in Seq(Nat) /\ Len(reads) = 3
        BY <2>8, <3>1 DEF SampleTypes
      <4>2. Reading(reads)
        BY <3>1 DEF MonitorInv
      <4>3. reads[1] \in Nat /\ reads[2] \in Nat
        BY SMTT(60), <4>1
      <4>. QED  BY <4>1, <4>2, <4>3 DEF Reading
    <3>3. second <= now \div Second
      BY <2>8, <3>2, <1>0, SecondsGrow
    <3>4. Load \in {0, 100} /\ (arch = "aarch64" => Load = 0)
      <4>1. CASE previous = Nothing
        BY <4>1 DEF Load
      <4>2. CASE previous # Nothing
        <5>1. /\ previous \in Seq(Nat) /\ Len(previous) = 3
              /\ previous[3] = idle /\ previous[2] \in Nat
              /\ arch = "aarch64" => previous[2] = 0
          BY SMTT(60), <2>8, <3>1, <4>2 DEF SampleTypes, MonitorInv, Reading
        <5>2. SaturatingSub(reads[3], previous[3]) = 0
          BY <3>2, <5>1, <1>0 DEF SaturatingSub, ClockInv, ClockTypes
        <5>3. PICK d \in Nat : d = SaturatingSub(reads[2], previous[2])
          BY SMTT(60), <3>2, <5>1 DEF SaturatingSub
        <5>4. arch = "aarch64" => d = 0
          BY <3>2, <5>1, <5>3 DEF SaturatingSub
        <5>5. Load = CpuLoadPercent(d, 0)
          BY <4>2, <5>2, <5>3 DEF Load
        <5>. QED  BY <5>4, <5>5, LoadWithoutIdle
      <4>. QED  BY <4>1, <4>2
    <3>5. shown' # Nothing => Told'
      <4>1. CASE second = lastSecond
        BY <2>2, <3>1, <3>3, <4>1 DEF MonitorInv, Told
      <4>2. CASE second # lastSecond
        <5>1. shown'.second = second /\ shown'.load = Load
          BY <3>1, <4>2
        <5>. QED  BY <2>2, <3>1, <3>3, <3>4, <5>1 DEF Told
      <4>. QED  BY <4>1, <4>2
    <3>6. previous' # Nothing /\ Len(previous') = 3
      BY <3>1 DEF Nothing
    <3>7. reads' \in Seq(Nat) /\ Len(reads') = 0
      BY <3>1
    <3>8. SampleTypes'
      BY <2>8, <2>2, <3>1, <3>2, <3>7 DEF SampleTypes
    <3>9. Reading(reads)' /\ Reading(previous)'
      BY <2>2, <3>1, <3>2, <3>7 DEF Reading
    <3>10. thread' = "run" /\ running'
      BY <2>2, <3>1 DEF MonitorInv
    <3>. QED  BY <2>3, <3>5, <3>6, <3>8, <3>9, <3>10 DEF MonitorInv
  <2>7. CASE LeaveMonitor
    <3>1. /\ running' = FALSE /\ shown' = Nothing
          /\ UNCHANGED <<reads, previous>>
      BY <2>7 DEF LeaveMonitor
    <3>2. SampleTypes'
      BY <2>8, <2>2, <3>1 DEF SampleTypes
    <3>. QED  BY <2>3, <3>1, <3>2 DEF MonitorInv
  <2>. QED  BY <1>4, <2>4, <2>5, <2>6, <2>7
<1>5. CASE UNCHANGED allVars
  <2>1. UNCHANGED vars /\ UNCHANGED clockVars /\ UNCHANGED monitorVars
    BY <1>5 DEF allVars
  <2>2. UNCHANGED <<arch, thread, pending, inService, ticks, idle, now>>
    BY <2>1 DEF vars, deviceVars, timeVars, clockVars
  <2>3. ClockInv' /\ Counted'
    BY <2>1, <2>2, <1>0, ClockStep DEF MonitorInv, Counted
  <2>. QED  BY <2>1, <2>2, <2>3, <1>0, WindowKept DEF MonitorInv
<1>. QED  BY <1>1, <1>2, <1>3, <1>4, <1>5 DEF MonitorNext

LEMMA SamplesKept == MonitorSpec => []MonitorInv
<1>1. MonitorInit => MonitorInv
  BY MonitorStart
<1>2. MonitorInv /\ [MonitorNext]_allVars => MonitorInv'
  BY MonitorStep
<1>. QED  BY <1>1, <1>2, PTL DEF MonitorSpec
-----------------------------------------------------------------------------
(* The monitor shows the second of its last pass, never one to come, and a *)
(* load of 0 or 100 (run_monitor, compute), for every length of a second.  *)
THEOREM MonitorIsHonest == MonitorSpec => []MonitorTells
<1>1. MonitorInv => MonitorTells
  BY DEF MonitorInv, MonitorTells, Told
<1>. QED  BY <1>1, SamplesKept, PTL
=============================================================================
