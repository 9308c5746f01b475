----------------------------- MODULE BootProofs ----------------------------
(***************************************************************************)
(* Boot never loses the CPU, its exit codes and markers tell the truth, and*)
(* its drawing stays on the surface it fills: proofs about Boot and about  *)
(* the Framebuffer it extends.                                             *)
(*                                                                         *)
(* The set of machines, the layouts of their framebuffers, the video memory*)
(* and the bounds are arbitrary.                                           *)
(***************************************************************************)
EXTENDS Boot, SequenceTheorems, WellFoundedInduction, TLAPS

(* The calls of boot() in the order of each target. *)
BeforeGdt == {"uart", "loopback", "gdt"}
BeforeIdt == BeforeGdt \cup {"idt"}
BeforePic == BeforeIdt \cup {"divide", "pic", "remap"}
BeforeSti == BeforePic \cup {"ps2", "lapic", "sti"}
OnlyAarch64 == {"map", "pl011", "vbar", "brk", "gic"}
BothTargets ==
  {"collect", "framebuffer", "bars", "verify", "heap", "kmain", "exited",
   "halted"}
Stages == BeforeSti \cup OnlyAarch64 \cup BothTargets

(* What has been done by the time a call is made. *)
CpuReady ==
  /\ Running /\ X86 /\ stage \notin BeforeGdt => gdt
  /\ Running /\ X86 /\ stage \notin BeforeIdt => gates = Vectors
  /\ irqsOn => X86 /\ stage \notin BeforeSti
  /\ stage \in BeforeSti => X86
  /\ stage \in OnlyAarch64 => ~X86
  /\ stage \in OnlyAarch64 \ {"map"} => L1Index(UART0_BASE) \in mapped
  /\ stage \in {"brk", "gic"} => vbar
  /\ stage \in {"divide", "brk"} => machine.build = "exception"

Chips == [base : Int, imr : SUBSET (0..7), irr : SUBSET {0, 1}, icw : 0..4]

(* The 8259A on the way through its initialisation words: `left' of the    *)
(* ten writes are still to come.                                           *)
Remapped(c) == c.base = IRQ0_VECTOR /\ c.imr = MASTER_MASK
Halfway(c, left) ==
  /\ left \in {8, 9} => c.icw = 2
  /\ left \in {6, 7} => c.icw = 3
  /\ left \in {4, 5} => c.icw = 4
  /\ left \in 0..3 => c.icw = 0
  /\ left \in 0..7 => c.base = IRQ0_VECTOR
  /\ left \in 0..1 => c.imr = MASTER_MASK

Writes == {RemapPic[i] : i \in 1..10}
Remaining(q) ==
  /\ q \in Seq(Writes)
  /\ Len(q) \in 0..10
  /\ \A i \in 1..Len(q) : q[i] = RemapPic[10 - Len(q) + i]

PicInv ==
  /\ pic \in Chips
  /\ stage = "remap" => Remaining(todo) /\ Halfway(pic, Len(todo))
  /\ Running /\ X86 /\ stage \notin BeforePic => Remapped(pic)

BootInv == stage \in Stages /\ CpuReady /\ PicInv /\ NeverLost
-----------------------------------------------------------------------------
(* The words of RemapPic, one by one. *)
LEMMA WordsWritten ==
  /\ RemapPic[1] = <<"cmd1", 17>>
  /\ RemapPic[2] = <<"cmd2", 17>>
  /\ RemapPic[3] = <<"data1", IRQ0_VECTOR>>
  /\ RemapPic[4] = <<"data2", 40>>
  /\ RemapPic[5] = <<"data1", 4>>
  /\ RemapPic[6] = <<"data2", 2>>
  /\ RemapPic[7] = <<"data1", 1>>
  /\ RemapPic[8] = <<"data2", 1>>
  /\ RemapPic[9] = <<"data1", MASTER_MASK>>
  /\ RemapPic[10] = <<"data2", 0..7>>
BY DEF RemapPic, IRQ0_VECTOR

LEMMA AllRemain == Remaining(RemapPic) /\ Len(RemapPic) = 10
<1>1. Len(RemapPic) = 10 /\ RemapPic = [i \in 1..10 |-> RemapPic[i]]
  BY DEF RemapPic
<1>2. RemapPic \in Seq(Writes)
  BY <1>1 DEF Writes
<1> QED BY <1>1, <1>2 DEF Remaining

LEMMA OneLess ==
  ASSUME NEW q, Remaining(q), q # <<>>
  PROVE  /\ Len(q) \in 1..10
         /\ Head(q) = RemapPic[11 - Len(q)]
         /\ Len(Tail(q)) = Len(q) - 1
         /\ Remaining(Tail(q))
<1>1. q \in Seq(Writes) /\ Len(q) \in 1..10 /\ Head(q) = RemapPic[11 - Len(q)]
  BY DEF Remaining
<1>2. /\ Tail(q) \in Seq(Writes)
      /\ Len(Tail(q)) = Len(q) - 1
      /\ \A i \in 1..Len(Tail(q)) : Tail(q)[i] = q[i + 1]
  BY <1>1, HeadTailProperties
<1>3. ASSUME NEW i \in 1..Len(Tail(q))
      PROVE  Tail(q)[i] = RemapPic[10 - Len(Tail(q)) + i]
  <2>1. Tail(q)[i] = q[i + 1] /\ i + 1 \in 1..Len(q) BY <1>1, <1>2
  <2>2. 10 - Len(Tail(q)) + i = 10 - Len(q) + (i + 1) BY <1>1, <1>2
  <2> QED BY <2>1, <2>2 DEF Remaining
<1>4. Len(Tail(q)) \in 0..10
  <2>1. ASSUME NEW n \in 1..10 PROVE n - 1 \in 0..10 OBVIOUS
  <2> QED BY <1>1, <1>2, <2>1
<1>5. Remaining(Tail(q)) BY <1>2, <1>3, <1>4 DEF Remaining
<1> QED BY <1>1, <1>2, <1>5

(* A write takes the chip to the next place of its initialisation. *)
LEMMA WordTaken ==
  ASSUME pic \in Chips, NEW n \in 1..10, Halfway(pic, n),
         PicTakes(RemapPic[11 - n][1], RemapPic[11 - n][2])
  PROVE  pic' \in Chips /\ Halfway(pic', n - 1)
<1>1. CASE n = 10
  <2>1. RemapPic[11 - n] = <<"cmd1", 17>> BY <1>1, WordsWritten
  <2>2. pic' = Chip(pic.base, {}, {}, 2) BY <2>1 DEF PicTakes
  <2>3. pic' \in Chips BY <2>2 DEF Chips, Chip
  <2> QED BY <1>1, <2>2, <2>3 DEF Halfway, Chip
<1>2. CASE n \in {9, 7, 5, 3, 1}
  <2>1. RemapPic[11 - n][1] \in {"cmd2", "data2"} BY <1>2, WordsWritten
  <2>2. pic' = pic BY <2>1 DEF PicTakes
  <2> QED BY <1>2, <2>2 DEF Halfway
<1>3. CASE n = 8
  <2>1. RemapPic[11 - n] = <<"data1", IRQ0_VECTOR>> BY <1>3, WordsWritten
  <2>2. pic' = Chip(IRQ0_VECTOR, pic.imr, pic.irr, 3)
    BY <1>3, <2>1 DEF PicTakes, Halfway
  <2>3. pic' \in Chips BY <2>2 DEF Chips, Chip, IRQ0_VECTOR
  <2> QED BY <1>3, <2>2, <2>3 DEF Halfway, Chip
<1>4. CASE n \in {6, 4}
  <2>1. RemapPic[11 - n][1] = "data1" BY <1>4, WordsWritten
  <2>2. /\ pic.icw = IF n = 6 THEN 3 ELSE 4
        /\ pic.base = IRQ0_VECTOR
    BY <1>4 DEF Halfway
  <2>3. pic' = Chip(pic.base, pic.imr, pic.irr, IF n = 6 THEN 4 ELSE 0)
    BY <1>4, <2>1, <2>2 DEF PicTakes
  <2>4. pic' \in Chips BY <2>3 DEF Chips, Chip
  <2> QED BY <1>4, <2>2, <2>3, <2>4 DEF Halfway, Chip
<1>5. CASE n = 2
  <2>1. RemapPic[11 - n] = <<"data1", MASTER_MASK>> BY <1>5, WordsWritten
  <2>2. pic.icw = 0 /\ pic.base = IRQ0_VECTOR BY <1>5 DEF Halfway
  <2>3. pic' = Chip(pic.base, MASTER_MASK, pic.irr, 0)
    BY <2>1, <2>2 DEF PicTakes
  <2>4. pic' \in Chips BY <2>3 DEF Chips, Chip, MASTER_MASK
  <2> QED BY <1>5, <2>2, <2>3, <2>4 DEF Halfway, Chip
<1> QED BY <1>1, <1>2, <1>3, <1>4, <1>5
-----------------------------------------------------------------------------
LEMMA BootStart == Init => BootInv
BY DEF Init, BootInv, Stages, BeforeSti, BeforePic, BeforeIdt, BeforeGdt,
       BothTargets, OnlyAarch64, CpuReady, PicInv, Chips, Chip, NeverLost, X86

(* The UART of the window and the GIC share a GiB. *)
LEMMA OneGib == L1Index(GICD_BASE) = L1Index(UART0_BASE)
BY DEF L1Index, GICD_BASE, UART0_BASE

(* With the chip remapped, the only interrupt the CPU sees is the timer's. *)
LEMMA OnlyTheTimer ==
  ASSUME BootInv, Running, irqsOn, NEW irq \in pic.irr \ pic.imr
  PROVE  /\ gdt /\ pic.base + irq = IRQ0_VECTOR /\ IRQ0_VECTOR \in gates
<1>1. X86 /\ stage \notin BeforeSti BY DEF BootInv, CpuReady
<1>2. gdt /\ gates = Vectors
  BY <1>1 DEF BootInv, CpuReady, BeforeSti, BeforePic, BeforeIdt
<1>3. Remapped(pic) /\ pic \in Chips
  BY <1>1 DEF BootInv, PicInv, BeforeSti
<1>4. irq = 0 BY SMTT(60), <1>3 DEF Remapped, MASTER_MASK, Chips
<1> QED BY <1>2, <1>3, <1>4 DEF Remapped, Vectors, IRQ0_VECTOR

LEMMA BootStep == BootInv /\ [Next]_vars => BootInv'
<1> SUFFICES ASSUME BootInv, [Next]_vars PROVE BootInv'
  OBVIOUS
<1> USE DEF BootInv, Stages, BeforeSti, BeforePic, BeforeIdt, BeforeGdt,
            BothTargets, OnlyAarch64, CpuReady, NeverLost, X86, Running
<1>1. CASE ProgramUart
  BY <1>1 DEF ProgramUart, PicInv, outVars, cpuVars, picVars, drawVars
<1>2. CASE ProbeUart
  BY <1>2 DEF ProbeUart, Exit, PicInv, cpuVars, picVars, drawVars
<1>3. CASE LoadGdt
  BY <1>3 DEF LoadGdt, PicInv, outVars, picVars, drawVars
<1>4. CASE LoadIdt
  BY <1>4 DEF LoadIdt, PicInv, outVars, picVars, drawVars
<1>5. CASE Divide
  BY <1>5 DEF Divide, Raised, Vectors, PicInv, cpuVars, picVars, drawVars
<1>6. CASE InitPit
  BY <1>6, AllRemain DEF InitPit, PicInv, Halfway, outVars, cpuVars, drawVars
<1>7. CASE WritePic
  <2>1. /\ stage = "remap" /\ stage' = "remap" /\ todo # <<>>
        /\ PicTakes(Head(todo)[1], Head(todo)[2]) /\ todo' = Tail(todo)
        /\ UNCHANGED <<machine, gates, gdt, vbar, irqsOn, mapped>>
    BY <1>7 DEF WritePic, cpuVars
  <2>2. Remaining(todo) /\ Halfway(pic, Len(todo)) /\ pic \in Chips
    BY <2>1 DEF PicInv
  <2>3. /\ pic' \in Chips /\ Halfway(pic', Len(todo) - 1)
        /\ Remaining(todo') /\ Len(todo') = Len(todo) - 1
    BY <2>1, <2>2, OneLess, WordTaken
  <2>4. PicInv' BY <2>1, <2>3 DEF PicInv
  <2> QED BY <2>1, <2>4
<1>8. CASE ProgramPit
  BY <1>8 DEF ProgramPit, PicInv, Halfway, Remapped, outVars, cpuVars, picVars,
              drawVars
<1>9. CASE FlushKeyboard
  BY <1>9 DEF FlushKeyboard, PicInv, outVars, cpuVars, picVars, drawVars
<1>10. CASE RevertToPicMode
  BY <1>10 DEF RevertToPicMode, PicInv, outVars, picVars, drawVars
<1>11. CASE EnableIrqs
  BY <1>11 DEF EnableIrqs, PicInv, outVars, picVars, drawVars
<1>12. CASE Collect
  BY ZenonT(60), <1>12 DEF Collect, Exit, Say, PicInv, outVars, cpuVars, picVars, drawVars
<1>13. CASE MapUartWindow
  BY <1>13 DEF MapUartWindow, Exit, PicInv, outVars, picVars, drawVars
<1>14. CASE InitPl011
  BY <1>14 DEF InitPl011, Access, Reaches, PicInv, cpuVars, picVars, drawVars
<1>15. CASE InstallVectors
  BY <1>15 DEF InstallVectors, PicInv, outVars, picVars, drawVars
<1>16. CASE Break
  BY <1>16 DEF Break, PicInv, cpuVars, picVars, drawVars
<1>17. CASE InitGicTimer
  BY <1>17, OneGib
     DEF InitGicTimer, Access, Reaches, PicInv, outVars, cpuVars, picVars,
         drawVars
<1>18. CASE InitFramebuffer
  BY <1>18 DEF InitFramebuffer, Exit, PicInv, cpuVars, picVars
<1>19. CASE DrawColorBars
  BY <1>19 DEF DrawColorBars, Exit, PicInv, cpuVars, picVars
<1>20. CASE VerifyBars
  BY <1>20 DEF VerifyBars, Exit, PicInv, cpuVars, picVars, drawVars
<1>21. CASE InitHeap
  BY ZenonT(60), <1>21 DEF InitHeap, PicInv, cpuVars, picVars, drawVars
<1>22. CASE TakeInterrupt
  BY <1>22, OnlyTheTimer
     DEF TakeInterrupt, PicInv, Chips, Remapped, outVars, cpuVars,
         drawVars
<1>23. CASE TimerFires
  BY SMTT(60), <1>23 DEF TimerFires, PicInv, Chips, Remapped, Halfway, outVars, cpuVars,
               drawVars
<1>24. CASE KeyPressed
  BY <1>24 DEF KeyPressed, PicInv, Chips, Remapped, Halfway, outVars, cpuVars,
               drawVars
<1>25. CASE LineByte
  BY <1>25 DEF LineByte, PicInv, outVars, cpuVars, picVars, drawVars
<1>26. CASE UNCHANGED vars
  BY <1>26 DEF vars, PicInv, cpuVars, picVars
<1> QED BY <1>1, <1>2, <1>3, <1>4, <1>5, <1>6, <1>7, <1>8, <1>9, <1>10, <1>11,
           <1>12, <1>13, <1>14, <1>15, <1>16, <1>17, <1>18, <1>19, <1>20,
           <1>21, <1>22, <1>23, <1>24, <1>25, <1>26
        DEF Next, Boot

(* Boot takes no fault and no interrupt without its handler, on any machine*)
(* whatever: any UART, answers, page tables, framebuffers and memory, and  *)
(* any timing of the timer and the keys.                                   *)
THEOREM NothingUnhandled == Spec => []NeverLost
<1>1. BootInv => NeverLost BY DEF BootInv
<1> QED BY BootStart, BootStep, <1>1, PTL DEF Spec
-----------------------------------------------------------------------------
(* Induction in set form. *)
LEMMA SetInduction ==
  ASSUME NEW T, 0 \in T, \A n \in Nat : n \in T => n + 1 \in T
  PROVE  Nat \subseteq T
<1> DEFINE R == OpToRel(<, Nat)
           U == Nat \ T
<1>1. IsWellFoundedOn(R, Nat) BY NatLessThanWellFounded
<1>2. \A x, y \in Nat : x < y => <<x, y>> \in R BY DEF OpToRel
<1> HIDE DEF R
<1>3. SUFFICES ASSUME U # {} PROVE FALSE OBVIOUS
<1>4. U \subseteq Nat OBVIOUS
<1> HIDE DEF U
<1>5. PICK x \in U : \A y \in U : <<y, x>> \notin R BY <1>1, <1>3, <1>4, WFMin
<1>6. x \in Nat /\ x \notin T BY DEF U
<1>7. x # 0 BY <1>6
<1>8. x - 1 \in Nat /\ x - 1 < x /\ (x - 1) + 1 = x BY <1>6, <1>7
<1>9. x - 1 \notin U BY <1>2, <1>5, <1>6, <1>8
<1> QED BY <1>6, <1>8, <1>9 DEF U

(* Division. *)
LEMMA DivRem ==
  ASSUME NEW a \in Nat, NEW b \in Nat, b > 0
  PROVE  /\ a \div b \in Nat /\ a % b \in Nat /\ a % b < b
         /\ a = b * (a \div b) + (a % b)
OBVIOUS

LEMMA DivUnique ==
  ASSUME NEW b \in Nat, NEW q \in Nat, NEW r \in Nat, NEW s \in Nat,
         NEW t \in Nat, r < b, t < b, b * q + r = b * s + t
  PROVE  q = s /\ r = t
<1>1. ASSUME NEW x \in Nat, NEW y \in Nat, NEW u \in Nat, NEW v \in Nat,
             x < y, u < b, v < b
      PROVE  b * x + u # b * y + v
  <2>1. PICK e \in Nat : y = x + 1 + e
    <3>1. y - (x + 1) \in Nat /\ y = x + 1 + (y - (x + 1)) BY <1>1
    <3> QED BY <3>1
  <2>2. b * (x + 1 + e) = b * x + b + b * e BY <2>1
  <2>3. b * e \in Nat /\ b * x \in Nat BY <2>1
  <2> QED BY <1>1, <2>1, <2>2, <2>3
<1>2. ~(q < s) BY <1>1
<1>3. ~(s < q) BY <1>1
<1>4. q = s BY <1>2, <1>3
<1>5. b * q \in Nat OBVIOUS
<1> QED BY <1>4, <1>5

-----------------------------------------------------------------------------
(* Powers of two.  f is the function that TwoTo chooses. *)
Powers(f, n) == f = [i \in 0..n |-> IF i = 0 THEN 1 ELSE 2 * f[i - 1]]

LEMMA PowersExist == \A n \in Nat : \E f : Powers(f, n)
<1> DEFINE T == {n \in Nat : \E f : Powers(f, n)}
<1>1. 0 \in T
  <2>1. Powers([i \in 0..0 |-> 1], 0) BY DEF Powers
  <2> QED BY <2>1
<1>2. ASSUME NEW n \in Nat, n \in T PROVE n + 1 \in T
  <2>1. PICK f : Powers(f, n) BY <1>2
  <2> DEFINE e == [i \in 0..n + 1 |-> IF i = n + 1 THEN 2 * f[n] ELSE f[i]]
  <2>2. \A i \in 0..n : e[i] = f[i] OBVIOUS
  <2>3. e[n + 1] = 2 * f[n] OBVIOUS
  <2>4. e = [i \in 0..n + 1 |-> e[i]] OBVIOUS
  <2> HIDE DEF e
  <2>5. \A i \in 0..n : e[i] = IF i = 0 THEN 1 ELSE 2 * e[i - 1]
    <3>1. \A i \in 0..n : f[i] = IF i = 0 THEN 1 ELSE 2 * f[i - 1]
      BY <2>1 DEF Powers
    <3>2. \A i \in 0..n : i # 0 => i - 1 \in 0..n OBVIOUS
    <3> QED BY <2>2, <3>1, <3>2
  <2>6. e[n + 1] = 2 * e[n] BY <2>2, <2>3
  <2>7. \A i \in 0..n + 1 : e[i] = IF i = 0 THEN 1 ELSE 2 * e[i - 1]
    <3>1. \A i \in 0..n + 1 : i \in 0..n \/ i = n + 1 OBVIOUS
    <3>2. n + 1 # 0 /\ (n + 1) - 1 = n OBVIOUS
    <3> QED BY <2>5, <2>6, <3>1, <3>2
  <2>8. Powers(e, n + 1) BY <2>4, <2>7 DEF Powers
  <2> QED BY <2>8
<1> HIDE DEF T
<1>3. Nat \subseteq T BY <1>1, <1>2, SetInduction
<1> QED BY <1>3 DEF T

LEMMA PowersIs ==
  ASSUME NEW n \in Nat, NEW f, Powers(f, n)
  PROVE  f[0] = 1 /\ \A i \in Nat : i < n => f[i + 1] = 2 * f[i]
<1>1. f[0] = 1 BY DEF Powers
<1>2. ASSUME NEW i \in Nat, i < n PROVE f[i + 1] = 2 * f[i]
  <2>1. i + 1 \in 0..n /\ i + 1 # 0 /\ (i + 1) - 1 = i BY <1>2
  <2> QED BY <2>1 DEF Powers
<1> QED BY <1>1, <1>2

LEMMA TwoToChosen ==
  ASSUME NEW n \in Nat
  PROVE  \E f : Powers(f, n) /\ TwoTo(n) = f[n]
<1> DEFINE f == CHOOSE f : Powers(f, n)
<1>1. Powers(f, n) BY PowersExist
<1>2. TwoTo(n) = f[n] BY DEF TwoTo, Powers
<1> QED BY <1>1, <1>2

LEMMA TwoToNext ==
  /\ TwoTo(0) = 1
  /\ \A n \in Nat : TwoTo(n + 1) = 2 * TwoTo(n)
<1>1. TwoTo(0) = 1
  <2>1. PICK f : Powers(f, 0) /\ TwoTo(0) = f[0] BY TwoToChosen
  <2> QED BY <2>1, PowersIs
<1>2. ASSUME NEW n \in Nat PROVE TwoTo(n + 1) = 2 * TwoTo(n)
  <2>1. PICK f : Powers(f, n) /\ TwoTo(n) = f[n] BY TwoToChosen
  <2>2. n + 1 \in Nat OBVIOUS
  <2>3. PICK g : Powers(g, n + 1) /\ TwoTo(n + 1) = g[n + 1]
    BY <2>2, TwoToChosen
  <2> DEFINE T == {i \in Nat : i <= n => f[i] = g[i]}
  <2>4. /\ f[0] = 1 /\ \A i \in Nat : i < n => f[i + 1] = 2 * f[i]
        /\ g[0] = 1 /\ \A i \in Nat : i < n + 1 => g[i + 1] = 2 * g[i]
    BY <2>1, <2>2, <2>3, PowersIs
  <2>5. 0 \in T BY <2>4
  <2>6. ASSUME NEW i \in Nat, i \in T PROVE i + 1 \in T
    <3>1. i + 1 <= n => i <= n /\ i < n /\ i < n + 1 OBVIOUS
    <3> QED BY <2>4, <2>6, <3>1
  <2> HIDE DEF T
  <2>7. Nat \subseteq T BY <2>5, <2>6, SetInduction
  <2>8. f[n] = g[n]
    <3>1. n <= n OBVIOUS
    <3> QED BY <2>7, <3>1 DEF T
  <2>9. g[n + 1] = 2 * g[n]
    <3>1. n < n + 1 OBVIOUS
    <3> QED BY <2>4, <3>1
  <2> QED BY <2>1, <2>3, <2>8, <2>9
<1> QED BY <1>1, <1>2

LEMMA TwoToPositive ==
  ASSUME NEW n \in Nat
  PROVE  TwoTo(n) \in Nat /\ TwoTo(n) >= 1
<1> DEFINE T == {i \in Nat : TwoTo(i) \in Nat /\ TwoTo(i) >= 1}
<1>1. 0 \in T BY TwoToNext
<1>2. ASSUME NEW i \in Nat, i \in T PROVE i + 1 \in T
  <2>1. TwoTo(i + 1) = 2 * TwoTo(i) BY TwoToNext
  <2> QED BY <1>2, <2>1
<1> HIDE DEF T
<1>3. Nat \subseteq T BY <1>1, <1>2, SetInduction
<1> QED BY <1>3 DEF T

LEMMA TwoToSum ==
  ASSUME NEW m \in Nat, NEW n \in Nat
  PROVE  TwoTo(m + n) = TwoTo(m) * TwoTo(n)
<1> DEFINE T == {i \in Nat : TwoTo(m + i) = TwoTo(m) * TwoTo(i)}
<1>0. TwoTo(m) \in Nat BY TwoToPositive
<1>1. 0 \in T
  <2>1. TwoTo(0) = 1 /\ m + 0 = m BY TwoToNext
  <2> QED BY <1>0, <2>1
<1>2. ASSUME NEW i \in Nat, i \in T PROVE i + 1 \in T
  <2>1. TwoTo(i + 1) = 2 * TwoTo(i) BY TwoToNext
  <2>2. TwoTo((m + i) + 1) = 2 * TwoTo(m + i) BY TwoToNext
  <2>3. m + (i + 1) = (m + i) + 1 OBVIOUS
  <2>4. TwoTo(i) \in Nat BY TwoToPositive
  <2>5. \A a, b \in Nat : 2 * (a * b) = a * (2 * b) OBVIOUS
  <2>6. TwoTo(m + i) = TwoTo(m) * TwoTo(i) BY <1>2
  <2>7. TwoTo(m + (i + 1)) = TwoTo(m) * TwoTo(i + 1)
    BY <1>0, <2>1, <2>2, <2>3, <2>4, <2>5, <2>6
  <2> QED BY <2>7
<1> HIDE DEF T
<1>3. Nat \subseteq T BY <1>1, <1>2, SetInduction
<1> QED BY <1>3 DEF T

LEMMA TwoToGrows ==
  ASSUME NEW m \in Nat, NEW n \in Nat, m <= n
  PROVE  TwoTo(m) <= TwoTo(n)
<1>1. n - m \in Nat /\ n = m + (n - m) OBVIOUS
<1>2. TwoTo(n) = TwoTo(m) * TwoTo(n - m) BY <1>1, TwoToSum
<1>3. /\ TwoTo(m) \in Nat /\ TwoTo(m) >= 1
      /\ TwoTo(n - m) \in Nat /\ TwoTo(n - m) >= 1
  BY <1>1, TwoToPositive
<1>4. \A a, b \in Nat : b >= 1 => a <= a * b
  <2> SUFFICES ASSUME NEW a \in Nat, NEW b \in Nat, b >= 1 PROVE a <= a * b
    OBVIOUS
  <2>1. b - 1 \in Nat /\ b = (b - 1) + 1 OBVIOUS
  <2>2. \A c \in Nat : a * (c + 1) = a * c + a /\ a * c \in Nat OBVIOUS
  <2>3. a * b = a * (b - 1) + a /\ a * (b - 1) \in Nat BY <2>1, <2>2
  <2> QED BY <2>3
<1> QED BY <1>2, <1>3, <1>4

LEMMA Byte ==
  ASSUME NEW k \in Nat
  PROVE  TwoTo(8 * (k + 1)) = 256 * TwoTo(8 * k)
<1>1. \A n \in Nat : TwoTo(n + 1) = 2 * TwoTo(n) /\ TwoTo(n) \in Nat
  BY TwoToNext, TwoToPositive
<1>2. TwoTo(1) = 2
  <2>1. 0 + 1 = 1 /\ 0 \in Nat OBVIOUS
  <2> QED BY <1>1, <2>1, TwoToNext
<1>3. TwoTo(2) = 4
  <2>1. 1 + 1 = 2 OBVIOUS
  <2> QED BY <1>2, <2>1, TwoToSum
<1>4. TwoTo(4) = 16
  <2>1. 2 + 2 = 4 OBVIOUS
  <2> QED BY <1>3, <2>1, TwoToSum
<1>5. TwoTo(8) = 256
  <2>1. 4 + 4 = 8 OBVIOUS
  <2> QED BY <1>4, <2>1, TwoToSum
<1>6. 8 * (k + 1) = 8 + 8 * k /\ 8 * k \in Nat OBVIOUS
<1>7. TwoTo(8 + 8 * k) = TwoTo(8) * TwoTo(8 * k) BY <1>6, TwoToSum
<1> QED BY <1>5, <1>6, <1>7
-----------------------------------------------------------------------------
(* Pixels.  A word is made of its bytes. *)
LEMMA Digits ==
  ASSUME NEW a \in Nat, NEW p \in Nat, p > 0
  PROVE  a % (256 * p) = (a % p) + ((a \div p) % 256) * p
<1> DEFINE q == a \div p
           r == a % p
           s == q \div 256
           t == q % 256
           b == 256 * p
<1>1. q \in Nat /\ r \in Nat /\ r < p /\ a = p * q + r BY DivRem
<1> HIDE DEF q, r
<1>2. s \in Nat /\ t \in Nat /\ t <= 255 /\ q = 256 * s + t BY <1>1
<1> HIDE DEF s, t
<1>3. b \in Nat /\ b > 0 OBVIOUS
<1>4. a \div b \in Nat /\ a % b \in Nat /\ a % b < b
      /\ a = b * (a \div b) + (a % b)
  BY <1>3, DivRem
<1>5. p * q = 256 * (p * s) + p * t /\ p * s \in Nat /\ p * t \in Nat
  <2>1. p * (256 * s + t) = 256 * (p * s) + p * t BY <1>2
  <2> QED BY <1>2, <2>1
<1>6. b * s = 256 * (p * s) BY <1>2
<1>7. p * t <= 255 * p
  <2>1. 255 - t \in Nat /\ p * (255 - t) \in Nat BY <1>2
  <2>2. p * (255 - t) = 255 * p - p * t BY <1>2
  <2> QED BY <1>5, <2>1, <2>2
<1>8. p * t + r \in Nat /\ p * t + r < b BY <1>1, <1>5, <1>7
<1>9. a = b * s + (p * t + r) BY <1>1, <1>5, <1>6
<1> HIDE DEF b
<1>10. a % b = p * t + r
  <2> DEFINE u == p * t + r
             d == a \div b
             e == a % b
  <2>1. u \in Nat /\ u < b /\ a = b * s + u BY <1>8, <1>9
  <2>2. d \in Nat /\ e \in Nat /\ e < b /\ a = b * d + e BY <1>4
  <2> HIDE DEF u, d, e
  <2>3. b * d + e = b * s + u BY <2>1, <2>2
  <2>4. d = s /\ e = u
    BY <1>2, <1>3, <2>1, <2>2, <2>3, DivUnique
  <2> QED BY <2>4 DEF u, e
<1>11. p * t = t * p BY <1>2
<1> QED BY <1>1, <1>5, <1>10, <1>11 DEF b, r, t, q

(* f is the function that ReadRawPixel chooses. *)
Reading(f, l, mem, x, y) ==
  f = [i \in 0..BytesPerPixel(l) |->
         IF i = 0 THEN 0
         ELSE f[i - 1] + mem[Offset(l, x, y) + i - 1] * TwoTo(8 * (i - 1))]

(* What is stored in the bytes of a pixel. *)
Shows(l, mem, x, y, word) ==
  \A k \in 0..BytesPerPixel(l) - 1 :
    mem[Offset(l, x, y) + k] = ByteOf(word, k)

LEMMA ReadBack ==
  ASSUME NEW l, BytesPerPixel(l) \in Nat, NEW mem, NEW x, NEW y,
         Offset(l, x, y) \in Int, NEW word \in Nat,
         word < TwoTo(8 * BytesPerPixel(l)), Shows(l, mem, x, y, word)
  PROVE  ReadRawPixel(l, mem, x, y) = word
<1> DEFINE n == BytesPerPixel(l)
           o == Offset(l, x, y)
           low(i) == word % TwoTo(8 * i)
           g == [i \in 0..n |-> low(i)]
<1>0. n \in Nat /\ o \in Int OBVIOUS
<1>1. low(0) = 0
  <2>1. TwoTo(8 * 0) = 1 BY TwoToNext
  <2>2. word % 1 = 0 OBVIOUS
  <2> QED BY <2>1, <2>2
<1>2. ASSUME NEW i \in 1..n
      PROVE  low(i) = low(i - 1) + mem[o + i - 1] * TwoTo(8 * (i - 1))
  <2>1. i - 1 \in Nat /\ i - 1 \in 0..n - 1 /\ (i - 1) + 1 = i
        /\ o + i - 1 = o + (i - 1)
    BY <1>0
  <2>2. TwoTo(8 * i) = 256 * TwoTo(8 * (i - 1)) BY <2>1, Byte
  <2>3. 8 * (i - 1) \in Nat BY <2>1
  <2>4. TwoTo(8 * (i - 1)) \in Nat /\ TwoTo(8 * (i - 1)) > 0
    BY <2>3, TwoToPositive
  <2>5. mem[o + (i - 1)] = (word \div TwoTo(8 * (i - 1))) % 256
    BY <2>1 DEF Shows, ByteOf
  <2> DEFINE p == TwoTo(8 * (i - 1))
  <2> HIDE DEF p
  <2>6. word % (256 * p) = (word % p) + ((word \div p) % 256) * p
    BY ZenonT(60), <2>4, Digits DEF p
  <2> QED BY <2>1, <2>2, <2>5, <2>6 DEF p
<1>3. g = [i \in 0..n |->
             IF i = 0 THEN 0
             ELSE g[i - 1] + mem[o + i - 1] * TwoTo(8 * (i - 1))]
  <2> SUFFICES ASSUME NEW i \in 0..n
               PROVE  low(i) = IF i = 0 THEN 0
                               ELSE g[i - 1] + mem[o + i - 1] * TwoTo(8 * (i - 1))
    OBVIOUS
  <2>1. i # 0 => i \in 1..n /\ i - 1 \in 0..n BY <1>0
  <2>2. i # 0 => g[i - 1] = low(i - 1) BY <2>1
  <2> HIDE DEF low, g
  <2> QED BY <1>1, <1>2, <2>1, <2>2
<1>4. Reading(g, l, mem, x, y) BY <1>3 DEF Reading
<1> DEFINE f == CHOOSE f : Reading(f, l, mem, x, y)
<1>5. Reading(f, l, mem, x, y) BY <1>4
<1>6. ReadRawPixel(l, mem, x, y) = f[n] BY DEF ReadRawPixel, Reading
<1> HIDE DEF f, g
<1>7. f[0] = 0 BY <1>0, <1>5 DEF Reading
<1>8. ASSUME NEW i \in 1..n
      PROVE  f[i] = f[i - 1] + mem[o + i - 1] * TwoTo(8 * (i - 1))
  <2>1. i \in 0..n /\ i # 0 BY <1>0
  <2> QED BY <1>5, <2>1 DEF Reading
<1> DEFINE T == {i \in Nat : i <= n => f[i] = low(i)}
<1> HIDE DEF low, o, n
<1>9. 0 \in T BY <1>1, <1>7
<1>10. ASSUME NEW i \in Nat, i \in T PROVE i + 1 \in T
  <2> SUFFICES ASSUME i + 1 <= n PROVE f[i + 1] = low(i + 1) OBVIOUS
  <2>1. i + 1 \in 1..n /\ (i + 1) - 1 = i /\ i <= n BY <1>0
  <2>2. f[i] = low(i) BY <1>10, <2>1
  <2> QED BY <1>2, <1>8, <2>1, <2>2
<1> HIDE DEF T
<1>11. Nat \subseteq T BY <1>9, <1>10, SetInduction
<1>12. f[n] = low(n)
  <2>1. n <= n BY <1>0
  <2> QED BY <1>0, <1>11, <2>1 DEF T
<1>13. low(n) = word
  <2>1. 8 * n \in Nat BY <1>0
  <2>2. TwoTo(8 * n) \in Nat /\ TwoTo(8 * n) > 0 BY <2>1, TwoToPositive
  <2> DEFINE b == TwoTo(8 * n)
  <2> HIDE DEF b
  <2>3. b \in Nat /\ b > 0 /\ word < b BY <2>2 DEF b, n
  <2>4. word \div b \in Nat /\ word % b \in Nat /\ word % b < b
        /\ word = b * (word \div b) + (word % b)
    BY <2>3, DivRem
  <2>5. word = b * 0 + word BY <2>3
  <2>6. word % b = word BY <2>3, <2>4, <2>5, DivUnique
  <2> QED BY <2>6 DEF b, low
<1> QED BY <1>6, <1>12, <1>13 DEF n

(* A channel's bits lie above or below another's. *)
LEMMA ChannelBound ==
  ASSUME NEW c \in Channels, NEW value \in {0, 255}
  PROVE  /\ EncodeChannel(c, value) \in Nat
         /\ EncodeChannel(c, value)
              <= TwoTo(c.shift + c.size) - TwoTo(c.shift)
<1>1. c.size \in Nat /\ c.shift \in Nat BY DEF Channels
<1> DEFINE s == TwoTo(c.size)
           h == TwoTo(c.shift)
<1>2. s \in Nat /\ s >= 1 /\ h \in Nat /\ h >= 1 BY <1>1, TwoToPositive
<1>3. TwoTo(c.shift + c.size) = h * s BY <1>1, TwoToSum
<1>4. EncodeChannel(c, value) = ((value * (s - 1)) \div 255) * h
  BY DEF EncodeChannel
<1> HIDE DEF s, h
<1>5. s - 1 \in Nat /\ (s - 1) * h \in Nat /\ (s - 1) * h = h * s - h
  BY <1>2
<1>6. CASE value = 0
  <2>1. (0 * (s - 1)) \div 255 = 0 BY <1>5
  <2>2. EncodeChannel(c, value) = 0 BY <1>2, <1>4, <1>6, <2>1
  <2> QED BY <1>3, <1>5, <2>2 DEF h
<1>7. CASE value = 255
  <2>1. (255 * (s - 1)) \div 255 = s - 1 BY <1>5
  <2>2. EncodeChannel(c, value) = (s - 1) * h BY <1>4, <1>7, <2>1
  <2> QED BY <1>2, <1>3, <1>5, <2>2 DEF h
<1> QED BY <1>6, <1>7

Below(c, d) == c.shift + c.size <= d.shift

LEMMA Apart ==
  ASSUME NEW c \in Channels, NEW d \in Channels, c.size # 0, d.size # 0,
         ChannelBits(c) \cap ChannelBits(d) = {}
  PROVE  Below(c, d) \/ Below(d, c)
<1>1. /\ c.size \in Nat /\ c.shift \in Nat /\ c.size > 0
      /\ d.size \in Nat /\ d.shift \in Nat /\ d.size > 0
  BY DEF Channels
<1>2. SUFFICES ASSUME ~Below(c, d), ~Below(d, c) PROVE FALSE
  OBVIOUS
<1>3. d.shift < c.shift + c.size /\ c.shift < d.shift + d.size
  BY <1>1, <1>2 DEF Below
<1>4. CASE c.shift <= d.shift
  <2>1. d.shift \in ChannelBits(c) /\ d.shift \in ChannelBits(d)
    BY <1>1, <1>3, <1>4 DEF ChannelBits
  <2> QED BY <2>1
<1>5. CASE d.shift <= c.shift
  <2>1. c.shift \in ChannelBits(c) /\ c.shift \in ChannelBits(d)
    BY <1>1, <1>3, <1>5 DEF ChannelBits
  <2> QED BY <2>1
<1> QED BY <1>1, <1>4, <1>5

LEMMA StackedChannels ==
  ASSUME NEW a \in Channels, NEW b \in Channels, NEW c \in Channels,
         NEW n \in Nat, Below(a, b), Below(b, c), c.shift + c.size <= n,
         NEW u \in {0, 255}, NEW v \in {0, 255}, NEW w \in {0, 255}
  PROVE  EncodeChannel(a, u) + EncodeChannel(b, v) + EncodeChannel(c, w)
           < TwoTo(n)
<1>1. /\ a.size \in Nat /\ a.shift \in Nat /\ b.size \in Nat
      /\ b.shift \in Nat /\ c.size \in Nat /\ c.shift \in Nat
  BY SMTT(60) DEF Channels
<1>2. /\ a.shift + a.size \in Nat /\ b.shift + b.size \in Nat
      /\ c.shift + c.size \in Nat
  BY <1>1
<1>3. TwoTo(a.shift + a.size) <= TwoTo(b.shift)
  BY <1>1, <1>2, TwoToGrows DEF Below
<1>4. TwoTo(b.shift + b.size) <= TwoTo(c.shift)
  BY <1>1, <1>2, TwoToGrows DEF Below
<1>5. TwoTo(c.shift + c.size) <= TwoTo(n) BY <1>2, TwoToGrows
<1>6. /\ TwoTo(a.shift) \in Nat /\ TwoTo(a.shift) >= 1
      /\ TwoTo(b.shift) \in Nat /\ TwoTo(c.shift) \in Nat
      /\ TwoTo(a.shift + a.size) \in Nat /\ TwoTo(b.shift + b.size) \in Nat
      /\ TwoTo(c.shift + c.size) \in Nat /\ TwoTo(n) \in Nat
  BY <1>1, <1>2, TwoToPositive
<1>7. /\ EncodeChannel(a, u) \in Nat
      /\ EncodeChannel(a, u) <= TwoTo(a.shift + a.size) - TwoTo(a.shift)
  BY ChannelBound
<1>8. /\ EncodeChannel(b, v) \in Nat
      /\ EncodeChannel(b, v) <= TwoTo(b.shift + b.size) - TwoTo(b.shift)
  BY ChannelBound
<1>9. /\ EncodeChannel(c, w) \in Nat
      /\ EncodeChannel(c, w) <= TwoTo(c.shift + c.size) - TwoTo(c.shift)
  BY ChannelBound
<1> QED BY <1>3, <1>4, <1>5, <1>6, <1>7, <1>8, <1>9

Primary(color) == \A i \in 1..3 : color[i] \in {0, 255}

(* A layout that qualifies. *)
Sound(l) == l \in Layouts /\ FromLayout(l)

LEMMA SoundLayout ==
  ASSUME NEW l, Sound(l)
  PROVE  /\ l.width \in Nat /\ l.width > 0 /\ l.height \in Nat /\ l.height > 0
         /\ l.pitch \in Nat /\ l.pitch > 0
         /\ BytesPerPixel(l) \in Nat /\ BytesPerPixel(l) > 0
         /\ l.bpp \in Nat /\ l.bpp = 8 * BytesPerPixel(l)
         /\ l.pitch >= l.width * BytesPerPixel(l)
         /\ l.red \in Channels /\ l.green \in Channels /\ l.blue \in Channels
<1>1. /\ l.width \in Nat /\ l.height \in Nat /\ l.pitch \in Nat
      /\ l.bpp \in Nat
      /\ l.red \in Channels /\ l.green \in Channels /\ l.blue \in Channels
  BY DEF Sound, Layouts, Sides
<1>2. /\ l.width # 0 /\ l.height # 0 /\ l.pitch # 0 /\ l.bpp # 0
      /\ l.bpp % 8 = 0 /\ l.pitch >= l.width * BytesPerPixel(l)
  BY DEF Sound, FromLayout
<1>3. l.bpp \div 8 \in Nat /\ l.bpp \div 8 > 0 /\ l.bpp = 8 * (l.bpp \div 8)
  BY <1>1, <1>2
<1> QED BY <1>1, <1>2, <1>3 DEF BytesPerPixel

(* A colour fits the bytes of its pixel. *)
LEMMA EncodeFits ==
  ASSUME NEW l, Sound(l), NEW color, Primary(color)
  PROVE  /\ Encode(l, color) \in Nat
         /\ Encode(l, color) < TwoTo(8 * BytesPerPixel(l))
<1> DEFINE r == l.red
           g == l.green
           b == l.blue
           n == l.bpp
<1>1. r \in Channels /\ g \in Channels /\ b \in Channels /\ n \in Nat
      /\ n = 8 * BytesPerPixel(l)
  BY SoundLayout
<1>2. /\ r.size # 0 /\ r.shift + r.size <= n
      /\ g.size # 0 /\ g.shift + g.size <= n
      /\ b.size # 0 /\ b.shift + b.size <= n
      /\ ChannelBits(r) \cap ChannelBits(g) = {}
      /\ ChannelBits(g) \cap ChannelBits(b) = {}
      /\ ChannelBits(b) \cap ChannelBits(r) = {}
  BY DEF Sound, FromLayout, ChannelFits
<1>3. color[1] \in {0, 255} /\ color[2] \in {0, 255} /\ color[3] \in {0, 255}
  BY DEF Primary
<1> DEFINE er == EncodeChannel(r, color[1])
           eg == EncodeChannel(g, color[2])
           eb == EncodeChannel(b, color[3])
<1>4. er \in Nat /\ eg \in Nat /\ eb \in Nat BY <1>1, <1>3, ChannelBound
<1>5. Encode(l, color) = er + eg + eb BY DEF Encode
<1> HIDE DEF r, g, b, n
<1>6. /\ Below(r, g) \/ Below(g, r)
      /\ Below(g, b) \/ Below(b, g)
      /\ Below(b, r) \/ Below(r, b)
  BY <1>1, <1>2, Apart
<1>7. \/ Below(r, g) /\ Below(g, b)
      \/ Below(r, b) /\ Below(b, g)
      \/ Below(g, r) /\ Below(r, b)
      \/ Below(g, b) /\ Below(b, r)
      \/ Below(b, r) /\ Below(r, g)
      \/ Below(b, g) /\ Below(g, r)
  <2>1. /\ r.size \in Nat /\ r.shift \in Nat /\ g.size \in Nat
        /\ g.shift \in Nat /\ b.size \in Nat /\ b.shift \in Nat
    BY SMTT(60), <1>1 DEF Channels
  <2> QED BY <1>2, <1>6, <2>1 DEF Below
<1>8. er + eg + eb < TwoTo(n)
  <2>1. CASE Below(r, g) /\ Below(g, b)
    BY <1>1, <1>2, <1>3, <2>1, StackedChannels
  <2>2. CASE Below(r, b) /\ Below(b, g)
    <3>1. er + eb + eg < TwoTo(n) BY <1>1, <1>2, <1>3, <2>2, StackedChannels
    <3> HIDE DEF er, eg, eb
    <3> QED BY <1>4, <3>1
  <2>3. CASE Below(g, r) /\ Below(r, b)
    <3>1. eg + er + eb < TwoTo(n) BY <1>1, <1>2, <1>3, <2>3, StackedChannels
    <3> HIDE DEF er, eg, eb
    <3> QED BY <1>4, <3>1
  <2>4. CASE Below(g, b) /\ Below(b, r)
    <3>1. eg + eb + er < TwoTo(n) BY <1>1, <1>2, <1>3, <2>4, StackedChannels
    <3> HIDE DEF er, eg, eb
    <3> QED BY <1>4, <3>1
  <2>5. CASE Below(b, r) /\ Below(r, g)
    <3>1. eb + er + eg < TwoTo(n) BY <1>1, <1>2, <1>3, <2>5, StackedChannels
    <3> HIDE DEF er, eg, eb
    <3> QED BY <1>4, <3>1
  <2>6. CASE Below(b, g) /\ Below(g, r)
    <3>1. eb + eg + er < TwoTo(n) BY <1>1, <1>2, <1>3, <2>6, StackedChannels
    <3> HIDE DEF er, eg, eb
    <3> QED BY <1>4, <3>1
  <2> QED BY <1>7, <2>1, <2>2, <2>3, <2>4, <2>5, <2>6
<1> HIDE DEF er, eg, eb
<1> QED BY <1>1, <1>4, <1>5, <1>8
-----------------------------------------------------------------------------
(* The bytes of a surface.  No two pixels share one, and all are mapped. *)
LEMMA Products ==
  ASSUME NEW a \in Nat, NEW b \in Nat, NEW c \in Nat, a <= b
  PROVE  a * c \in Nat /\ b * c \in Nat /\ a * c <= b * c
<1>1. b - a \in Nat /\ (b - a) * c \in Nat OBVIOUS
<1>2. (b - a) * c = b * c - a * c OBVIOUS
<1>3. a * c \in Nat /\ b * c \in Nat OBVIOUS
<1> QED BY <1>1, <1>2, <1>3

LEMMA InRow ==
  ASSUME NEW l, Sound(l), NEW x \in Nat, x < l.width,
         NEW i \in Nat, i < BytesPerPixel(l)
  PROVE  /\ x * BytesPerPixel(l) + i \in Nat
         /\ x * BytesPerPixel(l) + i < l.width * BytesPerPixel(l)
         /\ x * BytesPerPixel(l) + i < l.pitch
<1> DEFINE n == BytesPerPixel(l)
           w == l.width
<1>1. /\ w \in Nat /\ n \in Nat /\ l.pitch \in Nat /\ l.pitch >= w * n
  BY SoundLayout
<1>2. x + 1 \in Nat /\ x + 1 <= w BY <1>1
<1> HIDE DEF n, w
<1>3. (x + 1) * n <= w * n /\ w * n \in Nat BY <1>1, <1>2, Products
<1>4. (x + 1) * n = x * n + n /\ x * n \in Nat BY <1>1
<1>5. i < n BY DEF n
<1>6. x * n + i \in Nat /\ x * n + i < w * n BY <1>1, <1>3, <1>4, <1>5
<1> QED BY <1>1, <1>3, <1>6 DEF n, w

LEMMA SamePixel ==
  ASSUME NEW l, Sound(l),
         NEW x \in Nat, x < l.width, NEW u \in Nat, u < l.width,
         NEW y \in Nat, NEW v \in Nat,
         NEW i \in Nat, i < BytesPerPixel(l),
         NEW j \in Nat, j < BytesPerPixel(l),
         Offset(l, x, y) + i = Offset(l, u, v) + j
  PROVE  x = u /\ y = v /\ i = j
<1> DEFINE n == BytesPerPixel(l)
           p == l.pitch
           r == x * n + i
           t == u * n + j
<1>1. n \in Nat /\ p \in Nat BY SoundLayout
<1>2. r \in Nat /\ r < p BY InRow
<1>3. t \in Nat /\ t < p BY InRow
<1>4. p * y + r = p * v + t
  <2>1. y * p + x * n + i = v * p + u * n + j BY DEF Offset
  <2>2. y * p = p * y /\ v * p = p * v /\ p * y \in Nat /\ p * v \in Nat
        /\ x * n \in Nat /\ u * n \in Nat
    BY <1>1
  <2> HIDE DEF p, n
  <2> QED BY <2>1, <2>2 DEF r, t
<1> HIDE DEF p, r, t
<1>5. y = v /\ r = t BY <1>1, <1>2, <1>3, <1>4, DivUnique
<1>6. n * x + i = n * u + j
  <2>1. x * n + i = u * n + j BY <1>5 DEF r, t
  <2>2. x * n = n * x /\ u * n = n * u BY <1>1
  <2> QED BY <2>1, <2>2
<1>7. i < n /\ j < n OBVIOUS
<1> HIDE DEF n
<1>8. x = u /\ i = j BY <1>1, <1>6, <1>7, DivUnique
<1> QED BY <1>5, <1>8

LEMMA PixelMapped ==
  ASSUME NEW l, Sound(l), InMemory(l), NEW x \in Nat, x < l.width,
         NEW y \in Nat, y < l.height, NEW i \in Nat, i < BytesPerPixel(l)
  PROVE  /\ Offset(l, x, y) \in Nat
         /\ Offset(l, x, y) + i \in 0..VramSize - 1
<1> DEFINE n == BytesPerPixel(l)
           p == l.pitch
           q == l.height - 1
           w == l.width
<1>1. n \in Nat /\ p \in Nat /\ w \in Nat /\ q \in Nat /\ y <= q
  BY SoundLayout
<1>2. x * n + i \in Nat /\ x * n + i < w * n BY InRow
<1>3. q * p + w * n <= VramSize BY DEF InMemory
<1>4. Offset(l, x, y) = y * p + x * n BY DEF Offset
<1> HIDE DEF n, p, q, w
<1>5. y * p <= q * p /\ y * p \in Nat /\ q * p \in Nat BY <1>1, Products
<1>6. x * n \in Nat /\ w * n \in Nat BY <1>1
<1>7. VramSize \in Nat BY VramAssumption
<1> QED BY <1>2, <1>3, <1>4, <1>5, <1>6, <1>7

(* m is mem with a rectangle filled: its pixels, and every other byte. *)
FilledIn(l, m, mem, x, y, w, h, color) ==
  /\ DOMAIN m = DOMAIN mem
  /\ \A u \in x..x + w - 1, v \in y..y + h - 1,
        k \in 0..BytesPerPixel(l) - 1 :
       Offset(l, u, v) + k \in DOMAIN mem =>
         m[Offset(l, u, v) + k] = ByteOf(Encode(l, color), k)
  /\ \A a \in DOMAIN mem :
       (\A u \in x..x + w - 1, v \in y..y + h - 1,
           k \in 0..BytesPerPixel(l) - 1 : a # Offset(l, u, v) + k)
         => m[a] = mem[a]

LEMMA FilledIs ==
  ASSUME NEW l, Sound(l), NEW mem, DOMAIN mem \subseteq Nat,
         NEW x \in Nat, NEW y \in Nat, NEW w \in Nat,
         NEW h \in Nat, x + w <= l.width, NEW color,
         NEW m, m = Filled(l, mem, x, y, w, h, color)
  PROVE  FilledIn(l, m, mem, x, y, w, h, color)
<1> DEFINE n == BytesPerPixel(l)
           pixels == (x..x + w - 1) \X (y..y + h - 1)
           hit(a) == {p \in pixels : a - Offset(l, p[1], p[2]) \in 0..n - 1}
           c == Encode(l, color)
           at(a) == CHOOSE p \in hit(a) : TRUE
           byte(a) == ByteOf(c, a - Offset(l, at(a)[1], at(a)[2]))
<1>1. m = [a \in DOMAIN mem |-> IF hit(a) = {} THEN mem[a] ELSE byte(a)]
  BY DEF Filled
<1>2. n \in Nat /\ l.width \in Nat /\ l.pitch \in Nat BY SoundLayout
<1>3. \A u, v \in Nat : Offset(l, u, v) \in Nat
  <2> SUFFICES ASSUME NEW u \in Nat, NEW v \in Nat PROVE Offset(l, u, v) \in Nat
    OBVIOUS
  <2> HIDE DEF n
  <2>1. v * l.pitch \in Nat /\ u * n \in Nat BY <1>2
  <2> QED BY <2>1 DEF Offset, n
<1>4. \A u \in x..x + w - 1, v \in y..y + h - 1 :
        u \in Nat /\ v \in Nat /\ u < l.width
  BY <1>2
<1>5. ASSUME NEW u \in x..x + w - 1, NEW v \in y..y + h - 1,
             NEW k \in 0..n - 1, Offset(l, u, v) + k \in DOMAIN mem
      PROVE  m[Offset(l, u, v) + k] = ByteOf(c, k)
  <2> DEFINE a == Offset(l, u, v) + k
  <2>6. u \in Nat /\ v \in Nat /\ u < l.width BY <1>4
  <2>1. Offset(l, u, v) \in Nat /\ a - Offset(l, u, v) = k /\ k \in Nat
        /\ k < n
    <3>1. Offset(l, u, v) \in Nat BY <1>3, <2>6
    <3> DEFINE o == Offset(l, u, v)
    <3>2. o \in Nat BY <3>1
    <3> HIDE DEF o, n
    <3>3. k \in Nat /\ k < n /\ (o + k) - o = k BY <1>2, <3>2
    <3> QED BY <3>1, <3>3 DEF o
  <2>2. <<u, v>> \in hit(a) BY <2>1
  <2>3. at(a) \in hit(a) /\ hit(a) # {} BY SMTT(60), <2>2
  <2> DEFINE s == at(a)[1]
             t == at(a)[2]
             j == a - Offset(l, s, t)
  <2>4. s \in x..x + w - 1 /\ t \in y..y + h - 1 /\ j \in 0..n - 1
    BY <2>3
  <2>5. s \in Nat /\ t \in Nat /\ s < l.width BY <1>4, <2>4
  <2>7. j \in Nat /\ j < n /\ Offset(l, s, t) \in Nat /\ a \in Nat
    <3>1. Offset(l, s, t) \in Nat BY <1>3, <2>5
    <3>2. a \in Nat BY <1>5
    <3> HIDE DEF s, t, j, a, n
    <3>3. j \in Nat /\ j < n BY <1>2, <2>4
    <3> QED BY <3>1, <3>2, <3>3
  <2>8. Offset(l, u, v) + k = Offset(l, s, t) + j
    <3> HIDE DEF s, t
    <3> QED BY <2>7
  <2> HIDE DEF s, t, j
  <2>9. k = j BY SMTT(60), <2>1, <2>5, <2>6, <2>7, <2>8, SamePixel
  <2>10. m[a] = byte(a) BY <1>1, <1>5, <2>3
  <2>11. byte(a) = ByteOf(c, j) BY DEF j, s, t
  <2> QED BY <2>9, <2>10, <2>11
<1>6. ASSUME NEW a \in DOMAIN mem,
             \A u \in x..x + w - 1, v \in y..y + h - 1, k \in 0..n - 1 :
               a # Offset(l, u, v) + k
      PROVE  m[a] = mem[a]
  <2>1. ASSUME NEW p \in hit(a) PROVE FALSE
    <3> DEFINE s == p[1]
               t == p[2]
    <3>1. s \in x..x + w - 1 /\ t \in y..y + h - 1
          /\ a - Offset(l, s, t) \in 0..n - 1
      OBVIOUS
    <3> HIDE DEF s, t
    <3>2. s \in Nat /\ t \in Nat BY <1>4, <3>1
    <3>3. Offset(l, s, t) \in Nat BY <1>3, <3>2
    <3>4. PICK k \in 0..n - 1 : k = a - Offset(l, s, t)
      <4> HIDE DEF n
      <4> QED BY <3>1
    <3>5. a = Offset(l, s, t) + k
      <4>1. a \in Nat OBVIOUS
      <4> HIDE DEF n
      <4> QED BY <3>3, <3>4, <4>1
    <3> QED BY <1>6, <3>1, <3>5
  <2>2. hit(a) = {} BY <2>1
  <2> HIDE DEF hit, byte
  <2> QED BY <1>1, <2>2
<1>7. DOMAIN m = DOMAIN mem BY <1>1
<1> QED BY <1>5, <1>6, <1>7 DEF FilledIn

-----------------------------------------------------------------------------
(* The bars divide the width. *)
LEMMA Bars ==
  ASSUME NEW l, l.width \in Nat
  PROVE  /\ BarStart(l, 0) = 0 /\ BarEnd(l, 6) = l.width
         /\ \A i \in 0..6 :
              /\ BarStart(l, i) \in Nat /\ BarEnd(l, i) \in Nat
              /\ BarStart(l, i) <= BarEnd(l, i) /\ BarEnd(l, i) <= l.width
              /\ BarStart(l, i + 1) = BarEnd(l, i)
              /\ l.width >= 7 => BarStart(l, i) < BarEnd(l, i)
         /\ l.width < 7 => BarEnd(l, 0) = 0
<1> DEFINE w == l.width
<1>1. \A i \in 0..6 : BarStart(l, i) = (w * i) \div 7
                      /\ BarEnd(l, i) = (w * (i + 1)) \div 7
                      /\ BarStart(l, i + 1) = (w * (i + 1)) \div 7
  BY DEF BarStart, BarEnd
<1>2. w \in Nat OBVIOUS
<1> HIDE DEF w
<1>3. w * 0 = 0 /\ w * (6 + 1) = 7 * w /\ w * (0 + 1) = w BY <1>2
<1>4. ASSUME NEW i \in 0..6
      PROVE  /\ (w * i) \div 7 \in Nat /\ (w * (i + 1)) \div 7 \in Nat
             /\ (w * i) \div 7 <= (w * (i + 1)) \div 7
             /\ (w * (i + 1)) \div 7 <= w
             /\ w >= 7 => (w * i) \div 7 < (w * (i + 1)) \div 7
  <2>1. i \in Nat /\ w * i \in Nat /\ w * (i + 1) = w * i + w BY <1>2
  <2>2. (i + 1) * w <= 7 * w
    <3>1. i + 1 \in Nat /\ i + 1 <= 7 OBVIOUS
    <3> QED BY <1>2, <3>1, Products
  <2>3. w * (i + 1) = (i + 1) * w BY <1>2, <2>1
  <2> DEFINE a == w * i
             b == w * (i + 1)
  <2>4. a \in Nat /\ b = a + w /\ b <= 7 * w BY <2>1, <2>2, <2>3
  <2> HIDE DEF a, b
  <2>5. /\ a \div 7 \in Nat /\ b \div 7 \in Nat /\ a \div 7 <= b \div 7
        /\ b \div 7 <= w
        /\ w >= 7 => a \div 7 < b \div 7
    BY <1>2, <2>4
  <2> QED BY <2>5 DEF a, b
<1>5. BarStart(l, 0) = 0
  <2>1. 0 \div 7 = 0 OBVIOUS
  <2> QED BY <1>1, <1>3, <2>1
<1>6. BarEnd(l, 6) = w
  <2>1. (7 * w) \div 7 = w BY <1>2
  <2> QED BY <1>1, <1>3, <2>1
<1>7. w < 7 => BarEnd(l, 0) = 0
  <2>1. w < 7 => w \div 7 = 0 BY <1>2
  <2> QED BY <1>1, <1>3, <2>1
<1> QED BY <1>1, <1>4, <1>5, <1>6, <1>7 DEF w

(* A column's bar, found from the other side. *)
LEMMA BarOfColumn ==
  ASSUME NEW l, l.width \in Nat, NEW x \in 0..l.width - 1
  PROVE  /\ (7 * (x + 1) - 1) \div l.width \in 0..6
         /\ x \in BarStart(l, (7 * (x + 1) - 1) \div l.width)
                    ..BarEnd(l, (7 * (x + 1) - 1) \div l.width) - 1
<1> DEFINE w == l.width
           a == 7 * (x + 1) - 1
           i == a \div w
           r == a % w
<1>1. w \in Nat /\ w > 0 /\ x \in Nat /\ x + 1 <= w OBVIOUS
<1> HIDE DEF w
<1>2. a \in Nat /\ a < 7 * w BY <1>1
<1> HIDE DEF a
<1>3. i \in Nat /\ r \in Nat /\ r < w /\ a = w * i + r BY <1>1, <1>2, DivRem
<1> HIDE DEF i, r
<1>4. w * i \in Nat /\ w * (i + 1) = w * i + w BY <1>1, <1>3
<1>5. i <= 6
  <2> SUFFICES ASSUME i >= 7 PROVE FALSE BY <1>3
  <2>1. 7 * w <= i * w
    <3>1. 7 \in Nat /\ 7 <= i OBVIOUS
    <3> QED BY <1>1, <1>3, <3>1, Products
  <2>2. i * w = w * i BY <1>1, <1>3
  <2> DEFINE p == w * i
  <2>3. p \in Nat /\ 7 * w <= p /\ a = p + r
    BY <1>3, <1>4, <2>1, <2>2
  <2> HIDE DEF p
  <2> QED BY <1>1, <1>2, <1>3, <2>3
<1>6. w * i <= 7 * x + 6 /\ w * (i + 1) >= 7 * x + 7
  BY <1>1, <1>3, <1>4 DEF a
<1> DEFINE b == w * i
           c == w * (i + 1)
<1>7. b \in Nat /\ c \in Nat /\ b <= 7 * x + 6 /\ c >= 7 * x + 7
  BY <1>1, <1>4, <1>6
<1> HIDE DEF b, c
<1>8. b \div 7 \in Nat /\ c \div 7 \in Nat /\ b \div 7 <= x /\ x < c \div 7
  BY <1>1, <1>7
<1>9. BarStart(l, i) = b \div 7 /\ BarEnd(l, i) = c \div 7
  BY DEF BarStart, BarEnd, b, c, w
<1>10. x \in BarStart(l, i)..BarEnd(l, i) - 1 BY <1>1, <1>8, <1>9
<1>11. i \in 0..6 BY <1>3, <1>5
<1>12. i = (7 * (x + 1) - 1) \div l.width BY DEF i, a, w
<1> QED BY <1>10, <1>11, <1>12

LEMMA ColoursPrimary ==
  \A i \in 0..6 : Primary(BAR_COLORS[i + 1])
<1>1. \A i \in 0..6 : i = 0 \/ i = 1 \/ i = 2 \/ i = 3 \/ i = 4 \/ i = 5 \/ i = 6
  OBVIOUS
<1>2. /\ BAR_COLORS[1] = <<255, 255, 255>> /\ BAR_COLORS[2] = <<255, 255, 0>>
      /\ BAR_COLORS[3] = <<0, 255, 255>> /\ BAR_COLORS[4] = <<0, 255, 0>>
      /\ BAR_COLORS[5] = <<255, 0, 255>> /\ BAR_COLORS[6] = <<255, 0, 0>>
      /\ BAR_COLORS[7] = <<0, 0, 255>>
  BY DEF BAR_COLORS
<1>3. \A a, b, c \in {0, 255} : Primary(<<a, b, c>>)
  <2> SUFFICES ASSUME NEW a \in {0, 255}, NEW b \in {0, 255}, NEW c \in {0, 255},
                      NEW k \in 1..3
               PROVE  <<a, b, c>>[k] \in {0, 255}
    BY DEF Primary
  <2>1. k = 1 \/ k = 2 \/ k = 3 OBVIOUS
  <2> QED BY <2>1
<1>4. \A k \in 1..7 : Primary(BAR_COLORS[k])
  <2> SUFFICES ASSUME NEW k \in 1..7 PROVE Primary(BAR_COLORS[k]) OBVIOUS
  <2>1. k = 1 \/ k = 2 \/ k = 3 \/ k = 4 \/ k = 5 \/ k = 6 \/ k = 7 OBVIOUS
  <2> QED BY SMTT(60), <1>2, <1>3, <2>1
<1>5. \A i \in 0..6 : i + 1 \in 1..7 OBVIOUS
<1> QED BY <1>4, <1>5
-----------------------------------------------------------------------------
(* What boot has learned of the machine, and what it has said, by the time *)
(* a call is made.                                                         *)
Painted(l, mem, i) ==
  \A x \in BarStart(l, i)..BarEnd(l, i) - 1, y \in 0..l.height - 1 :
    Shows(l, mem, x, y, Encode(l, BAR_COLORS[i + 1]))

Undrawn ==
  /\ surface = None /\ bar = 0
  /\ \A a \in DOMAIN vram : vram[a] = FirmwareByte

Drawn ==
  /\ Sound(surface) /\ InMemory(surface)
  /\ bar \in 0..7
  /\ \A a \in DOMAIN vram : a \notin PixelBytes => vram[a] = FirmwareByte
  /\ \A i \in 0..6 : i < bar => Painted(surface, vram, i)

HasSurface == {"bars", "verify", "heap", "kmain"}
Ending == {"exited", "halted"}

SurfaceInv ==
  /\ DOMAIN vram = 0..VramSize - 1
  /\ Undrawn \/ Drawn
  /\ stage \notin HasSurface \cup Ending => Undrawn
  /\ stage \in HasSurface => Drawn
  /\ stage = "bars" => bar < 7
  /\ stage \in HasSurface \ {"bars"} => bar = 7
  /\ "FRAMEBUFFER OK" \in ToSet(wire) => Drawn /\ bar = 7

Quiet == BeforeSti \cup {"collect", "map", "pl011"}

WireInv ==
  /\ stage \in Quiet => wire = <<>>
  /\ stage \in Stages \ (Quiet \cup Ending \cup {"heap", "kmain"})
       => wire = <<"BOOT OK">>
  /\ stage = "heap" => wire = <<"BOOT OK", "FRAMEBUFFER OK">>
  /\ stage = "kmain" => wire = <<"BOOT OK", "FRAMEBUFFER OK", "HEAP OK">>

FoundInv ==
  /\ machine \in Machines
  /\ X86 /\ stage \notin {"uart", "loopback", "exited"}
       => machine.uart = "good" /\ ~line
  /\ ~X86 /\ stage \notin {"collect", "map", "exited"}
       => machine.tables \in {"free", "ours"}
  /\ stage \notin BeforeSti \cup Ending \cup {"collect"} => Answered
  /\ stage \in HasSurface => FirstOf(machine.framebuffers) = {surface}
  /\ stage \in HasSurface /\ bar > 0 => surface.width >= 7

ExitInv ==
  stage = "exited" =>
    /\ ExitCode \in Defects
    /\ "BOOT OK" \in ToSet(wire) => ExitCode \in {129, 161, 64, 80}

OutcomeInv == SurfaceInv /\ WireInv /\ FoundInv /\ ExitInv
-----------------------------------------------------------------------------
(* The framebuffer that is looked at. *)
LEMMA LeastIs ==
  ASSUME NEW I, I \subseteq Nat, I # {}
  PROVE  Min(I) \in I /\ \A j \in I : Min(I) <= j
<1> DEFINE R == OpToRel(<, Nat)
<1>1. IsWellFoundedOn(R, Nat) BY NatLessThanWellFounded
<1>2. \A x, y \in Nat : x < y => <<x, y>> \in R BY DEF OpToRel
<1> HIDE DEF R
<1>3. PICK x \in I : \A y \in I : <<y, x>> \notin R BY <1>1, WFMin
<1>4. \A y \in I : x <= y
  <2> SUFFICES ASSUME NEW y \in I PROVE x <= y OBVIOUS
  <2>1. x \in Nat /\ y \in Nat OBVIOUS
  <2>2. ~(y < x) BY <1>2, <1>3, <2>1
  <2> QED BY <2>1, <2>2
<1>5. \E z \in I : \A y \in I : z =< y BY <1>3, <1>4
<1> QED BY <1>5 DEF Min

LEMMA FirstIs ==
  ASSUME NEW fbs \in Seq(Layouts)
  PROVE  /\ FirstRgb(fbs) = 0 => FirstOf(fbs) = {}
         /\ FirstRgb(fbs) # 0 => /\ FirstRgb(fbs) \in 1..Len(fbs)
                                 /\ FirstOf(fbs) = {fbs[FirstRgb(fbs)]}
<1> DEFINE I == {i \in 1..Len(fbs) : fbs[i].rgb}
           F == {i \in 1..Len(fbs) :
                   fbs[i].rgb /\ \A j \in 1..i - 1 : ~fbs[j].rgb}
           n == FirstRgb(fbs)
<1>0. Len(fbs) \in Nat OBVIOUS
<1>1. n = IF I # {} THEN Min(I) ELSE 0 BY DEF FirstRgb, SelectInSeq
<1>2. FirstOf(fbs) = {fbs[i] : i \in F} BY DEF FirstOf
<1>3. ASSUME I = {} PROVE n = 0 /\ F = {} BY <1>1, <1>3
<1>4. ASSUME I # {} PROVE n # 0 /\ n \in 1..Len(fbs) /\ F = {n}
  <2>1. I \subseteq Nat BY <1>0
  <2>2. n \in I /\ \A j \in I : n <= j BY <1>1, <1>4, <2>1, LeastIs
  <2> HIDE DEF n
  <2>3. n \in 1..Len(fbs) /\ fbs[n].rgb BY <2>2
  <2>4. n \in F
    <3> SUFFICES ASSUME NEW j \in 1..n - 1, fbs[j].rgb PROVE FALSE
      BY <2>3
    <3>1. j \in 1..Len(fbs) /\ j < n BY <1>0, <2>3
    <3>2. j \in I BY <3>1
    <3> QED BY <2>2, <2>3, <3>1, <3>2
  <2>5. ASSUME NEW i \in F PROVE i = n
    <3>1. i \in I /\ i \in Nat /\ n \in Nat BY <1>0, <2>3
    <3>2. n <= i BY <2>2, <3>1
    <3>3. n < i => n \in 1..i - 1 BY <2>3, <3>1
    <3> QED BY <2>3, <2>5, <3>1, <3>2, <3>3
  <2> QED BY <2>3, <2>4, <2>5
<1> HIDE DEF n, I, F
<1>5. F = {n} => FirstOf(fbs) = {fbs[n]} BY <1>2
<1>6. F = {} => FirstOf(fbs) = {} BY <1>2
<1> QED BY <1>3, <1>4, <1>5, <1>6 DEF n

(* What from_layout refuses is what is wrong with a layout. *)
LEMMA Verdict ==
  ASSUME NEW l \in Layouts
  PROVE  FromLayout(l) <=> ~Bad(l)
<1>1. /\ l.width \in Nat /\ l.height \in Nat /\ l.pitch \in Nat
      /\ l.bpp \in Nat
  BY DEF Layouts, Sides
<1>2. /\ l["red"] = l.red /\ l["green"] = l.green /\ l["blue"] = l.blue
      /\ l.red \in Channels /\ l.green \in Channels /\ l.blue \in Channels
  BY DEF Layouts, Sides
<1>3. ASSUME NEW c \in Channels
      PROVE  ChannelFits(c, l.bpp)
               <=> c.size # 0 /\ ChannelBits(c) \subseteq 0..l.bpp - 1
  <2>1. c.size \in Nat /\ c.shift \in Nat BY DEF Channels
  <2>2. ASSUME c.size # 0, c.shift + c.size <= l.bpp
        PROVE  ChannelBits(c) \subseteq 0..l.bpp - 1
    BY <1>1, <2>1, <2>2 DEF ChannelBits
  <2>3. ASSUME c.size # 0, ChannelBits(c) \subseteq 0..l.bpp - 1
        PROVE  c.shift + c.size <= l.bpp
    <3>1. c.shift + c.size - 1 \in ChannelBits(c)
      BY <2>1, <2>3 DEF ChannelBits
    <3>2. c.shift + c.size - 1 \in 0..l.bpp - 1 BY <2>3, <3>1
    <3> QED BY <1>1, <2>1, <3>2
  <2> QED BY <2>2, <2>3 DEF ChannelFits
<1>4. (\A c \in {l.red, l.green, l.blue} : ChannelFits(c, l.bpp))
        <=> ~\E c \in {"red", "green", "blue"} :
               \/ l[c].size = 0
               \/ ~(ChannelBits(l[c]) \subseteq 0..l.bpp - 1)
  BY <1>2, <1>3
<1>5. /\ ChannelBits(l.red) \cap ChannelBits(l.green) = {}
      /\ ChannelBits(l.green) \cap ChannelBits(l.blue) = {}
      /\ ChannelBits(l.blue) \cap ChannelBits(l.red) = {}
      <=> ~\E c, d \in {"red", "green", "blue"} :
             c # d /\ ChannelBits(l[c]) \cap ChannelBits(l[d]) # {}
  BY <1>2
<1>6. l.bpp # 0 =>
        (l.bpp % 8 = 0 /\ l.bpp <= 64 <=> l.bpp \in {8 * n : n \in 0..8})
  <2>1. ASSUME l.bpp % 8 = 0, l.bpp <= 64
        PROVE  l.bpp \in {8 * n : n \in 0..8}
    <3>1. l.bpp \div 8 \in 0..8 /\ l.bpp = 8 * (l.bpp \div 8) BY <1>1, <2>1
    <3> QED BY <3>1
  <2>2. ASSUME NEW n \in 0..8, l.bpp = 8 * n
        PROVE  l.bpp % 8 = 0 /\ l.bpp <= 64
    BY <2>2
  <2> QED BY <2>1, <2>2
<1>7. ASSUME l.width # 0, l.bpp # 0, l.bpp % 8 = 0,
             l.pitch >= l.width * (l.bpp \div 8)
      PROVE  l.pitch # 0
  <2> DEFINE n == l.bpp \div 8
  <2>1. n \in Nat /\ 1 <= n BY <1>1, <1>7
  <2>2. 1 <= l.width BY <1>1, <1>7
  <2> HIDE DEF n
  <2>3. 1 * n <= l.width * n BY <1>1, <2>1, <2>2, Products
  <2> QED BY <1>1, <1>7, <2>1, <2>3 DEF n
<1> DEFINE A == \A c \in {l.red, l.green, l.blue} : ChannelFits(c, l.bpp)
           B == /\ ChannelBits(l.red) \cap ChannelBits(l.green) = {}
                /\ ChannelBits(l.green) \cap ChannelBits(l.blue) = {}
                /\ ChannelBits(l.blue) \cap ChannelBits(l.red) = {}
           C == l.pitch >= l.width * (l.bpp \div 8)
           D == l.bpp \in {8 * n : n \in 0..8}
<1>8. FromLayout(l) <=>
        /\ l.width # 0 /\ l.height # 0 /\ l.pitch # 0 /\ l.bpp # 0
        /\ l.bpp % 8 = 0 /\ l.bpp <= 64 /\ A /\ B /\ C
  BY DEF FromLayout, BytesPerPixel
<1>9. C <=> ~(l.pitch < l.width * (l.bpp \div 8))
  <2>1. l.bpp \div 8 \in Nat BY <1>1
  <2>2. l.width * (l.bpp \div 8) \in Nat BY <1>1, <2>1
  <2> QED BY <1>1, <2>2
<1>10. ~Bad(l) <=>
         l.width # 0 /\ l.height # 0 /\ l.bpp # 0 /\ D /\ C /\ A /\ B
  BY <1>4, <1>5, <1>9 DEF Bad
<1>11. C = (l.pitch >= l.width * (l.bpp \div 8)) OBVIOUS
<1> HIDE DEF A, B, C, D
<1>12. l.bpp # 0 => (l.bpp % 8 = 0 /\ l.bpp <= 64 <=> D) BY <1>6 DEF D
<1>13. l.width # 0 /\ l.bpp # 0 /\ l.bpp % 8 = 0 /\ C => l.pitch # 0
  BY <1>7 DEF C
<1> QED BY <1>8, <1>10, <1>12, <1>13
-----------------------------------------------------------------------------
(* Drawing and reading back the bars. *)
LEMMA NoneIsNone == \A l \in Layouts : l # None
<1> SUFFICES ASSUME NEW l \in Layouts, l = None PROVE FALSE OBVIOUS
<1>1. DOMAIN l = {"rgb", "width", "height", "pitch", "bpp", "red", "green",
                  "blue"}
  BY DEF Layouts, Sides
<1>2. DOMAIN l = {} BY DEF None
<1> QED BY <1>1, <1>2

LEMMA BarsOrdered ==
  ASSUME NEW l, l.width \in Nat, NEW i \in 0..6, NEW j \in 0..6, i < j
  PROVE  BarEnd(l, i) <= BarStart(l, j)
<1> DEFINE w == l.width
           a == (i + 1) * w
           b == j * w
<1>1. w \in Nat /\ i + 1 \in Nat /\ j \in Nat /\ i + 1 <= j OBVIOUS
<1>2. a \in Nat /\ b \in Nat /\ a <= b BY <1>1, Products
<1>3. w * (i + 1) = a /\ w * j = b BY <1>1
<1> HIDE DEF w, a, b
<1>4. a \div 7 <= b \div 7 BY <1>2
<1> QED BY <1>3, <1>4 DEF BarEnd, BarStart, w

LEMMA FitsWhen ==
  ASSUME Sound(surface), NEW i \in 0..6
  PROVE  /\ surface.width >= 7 => BarFits(i)
         /\ BarFits(0) => surface.width >= 7
<1> DEFINE s == BarStart(surface, i)
           e == BarEnd(surface, i)
           w == surface.width
           h == surface.height
<1>1. w \in Nat /\ h \in Nat /\ h > 0 BY SoundLayout
<1>2. s \in Nat /\ e \in Nat /\ s <= e /\ e <= w /\ (w >= 7 => s < e)
  BY <1>1, Bars
<1>3. BarStart(surface, 0) = 0 /\ (w < 7 => BarEnd(surface, 0) = 0)
  BY <1>1, Bars
<1>4. BarFits(i) <=> e - s # 0 /\ h # 0 /\ s + (e - s) <= w /\ 0 + h <= h
  BY DEF BarFits, Inside
<1>5. BarFits(0) => BarEnd(surface, 0) - BarStart(surface, 0) # 0
  BY DEF BarFits, Inside
<1> HIDE DEF s, e, w, h
<1>6. w >= 7 => BarFits(i) BY <1>1, <1>2, <1>4
<1>7. w < 7 => ~BarFits(0) BY <1>3, <1>5
<1> QED BY <1>1, <1>6, <1>7 DEF w

(* One more bar. *)
LEMMA DrawKeeps ==
  ASSUME Drawn, bar < 7, DOMAIN vram = 0..VramSize - 1, BarFits(bar),
         DrawBar(bar), UNCHANGED surface, bar' = bar + 1
  PROVE  Drawn' /\ DOMAIN vram' = 0..VramSize - 1
<1> DEFINE l == surface
           m == vram'
           n == BytesPerPixel(l)
           s == BarStart(l, bar)
           e == BarEnd(l, bar)
           h == l.height
<1>1. Sound(l) /\ InMemory(l) /\ bar \in 0..6 BY DEF Drawn
<1>2. /\ l.width \in Nat /\ h \in Nat /\ n \in Nat
  BY <1>1, SoundLayout
<1>3. s \in Nat /\ e \in Nat /\ s <= e /\ e <= l.width BY <1>1, <1>2, Bars
<1>4. VramSize \in Nat /\ DOMAIN vram \subseteq Nat BY VramAssumption
<1>5. e - s \in Nat /\ s + (e - s) = e /\ 0 \in Nat
  <2> HIDE DEF s, e
  <2> QED BY <1>3
<1>6. m = Filled(l, vram, s, 0, e - s, h, BAR_COLORS[bar + 1])
  BY DEF DrawBar
<1>7. /\ DOMAIN m = DOMAIN vram
      /\ \A u \in s..s + (e - s) - 1, v \in 0..0 + h - 1, k \in 0..n - 1 :
           Offset(l, u, v) + k \in DOMAIN vram =>
             m[Offset(l, u, v) + k]
               = ByteOf(Encode(l, BAR_COLORS[bar + 1]), k)
      /\ \A a \in DOMAIN vram :
           (\A u \in s..s + (e - s) - 1, v \in 0..0 + h - 1, k \in 0..n - 1 :
              a # Offset(l, u, v) + k)
             => m[a] = vram[a]
  <2> DEFINE d == e - s
             c == BAR_COLORS[bar + 1]
  <2>1. s \in Nat /\ d \in Nat /\ h \in Nat /\ 0 \in Nat /\ s + d <= l.width
    BY <1>2, <1>3, <1>5
  <2>2. m = Filled(l, vram, s, 0, d, h, c) BY <1>6
  <2>3. Sound(l) /\ DOMAIN vram \subseteq Nat BY <1>1, <1>4
  <2> HIDE DEF l, m, s, d, h, c
  <2>4. FilledIn(l, m, vram, s, 0, d, h, c) BY <2>1, <2>2, <2>3, FilledIs
  <2> QED BY <2>4 DEF d, c, FilledIn
<1>8. s + (e - s) - 1 = e - 1 /\ 0 + h - 1 = h - 1 BY SMTT(60), <1>2, <1>3, <1>5
<1>9. ASSUME NEW u \in Nat, u < l.width, NEW v \in 0..h - 1, NEW k \in 0..n - 1
      PROVE  /\ Offset(l, u, v) + k \in DOMAIN vram
             /\ Offset(l, u, v) + k \in PixelBytes
  <2>1. v \in Nat /\ v < h /\ k \in Nat /\ k < n BY <1>2
  <2>2. Offset(l, u, v) + k \in DOMAIN vram BY <1>1, <1>9, <2>1, PixelMapped
  <2>3. u \in 0..l.width - 1 BY <1>2, <1>9
  <2> QED BY <2>2, <2>3 DEF PixelBytes
<1>10. ASSUME NEW a \in DOMAIN m, a \notin PixelBytes PROVE m[a] = FirmwareByte
  <2>1. ASSUME NEW u \in s..e - 1, NEW v \in 0..h - 1, NEW k \in 0..n - 1
        PROVE  a # Offset(l, u, v) + k
    <3>1. u \in Nat /\ u < l.width BY SMTT(60), <1>2, <1>3
    <3> QED BY <1>9, <1>10, <3>1
  <2>2. a \in DOMAIN vram /\ vram[a] = FirmwareByte
    BY <1>7, <1>10 DEF Drawn
  <2>3. m[a] = vram[a] BY <1>7, <1>8, <2>1, <2>2
  <2> QED BY <2>2, <2>3
<1>11. Painted(l, m, bar)
  <2> SUFFICES ASSUME NEW u \in s..e - 1, NEW v \in 0..h - 1,
                      NEW k \in 0..n - 1
               PROVE  m[Offset(l, u, v) + k]
                        = ByteOf(Encode(l, BAR_COLORS[bar + 1]), k)
    BY DEF Painted, Shows
  <2>1. u \in Nat /\ u < l.width BY <1>2, <1>3
  <2>2. Offset(l, u, v) + k \in DOMAIN vram BY <1>9, <2>1
  <2> QED BY <1>7, <1>8, <2>2
<1>12. ASSUME NEW i \in 0..6, i < bar PROVE Painted(l, m, i)
  <2>1. Painted(l, vram, i) BY <1>12 DEF Drawn
  <2>2. BarEnd(l, i) <= s /\ BarStart(l, i) \in Nat /\ BarEnd(l, i) \in Nat
    BY <1>1, <1>2, <1>12, BarsOrdered, Bars
  <2> SUFFICES ASSUME NEW x \in BarStart(l, i)..BarEnd(l, i) - 1,
                      NEW y \in 0..h - 1, NEW j \in 0..n - 1
               PROVE  m[Offset(l, x, y) + j]
                        = ByteOf(Encode(l, BAR_COLORS[i + 1]), j)
    BY DEF Painted, Shows
  <2>3. x \in Nat /\ x < s /\ x < l.width /\ y \in Nat /\ j \in Nat /\ j < n
    <3> HIDE DEF s, e, h, n
    <3> QED BY SMTT(60), <1>2, <1>3, <2>2
  <2>4. Offset(l, x, y) + j \in DOMAIN vram BY <1>9, <2>3
  <2>5. ASSUME NEW u \in s..e - 1, NEW v \in 0..h - 1, NEW k \in 0..n - 1,
               Offset(l, x, y) + j = Offset(l, u, v) + k
        PROVE  FALSE
    <3>1. u \in Nat /\ u < l.width /\ v \in Nat /\ k \in Nat /\ k < n /\ s <= u
      <4> HIDE DEF s, e, h, n
      <4> QED BY <1>2, <1>3
    <3>2. x = u BY <1>1, <2>3, <2>5, <3>1, SamePixel
    <3> HIDE DEF s
    <3> QED BY <1>3, <2>3, <3>1, <3>2
  <2>6. m[Offset(l, x, y) + j] = vram[Offset(l, x, y) + j]
    BY <1>7, <1>8, <2>4, <2>5
  <2>7. vram[Offset(l, x, y) + j] = ByteOf(Encode(l, BAR_COLORS[i + 1]), j)
    BY <2>1 DEF Painted, Shows
  <2> QED BY <2>6, <2>7
<1>13. \A i \in 0..6 : i < bar + 1 => i < bar \/ i = bar BY <1>1
<1>14. bar' \in 0..7 BY <1>1
<1>15. \A i \in 0..6 : i < bar' => Painted(surface', vram', i)
  BY <1>11, <1>12, <1>13
<1>16. \A a \in DOMAIN vram' : a \notin PixelBytes' => vram'[a] = FirmwareByte
  <2>1. PixelBytes' = PixelBytes BY DEF PixelBytes
  <2> QED BY <1>10, <2>1
<1>17. Sound(surface') /\ InMemory(surface')
  BY <1>1
<1> QED BY <1>7, <1>14, <1>15, <1>16, <1>17 DEF Drawn

(* A painted bar reads back. *)
LEMMA PaintedReads ==
  ASSUME Drawn, NEW i \in 0..6, i < bar,
         NEW x \in BarStart(surface, i)..BarEnd(surface, i) - 1,
         NEW y \in 0..surface.height - 1
  PROVE  ReadRawPixel(surface, vram, x, y) = Encode(surface, BAR_COLORS[i + 1])
<1> DEFINE l == surface
           c == Encode(l, BAR_COLORS[i + 1])
<1>1. Sound(l) /\ InMemory(l) BY DEF Drawn
<1>2. l.width \in Nat /\ l.height \in Nat /\ BytesPerPixel(l) \in Nat
      /\ BytesPerPixel(l) > 0
  BY <1>1, SoundLayout
<1>3. Shows(l, vram, x, y, c) BY DEF Drawn, Painted
<1>4. BarStart(l, i) \in Nat /\ BarEnd(l, i) \in Nat /\ BarEnd(l, i) <= l.width
  BY <1>2, Bars
<1>5. x \in Nat /\ x < l.width /\ y \in Nat /\ y < l.height
  BY <1>2, <1>4
<1>6. Offset(l, x, y) \in Int
  <2>1. 0 \in Nat /\ 0 < BytesPerPixel(l) BY <1>2
  <2> QED BY <1>1, <1>5, <2>1, PixelMapped
<1>7. c \in Nat /\ c < TwoTo(8 * BytesPerPixel(l))
  BY <1>1, ColoursPrimary, EncodeFits
<1> HIDE DEF l, c
<1>8. ReadRawPixel(l, vram, x, y) = c BY <1>2, <1>3, <1>6, <1>7, ReadBack
<1> QED BY <1>8 DEF l, c

LEMMA BarsVerify ==
  ASSUME Drawn, bar = 7, surface.width >= 7
  PROVE  VerifyColorBars
<1> SUFFICES ASSUME NEW i \in 0..6, NEW y \in SampleRows(surface)
             PROVE  ReadRawPixel(surface, vram, BarCentre(surface, i), y)
                      = Encode(surface, BAR_COLORS[i + 1])
  BY DEF VerifyColorBars
<1> DEFINE s == BarStart(surface, i)
           e == BarEnd(surface, i)
           h == surface.height
<1>1. Sound(surface) BY DEF Drawn
<1>2. surface.width \in Nat /\ h \in Nat /\ h > 0 BY <1>1, SoundLayout
<1>3. s \in Nat /\ e \in Nat /\ s < e BY <1>2, Bars
<1>4. BarCentre(surface, i) = s + (e - s) \div 2 BY DEF BarCentre
<1>5. y \in {h \div 4, h \div 2, (h * 3) \div 4} BY DEF SampleRows
<1> HIDE DEF s, e, h
<1>6. s + (e - s) \div 2 \in s..e - 1
  <2>1. PICK d \in Nat : e = s + d /\ d > 0
    <3>1. e - s \in Nat /\ e = s + (e - s) /\ e - s > 0 BY <1>3
    <3> QED BY <3>1
  <2>2. e - s = d /\ d \div 2 \in Nat /\ d \div 2 < d BY <1>3, <2>1
  <2> QED BY <1>3, <2>1, <2>2
<1>7. y \in 0..h - 1
  <2>1. /\ h \div 4 \in 0..h - 1 /\ h \div 2 \in 0..h - 1
        /\ (h * 3) \div 4 \in 0..h - 1
    BY <1>2
  <2> QED BY <1>5, <2>1
<1>8. BarCentre(surface, i)
        \in BarStart(surface, i)..BarEnd(surface, i) - 1
  BY <1>4, <1>6 DEF s, e
<1>9. i < bar OBVIOUS
<1> QED BY <1>7, <1>8, <1>9, PaintedReads DEF h

LEMMA BarsCover ==
  ASSUME Drawn, bar = 7
  PROVE  BarsFromEdgeToEdge
<1> SUFFICES ASSUME NEW x \in 0..surface.width - 1,
                    NEW y \in 0..surface.height - 1
             PROVE  ReadRawPixel(surface, vram, x, y)
                      = Encode(surface, BAR_COLORS[BarAt(x) + 1])
  BY DEF BarsFromEdgeToEdge
<1>1. surface.width \in Nat BY SoundLayout DEF Drawn
<1>2. BarAt(x) \in 0..6
      /\ x \in BarStart(surface, BarAt(x))..BarEnd(surface, BarAt(x)) - 1
  BY <1>1, BarOfColumn DEF BarAt
<1>3. BarAt(x) < bar BY <1>2
<1> QED BY <1>2, <1>3, PaintedReads
-----------------------------------------------------------------------------
(* Steps that leave something alone. *)
LEMMA SameSurface ==
  UNCHANGED drawVars => (Undrawn' <=> Undrawn) /\ (Drawn' <=> Drawn)
<1> SUFFICES ASSUME UNCHANGED drawVars
             PROVE  (Undrawn' <=> Undrawn) /\ (Drawn' <=> Drawn)
  OBVIOUS
<1>1. bar' = bar /\ surface' = surface /\ vram' = vram
  BY DEF drawVars, surfaceVars
<1>2. PixelBytes' = PixelBytes BY <1>1 DEF PixelBytes
<1> QED BY <1>1, <1>2 DEF Undrawn, Drawn

LEMMA SameMachine ==
  UNCHANGED machine =>
    /\ X86' <=> X86
    /\ Answered' <=> Answered
    /\ FirstOf(machine.framebuffers)' = FirstOf(machine.framebuffers)
BY DEF X86, Answered

LEMMA SameDefects == UNCHANGED <<machine, line>> => Defects' = Defects
BY DEF Defects, X86, Answered

LEMMA SameCode == UNCHANGED <<machine, exit>> => ExitCode' = ExitCode
BY DEF ExitCode, X86

(* The ways to be in Defects, and to be no member of it. *)
LEMMA DefectsAre ==
  /\ X86 /\ (machine.uart # "good" \/ line) => 97 \in Defects
  /\ ~X86 /\ machine.tables \notin {"free", "ours"} => 48 \in Defects
  /\ ~Answered => (IF X86 THEN 65 ELSE 32) \in Defects
  /\ (\A l \in FirstOf(machine.framebuffers) : Bad(l))
       => (IF X86 THEN 129 ELSE 64) \in Defects
  /\ (\E l \in FirstOf(machine.framebuffers) : l.width < 7)
       => (IF X86 THEN 161 ELSE 80) \in Defects
BY DEF Defects

LEMMA NoDefects ==
  ASSUME X86 => machine.uart = "good" /\ ~line,
         ~X86 => machine.tables \in {"free", "ours"},
         Answered,
         NEW l, FirstOf(machine.framebuffers) = {l}, ~Bad(l), ~(l.width < 7)
  PROVE  Defects = {}
BY DEF Defects

LEMMA Unsaid ==
  /\ "FRAMEBUFFER OK" \notin ToSet(<<>>)
  /\ "BOOT OK" \notin ToSet(<<>>)
  /\ "FRAMEBUFFER OK" \notin ToSet(<<"BOOT OK">>)
  /\ "FRAMEBUFFER OK" \notin ToSet(<<"DUMP">>)
  /\ "FRAMEBUFFER OK" \notin ToSet(<<"BOOT OK", "DUMP">>)
  /\ "FRAMEBUFFER OK" \notin ToSet(<<"BOOT INFO MISSING">>)
  /\ "BOOT OK" \notin ToSet(<<"BOOT INFO MISSING">>)
<1>1. \A x : x \notin ToSet(<<>>)
  <2>1. DOMAIN <<>> = {} OBVIOUS
  <2> QED BY <2>1 DEF ToSet
<1>2. \A a, x : x \in ToSet(<<a>>) => x = a BY DEF ToSet
<1>3. \A a, b, x : x \in ToSet(<<a, b>>) => x = a \/ x = b BY DEF ToSet
<1>4. "FRAMEBUFFER OK" \notin ToSet(<<"BOOT OK">>) BY <1>2
<1>5. "FRAMEBUFFER OK" \notin ToSet(<<"DUMP">>) BY <1>2
<1>6. "FRAMEBUFFER OK" \notin ToSet(<<"BOOT OK", "DUMP">>) BY <1>3
<1>7. "FRAMEBUFFER OK" \notin ToSet(<<"BOOT INFO MISSING">>) BY <1>2
<1>8. "BOOT OK" \notin ToSet(<<"BOOT INFO MISSING">>) BY <1>2
<1> QED BY <1>1, <1>4, <1>5, <1>6, <1>7, <1>8

(* A marker more. *)
LEMMA Appends ==
  ASSUME NEW S, NEW a \in S, NEW b \in S, NEW c \in S
  PROVE  /\ Append(<<>>, a) = <<a>>
         /\ Append(<<a>>, b) = <<a, b>>
         /\ Append(<<a, b>>, c) = <<a, b, c>>
<1>1. Append(<<>>, a) = <<a>> OBVIOUS
<1>2. Append(<<a>>, b) = <<a, b>>
  <2>1. <<a>> \in Seq(S) /\ Len(<<a>>) = 1 /\ <<a>>[1] = a OBVIOUS
  <2>2. /\ <<a, b>> \in Seq(S) /\ Len(<<a, b>>) = 2
        /\ <<a, b>>[1] = a /\ <<a, b>>[2] = b
    OBVIOUS
  <2> DEFINE s == Append(<<a>>, b)
  <2>3. s \in Seq(S) /\ Len(s) = 2 /\ s[1] = a /\ s[2] = b
    BY <2>1, AppendProperties
  <2> HIDE DEF s
  <2>4. s = <<a, b>> BY <2>2, <2>3, SeqEqual
  <2> QED BY <2>4 DEF s
<1>3. Append(<<a, b>>, c) = <<a, b, c>>
  <2>1. /\ <<a, b>> \in Seq(S) /\ Len(<<a, b>>) = 2
        /\ <<a, b>>[1] = a /\ <<a, b>>[2] = b
    OBVIOUS
  <2>2. /\ <<a, b, c>> \in Seq(S) /\ Len(<<a, b, c>>) = 3
        /\ <<a, b, c>>[1] = a /\ <<a, b, c>>[2] = b /\ <<a, b, c>>[3] = c
    OBVIOUS
  <2> DEFINE s == Append(<<a, b>>, c)
  <2>3. /\ s \in Seq(S) /\ Len(s) = 3
        /\ s[1] = a /\ s[2] = b /\ s[3] = c
    BY <2>1, AppendProperties
  <2> HIDE DEF s
  <2>4. s = <<a, b, c>> BY <2>2, <2>3, SeqEqual
  <2> QED BY <2>4 DEF s
<1> QED BY <1>1, <1>2, <1>3

LEMMA Markers ==
  /\ Append(<<>>, "BOOT OK") = <<"BOOT OK">>
  /\ Append(<<>>, "BOOT INFO MISSING") = <<"BOOT INFO MISSING">>
  /\ Append(<<>>, "DUMP") = <<"DUMP">>
  /\ Append(<<"BOOT OK">>, "DUMP") = <<"BOOT OK", "DUMP">>
  /\ Append(<<"BOOT OK">>, "FRAMEBUFFER OK") = <<"BOOT OK", "FRAMEBUFFER OK">>
  /\ Append(<<"BOOT OK", "FRAMEBUFFER OK">>, "HEAP OK")
       = <<"BOOT OK", "FRAMEBUFFER OK", "HEAP OK">>
<1> DEFINE S == {"BOOT OK", "BOOT INFO MISSING", "DUMP", "FRAMEBUFFER OK", "HEAP OK"}
<1>1. /\ "BOOT OK" \in S /\ "BOOT INFO MISSING" \in S /\ "DUMP" \in S
      /\ "FRAMEBUFFER OK" \in S /\ "HEAP OK" \in S
  OBVIOUS
<1> HIDE DEF S
<1>2. \A a, b, c \in S :
        /\ Append(<<>>, a) = <<a>>
        /\ Append(<<a>>, b) = <<a, b>>
        /\ Append(<<a, b>>, c) = <<a, b, c>>
  BY ZenonT(60), Appends
<1> QED BY ZenonT(60), <1>1, <1>2

LEMMA Machined ==
  ASSUME machine \in Machines
  PROVE  LET fbs == machine.framebuffers
             l == fbs[FirstRgb(fbs)]
         IN  /\ Qualifies(fbs) =>
                  Sound(l) /\ InMemory(l) /\ FirstOf(fbs) = {l} /\ ~Bad(l)
             /\ ~Qualifies(fbs) => \A k \in FirstOf(fbs) : Bad(k)
<1> DEFINE fbs == machine.framebuffers
           n == FirstRgb(fbs)
           l == fbs[n]
<1>1. /\ fbs \in Seq(Layouts)
      /\ \A i \in 1..Len(fbs) : FromLayout(fbs[i]) => InMemory(fbs[i])
  BY BootAssumption
<1>2. /\ n = 0 => FirstOf(fbs) = {}
      /\ n # 0 => n \in 1..Len(fbs) /\ FirstOf(fbs) = {l}
  BY <1>1, FirstIs
<1>3. Qualifies(fbs) <=> n # 0 /\ FromLayout(l) BY DEF Qualifies
<1>4. n # 0 => l \in Layouts BY <1>1, <1>2
<1> HIDE DEF fbs, n
<1>5. n # 0 => (FromLayout(l) <=> ~Bad(l)) BY <1>4, Verdict
<1>6. Qualifies(fbs) =>
        Sound(l) /\ InMemory(l) /\ FirstOf(fbs) = {l} /\ ~Bad(l)
  BY <1>1, <1>2, <1>3, <1>4, <1>5 DEF Sound
<1>7. ~Qualifies(fbs) => \A k \in FirstOf(fbs) : Bad(k)
  BY <1>2, <1>3, <1>5
<1> QED BY <1>6, <1>7 DEF fbs, n

LEMMA OutcomeStart == Init => OutcomeInv
<1> SUFFICES ASSUME Init PROVE OutcomeInv
  OBVIOUS
<1>1. stage \in {"uart", "collect"} /\ (stage = "uart" <=> X86) BY DEF Init
<1>2. Undrawn /\ DOMAIN vram = 0..VramSize - 1
  BY DEF Init, SurfaceInit, Undrawn
<1>3. wire = <<>> /\ machine \in Machines /\ line = FALSE BY DEF Init
<1>4. SurfaceInv
  BY <1>1, <1>2, <1>3, Unsaid DEF SurfaceInv, HasSurface, Ending
<1>5. WireInv
  BY <1>1, <1>3 DEF WireInv, Quiet, BeforeSti, BeforePic, BeforeIdt, BeforeGdt
<1>6. FoundInv
  BY <1>1, <1>3
     DEF FoundInv, BeforeSti, BeforePic, BeforeIdt, BeforeGdt, HasSurface, Ending
<1>7. ExitInv BY <1>1 DEF ExitInv
<1> QED BY <1>4, <1>5, <1>6, <1>7 DEF OutcomeInv

(* A call that says nothing, draws nothing and does not exit. *)
Alike(s, t) ==
  \/ s = t
  \/ s \in Quiet /\ t \in Quiet
  \/ s \in {"vbar", "brk", "gic", "framebuffer"} /\ t \in {"brk", "gic", "framebuffer"}
  \/ t = "halted"

LEMMA QuietStep ==
  ASSUME BootInv, BootInv', OutcomeInv,
         UNCHANGED <<machine, wire, drawVars>>,
         stage' = "exited" => stage = "exited" /\ UNCHANGED <<exit, line>>,
         Alike(stage, stage'),
         X86 /\ stage' \notin {"uart", "loopback", "exited"}
           => machine.uart = "good" /\ ~line',
         ~X86 /\ stage' \notin {"collect", "map", "exited"}
           => machine.tables \in {"free", "ours"},
         stage' \notin BeforeSti \cup Ending \cup {"collect"} => Answered
  PROVE  OutcomeInv'
<1> USE DEF BeforeSti, BeforePic, BeforeIdt, BeforeGdt, HasSurface, Ending, Quiet
<1>1. (Undrawn' <=> Undrawn) /\ (Drawn' <=> Drawn) BY SameSurface
<1>2. bar' = bar /\ surface' = surface /\ vram' = vram
  BY DEF drawVars, surfaceVars
<1>3. /\ X86' <=> X86
      /\ Answered' <=> Answered
      /\ FirstOf(machine.framebuffers)' = FirstOf(machine.framebuffers)
  BY SameMachine
<1>4. stage' \in Stages /\ stage \in Stages BY DEF BootInv
<1>5. SurfaceInv'
  BY <1>1, <1>2 DEF OutcomeInv, SurfaceInv, Alike
<1>6. WireInv'
  BY ZenonT(60), <1>4 DEF OutcomeInv, WireInv, Alike, Stages, OnlyAarch64, BothTargets
<1>7. FoundInv'
  BY <1>2, <1>3 DEF OutcomeInv, FoundInv, Alike
<1>8. ExitInv'
  <2> SUFFICES ASSUME stage' = "exited" PROVE ExitInv' BY DEF ExitInv
  <2>1. Defects' = Defects /\ ExitCode' = ExitCode
    BY SameDefects, SameCode
  <2> QED BY <2>1 DEF OutcomeInv, ExitInv
<1> QED BY <1>5, <1>6, <1>7, <1>8 DEF OutcomeInv
-----------------------------------------------------------------------------
(* The calls that exit or report. *)
LEMMA ExitStep ==
  ASSUME OutcomeInv, stage' = "exited", UNCHANGED <<machine, line>>,
         DOMAIN vram' = 0..VramSize - 1, Undrawn' \/ Drawn',
         "FRAMEBUFFER OK" \notin ToSet(wire'),
         ExitCode' \in Defects,
         "BOOT OK" \in ToSet(wire') => ExitCode' \in {129, 161, 64, 80}
  PROVE  OutcomeInv'
<1>1. SurfaceInv' BY DEF SurfaceInv, HasSurface, Ending
<1>2. WireInv'
  BY DEF WireInv, Quiet, BeforeSti, BeforePic, BeforeIdt, BeforeGdt, Ending
<1>3. FoundInv'
  BY DEF FoundInv, OutcomeInv, HasSurface, Ending
<1>4. ExitInv' BY SameDefects DEF ExitInv
<1> QED BY <1>1, <1>2, <1>3, <1>4 DEF OutcomeInv

LEMMA ExitCodes ==
  ASSUME stage' = "exited", UNCHANGED machine
  PROVE  /\ X86 => /\ (exit' = 48 => ExitCode' = 97)
                   /\ (exit' = 32 => ExitCode' = 65)
                   /\ (exit' = 64 => ExitCode' = 129)
                   /\ (exit' = 80 => ExitCode' = 161)
         /\ ~X86 => /\ (exit' = 48 => ExitCode' = 48)
                    /\ (exit' = 32 => ExitCode' = 32)
                    /\ (exit' = 64 => ExitCode' = 64)
                    /\ (exit' = 80 => ExitCode' = 80)
BY DEF ExitCode, X86

LEMMA ProbeStep ==
  ASSUME BootInv, BootInv', OutcomeInv, ProbeUart
  PROVE  OutcomeInv'
<1>1. /\ stage = "loopback" /\ wire' = wire
      /\ UNCHANGED <<machine, line, drawVars>>
  BY DEF ProbeUart, worldVars
<1>2. X86 BY <1>1 DEF BootInv, CpuReady, BeforeSti, BeforePic, BeforeIdt, BeforeGdt
<1>3. CASE machine.uart = "good" /\ ~line
  <2>1. stage' = "gdt" BY <1>3 DEF ProbeUart
  <2> QED
    BY <1>1, <1>2, <1>3, <2>1, QuietStep
       DEF Alike, Quiet, BeforeSti, BeforePic, BeforeIdt, BeforeGdt
<1>4. CASE ~(machine.uart = "good" /\ ~line)
  <2>1. stage' = "exited" /\ exit' = 48
    BY <1>4 DEF ProbeUart, Exit, STATUS_UART_FAULT
  <2>2. ExitCode' = 97 BY <1>1, <1>2, <2>1, ExitCodes
  <2>3. wire' = <<>>
    BY <1>1 DEF OutcomeInv, WireInv, Quiet, BeforeSti, BeforePic, BeforeIdt, BeforeGdt
  <2>4. 97 \in Defects BY <1>2, <1>4, DefectsAre
  <2>5. Undrawn' \/ Drawn' BY <1>1, SameSurface DEF OutcomeInv, SurfaceInv
  <2>6. DOMAIN vram' = 0..VramSize - 1
    BY <1>1 DEF OutcomeInv, SurfaceInv, drawVars, surfaceVars
  <2> QED BY ZenonT(60), <1>1, <2>1, <2>2, <2>3, <2>4, <2>5, <2>6, Unsaid, ExitStep
<1> QED BY <1>3, <1>4

LEMMA CollectStep ==
  ASSUME BootInv, BootInv', OutcomeInv, Collect
  PROVE  OutcomeInv'
<1>1. /\ stage = "collect"
      /\ UNCHANGED <<machine, line, drawVars>>
  BY DEF Collect, worldVars
<1>2. wire = <<>> BY <1>1 DEF OutcomeInv, WireInv, Quiet
<1>3. X86 => machine.uart = "good" /\ ~line
  BY <1>1 DEF OutcomeInv, FoundInv
<1>4. Undrawn /\ Undrawn' /\ DOMAIN vram' = 0..VramSize - 1
  BY <1>1, SameSurface
     DEF OutcomeInv, SurfaceInv, HasSurface, Ending, drawVars, surfaceVars
<1>5. CASE ~Answered
  <2>1. stage' = "exited" /\ exit' = 32
    BY <1>5 DEF Collect, Exit, STATUS_BOOT_INFO_MISSING
  <2>2. ExitCode' = IF X86 THEN 65 ELSE 32 BY <1>1, <2>1, ExitCodes
  <2>3. wire' = <<>> \/ wire' = <<"BOOT INFO MISSING">>
    BY <1>2, <1>5, Markers DEF Collect, Say, outVars
  <2>4. ExitCode' \in Defects BY <1>5, <2>2, DefectsAre
  <2>5. "FRAMEBUFFER OK" \notin ToSet(wire') /\ "BOOT OK" \notin ToSet(wire')
    BY <2>3, Unsaid
  <2> QED BY <1>1, <1>4, <2>1, <2>4, <2>5, ExitStep
<1>6. CASE Answered /\ X86
  <2>1. stage' = "framebuffer" /\ wire' = <<"BOOT OK">>
    BY <1>2, <1>6, Markers DEF Collect, Say
  <2>2. (X86' <=> X86) /\ (Answered' <=> Answered) BY <1>1, SameMachine
  <2>3. SurfaceInv'
    BY <1>4, <2>1, Unsaid DEF SurfaceInv, HasSurface, Ending
  <2>4. WireInv'
    BY <2>1 DEF WireInv, Quiet, BeforeSti, BeforePic, BeforeIdt, BeforeGdt
  <2>5. FoundInv'
    BY <1>1, <1>3, <1>6, <2>1, <2>2 DEF FoundInv, HasSurface, OutcomeInv
  <2>6. ExitInv' BY <2>1 DEF ExitInv
  <2> QED BY <2>3, <2>4, <2>5, <2>6 DEF OutcomeInv
<1>7. CASE Answered /\ ~X86
  <2>1. stage' = "map" /\ wire' = wire BY <1>7 DEF Collect, outVars
  <2> QED BY <1>1, <1>7, <2>1, QuietStep DEF Alike, Quiet
<1> QED BY <1>5, <1>6, <1>7

LEMMA MapStep ==
  ASSUME BootInv, BootInv', OutcomeInv, MapUartWindow
  PROVE  OutcomeInv'
<1>1. /\ stage = "map" /\ wire' = wire
      /\ UNCHANGED <<machine, line, drawVars>>
  BY DEF MapUartWindow, worldVars
<1>2. ~X86 BY <1>1 DEF BootInv, CpuReady, OnlyAarch64
<1>3. CASE InsertBlock(machine.tables)
  <2>1. stage' = "pl011" BY <1>3 DEF MapUartWindow
  <2>2. Answered
    BY <1>1
       DEF OutcomeInv, FoundInv, BeforeSti, BeforePic, BeforeIdt, BeforeGdt, Ending
  <2> QED
    BY <1>1, <1>2, <1>3, <2>1, <2>2, QuietStep DEF Alike, Quiet, InsertBlock
<1>4. CASE ~InsertBlock(machine.tables)
  <2>1. stage' = "exited" /\ exit' = 48
    BY <1>4 DEF MapUartWindow, Exit, STATUS_UART_FAULT
  <2>2. ExitCode' = 48 BY <1>1, <1>2, <2>1, ExitCodes
  <2>3. wire' = <<>> BY <1>1 DEF OutcomeInv, WireInv, Quiet
  <2>4. 48 \in Defects BY <1>2, <1>4, DefectsAre DEF InsertBlock
  <2>5. Undrawn' \/ Drawn' BY <1>1, SameSurface DEF OutcomeInv, SurfaceInv
  <2>6. DOMAIN vram' = 0..VramSize - 1
    BY <1>1 DEF OutcomeInv, SurfaceInv, drawVars, surfaceVars
  <2> QED BY ZenonT(60), <1>1, <2>1, <2>2, <2>3, <2>4, <2>5, <2>6, Unsaid, ExitStep
<1> QED BY <1>3, <1>4

LEMMA Pl011Step ==
  ASSUME BootInv, BootInv', OutcomeInv, InitPl011
  PROVE  OutcomeInv'
<1>1. stage = "pl011" /\ UNCHANGED <<machine, line, drawVars>>
  BY DEF InitPl011, worldVars
<1>2. ~X86 /\ Reaches(UART0_BASE)
  BY <1>1 DEF BootInv, CpuReady, OnlyAarch64, Reaches
<1>3. wire = <<>> BY <1>1 DEF OutcomeInv, WireInv, Quiet
<1>4. stage' = "vbar" /\ wire' = <<"BOOT OK">>
  BY <1>2, <1>3, Markers DEF InitPl011, Access, Say
<1>5. Undrawn' /\ DOMAIN vram' = 0..VramSize - 1
  BY <1>1, SameSurface
     DEF OutcomeInv, SurfaceInv, HasSurface, Ending, drawVars, surfaceVars
<1>6. (X86' <=> X86) /\ (Answered' <=> Answered) BY <1>1, SameMachine
<1>7. SurfaceInv' BY <1>4, <1>5, Unsaid DEF SurfaceInv, HasSurface, Ending
<1>8. WireInv'
  BY <1>4 DEF WireInv, Quiet, BeforeSti, BeforePic, BeforeIdt, BeforeGdt
<1>9. FoundInv'
  BY <1>1, <1>2, <1>4, <1>6
     DEF FoundInv, HasSurface, OutcomeInv, BeforeSti, BeforePic, BeforeIdt,
         BeforeGdt, Ending
<1>10. ExitInv' BY <1>4 DEF ExitInv
<1> QED BY <1>7, <1>8, <1>9, <1>10 DEF OutcomeInv

(* A divide error or a break, after which nothing is claimed but that no   *)
(* bars were promised.                                                     *)
LEMMA DumpStep ==
  ASSUME BootInv, BootInv', OutcomeInv, Divide \/ Break
  PROVE  OutcomeInv'
<1>1. /\ stage \in {"divide", "brk"}
      /\ UNCHANGED <<machine, line, drawVars>>
      /\ wire' = Append(wire, "DUMP")
  BY DEF Divide, Break, Say, worldVars
<1>2. stage' \in {"halted", "lost"}
  BY DEF Divide, Break, Raised
<1>3. stage' = "halted"
  BY <1>2 DEF BootInv, NeverLost
<1>4. wire \in {<<>>, <<"BOOT OK">>}
  <2>1. stage \in Stages BY DEF BootInv
  <2> QED
    BY <1>1, <2>1
       DEF OutcomeInv, WireInv, Quiet, BeforeSti, BeforePic, BeforeIdt, BeforeGdt,
           Ending
<1>5. wire' \in {<<"DUMP">>, <<"BOOT OK", "DUMP">>}
  BY <1>1, <1>4, Markers
<1>6. "FRAMEBUFFER OK" \notin ToSet(wire') BY <1>5, Unsaid
<1>7. Undrawn' /\ DOMAIN vram' = 0..VramSize - 1
  BY <1>1, SameSurface
     DEF OutcomeInv, SurfaceInv, HasSurface, Ending, drawVars, surfaceVars
<1>8. (X86' <=> X86) /\ (Answered' <=> Answered) BY <1>1, SameMachine
<1>9. SurfaceInv' BY <1>3, <1>6, <1>7 DEF SurfaceInv, HasSurface, Ending
<1>10. WireInv'
  BY <1>3 DEF WireInv, Quiet, BeforeSti, BeforePic, BeforeIdt, BeforeGdt, Ending
<1>11. FoundInv'
  BY <1>1, <1>3, <1>8 DEF FoundInv, HasSurface, OutcomeInv, Ending
<1>12. ExitInv' BY <1>3 DEF ExitInv
<1> QED BY <1>9, <1>10, <1>11, <1>12 DEF OutcomeInv

LEMMA FramebufferStep ==
  ASSUME BootInv, BootInv', OutcomeInv, InitFramebuffer
  PROVE  OutcomeInv'
<1> DEFINE fbs == machine.framebuffers
           l == fbs[FirstRgb(fbs)]
<1>1. /\ stage = "framebuffer" /\ wire' = wire
      /\ UNCHANGED <<machine, line, bar, vram>>
  BY DEF InitFramebuffer, worldVars
<1>2. machine \in Machines BY DEF OutcomeInv, FoundInv
<1>3. /\ Qualifies(fbs) =>
           Sound(l) /\ InMemory(l) /\ FirstOf(fbs) = {l} /\ ~Bad(l)
      /\ ~Qualifies(fbs) => \A k \in FirstOf(fbs) : Bad(k)
  BY <1>2, Machined
<1>4. wire = <<"BOOT OK">>
  BY <1>1
     DEF OutcomeInv, WireInv, Quiet, Stages, BothTargets, BeforeSti, BeforePic,
         BeforeIdt, BeforeGdt, Ending
<1>5. Undrawn /\ DOMAIN vram = 0..VramSize - 1
  BY <1>1 DEF OutcomeInv, SurfaceInv, HasSurface, Ending
<1>6. (X86' <=> X86) /\ (Answered' <=> Answered)
      /\ FirstOf(machine.framebuffers)' = FirstOf(machine.framebuffers)
  BY <1>1, SameMachine
<1>7. CASE Qualifies(fbs)
  <2>1. surface' = l /\ stage' = "bars" /\ bar' = 0 /\ bar = 0
    BY <1>1, <1>5, <1>7 DEF InitFramebuffer, Capture, Undrawn
  <2>2. Drawn'
    <3>1. \A a \in DOMAIN vram' : vram'[a] = FirmwareByte
      BY <1>1, <1>5 DEF Undrawn
    <3>2. \A i \in 0..6 : ~(i < bar') BY <2>1
    <3>3. bar' \in 0..7 BY <2>1
    <3>4. Sound(surface') /\ InMemory(surface') BY <1>3, <1>7, <2>1
    <3> QED BY <3>1, <3>2, <3>3, <3>4 DEF Drawn
  <2>3. SurfaceInv'
    <3>1. DOMAIN vram' = 0..VramSize - 1 BY <1>1, <1>5
    <3>2. "FRAMEBUFFER OK" \notin ToSet(wire') BY <1>1, <1>4, Unsaid
    <3>3. bar' < 7 BY <2>1
    <3> QED BY <2>1, <2>2, <3>1, <3>2, <3>3 DEF SurfaceInv, HasSurface, Ending
  <2>4. WireInv'
    BY <1>1, <1>4, <2>1
       DEF WireInv, Quiet, BeforeSti, BeforePic, BeforeIdt, BeforeGdt
  <2>5. FirstOf(machine.framebuffers)' = {surface'} BY <1>3, <1>6, <1>7, <2>1
  <2>6. FoundInv'
    BY <1>1, <1>6, <2>1, <2>5
       DEF OutcomeInv, FoundInv, BeforeSti, BeforePic, BeforeIdt, BeforeGdt,
           Ending, HasSurface
  <2>7. ExitInv' BY <2>1 DEF ExitInv
  <2> QED BY <2>3, <2>4, <2>6, <2>7 DEF OutcomeInv
<1>8. CASE ~Qualifies(fbs)
  <2>1. stage' = "exited" /\ exit' = 64 /\ surface' = surface
    BY <1>8 DEF InitFramebuffer, Capture, Exit, STATUS_FRAMEBUFFER_MISSING
  <2>2. ExitCode' = IF X86 THEN 129 ELSE 64 BY <1>1, <2>1, ExitCodes
  <2>3. ExitCode' \in Defects BY <1>3, <1>8, <2>2, DefectsAre
  <2>4. Undrawn' BY <1>1, <1>5, <2>1 DEF Undrawn
  <2>5. ExitCode' \in {129, 161, 64, 80} BY <2>2
  <2>6. "FRAMEBUFFER OK" \notin ToSet(wire') BY <1>1, <1>4, Unsaid
  <2> QED BY <1>1, <1>5, <2>1, <2>3, <2>4, <2>5, <2>6, ExitStep
<1> QED BY <1>7, <1>8

LEMMA DrawStep ==
  ASSUME BootInv, BootInv', OutcomeInv, DrawColorBars
  PROVE  OutcomeInv'
<1>1. /\ stage = "bars" /\ wire' = wire
      /\ UNCHANGED <<machine, line, surface>>
  BY DEF DrawColorBars, worldVars
<1>2. Drawn /\ bar < 7 /\ bar \in 0..6 /\ DOMAIN vram = 0..VramSize - 1
  <2>1. Drawn /\ bar < 7 /\ DOMAIN vram = 0..VramSize - 1
    BY <1>1 DEF OutcomeInv, SurfaceInv, HasSurface
  <2>2. bar \in 0..7 BY <2>1 DEF Drawn
  <2> QED BY <2>1, <2>2
<1>3. wire = <<"BOOT OK">>
  BY <1>1
     DEF OutcomeInv, WireInv, Quiet, Stages, BothTargets, BeforeSti, BeforePic,
         BeforeIdt, BeforeGdt, Ending
<1>4. Sound(surface) /\ surface.width \in Nat BY <1>2, SoundLayout DEF Drawn
<1>5. /\ surface.width >= 7 => BarFits(bar)
      /\ BarFits(0) => surface.width >= 7
  BY <1>2, <1>4, FitsWhen
<1>6. (X86' <=> X86) /\ (Answered' <=> Answered)
      /\ FirstOf(machine.framebuffers)' = FirstOf(machine.framebuffers)
  BY <1>1, SameMachine
<1>7. FirstOf(machine.framebuffers) = {surface}
      /\ (bar > 0 => surface.width >= 7)
  BY <1>1 DEF OutcomeInv, FoundInv, HasSurface
<1>8. "FRAMEBUFFER OK" \notin ToSet(wire') BY <1>1, <1>3, Unsaid
<1>9. CASE BarFits(bar)
  <2>1. /\ DrawBar(bar) /\ bar' = bar + 1
        /\ stage' = IF bar = 6 THEN "verify" ELSE "bars"
    BY <1>9 DEF DrawColorBars
  <2>2. Drawn' /\ DOMAIN vram' = 0..VramSize - 1
    BY <1>1, <1>2, <1>9, <2>1, DrawKeeps
  <2>3. surface.width >= 7 BY <1>2, <1>5, <1>7, <1>9
  <2>4. (stage' = "bars" => bar' < 7) /\ (stage' = "verify" => bar' = 7)
    BY <1>2, <2>1
  <2>5. SurfaceInv'
    BY <1>8, <2>1, <2>2, <2>4 DEF SurfaceInv, HasSurface, Ending
  <2>6. WireInv'
    BY <1>1, <1>3, <2>1
       DEF WireInv, Quiet, BeforeSti, BeforePic, BeforeIdt, BeforeGdt
  <2>7. FoundInv'
    BY <1>1, <1>6, <1>7, <2>1, <2>3
       DEF OutcomeInv, FoundInv, BeforeSti, BeforePic, BeforeIdt, BeforeGdt,
           Ending, HasSurface
  <2>8. ExitInv' BY <2>1 DEF ExitInv
  <2> QED BY <2>5, <2>6, <2>7, <2>8 DEF OutcomeInv
<1>10. CASE ~BarFits(bar)
  <2>1. stage' = "exited" /\ exit' = 80 /\ UNCHANGED drawVars
    BY <1>1, <1>10
       DEF DrawColorBars, Exit, STATUS_FRAMEBUFFER_FAULT, drawVars, surfaceVars
  <2>2. ExitCode' = IF X86 THEN 161 ELSE 80 BY <1>1, <2>1, ExitCodes
  <2>3. surface.width < 7 BY <1>4, <1>5, <1>10
  <2>4. ExitCode' \in Defects BY <1>7, <2>2, <2>3, DefectsAre
  <2>5. Drawn' /\ DOMAIN vram' = 0..VramSize - 1
    BY <1>2, <2>1, SameSurface DEF drawVars, surfaceVars
  <2>6. ExitCode' \in {129, 161, 64, 80} BY <2>2
  <2> QED BY <1>1, <1>8, <2>1, <2>4, <2>5, <2>6, ExitStep
<1> QED BY <1>9, <1>10

LEMMA VerifyStep ==
  ASSUME BootInv, BootInv', OutcomeInv, VerifyBars
  PROVE  OutcomeInv'
<1>1. stage = "verify" /\ UNCHANGED <<machine, line, drawVars>>
  BY DEF VerifyBars, worldVars
<1>2. Drawn /\ bar = 7 /\ DOMAIN vram = 0..VramSize - 1
  BY <1>1 DEF OutcomeInv, SurfaceInv, HasSurface
<1>3. FirstOf(machine.framebuffers) = {surface} /\ surface.width >= 7
  BY <1>1, <1>2 DEF OutcomeInv, FoundInv, HasSurface
<1>4. VerifyColorBars BY <1>2, <1>3, BarsVerify
<1>5. stage' = "heap" /\ wire' = Append(wire, "FRAMEBUFFER OK")
  BY <1>4 DEF VerifyBars, Say
<1>6. wire = <<"BOOT OK">>
  BY <1>1
     DEF OutcomeInv, WireInv, Quiet, Stages, BothTargets, BeforeSti, BeforePic,
         BeforeIdt, BeforeGdt, Ending
<1>7. wire' = <<"BOOT OK", "FRAMEBUFFER OK">> BY <1>5, <1>6, Markers
<1>8. Drawn' /\ bar' = 7 /\ DOMAIN vram' = 0..VramSize - 1 /\ surface' = surface
  BY <1>1, <1>2, SameSurface DEF drawVars, surfaceVars
<1>9. (X86' <=> X86) /\ (Answered' <=> Answered)
      /\ FirstOf(machine.framebuffers)' = FirstOf(machine.framebuffers)
  BY <1>1, SameMachine
<1>10. SurfaceInv' BY <1>5, <1>8 DEF SurfaceInv, HasSurface, Ending
<1>11. WireInv'
  BY <1>5, <1>7 DEF WireInv, Quiet, BeforeSti, BeforePic, BeforeIdt, BeforeGdt
<1>12. FoundInv'
  BY <1>1, <1>3, <1>5, <1>8, <1>9
     DEF OutcomeInv, FoundInv, BeforeSti, BeforePic, BeforeIdt, BeforeGdt,
         Ending, HasSurface
<1>13. ExitInv' BY <1>5 DEF ExitInv
<1> QED BY <1>10, <1>11, <1>12, <1>13 DEF OutcomeInv

LEMMA HeapStep ==
  ASSUME BootInv, BootInv', OutcomeInv, InitHeap
  PROVE  OutcomeInv'
<1>1. stage = "heap" /\ UNCHANGED <<machine, line, drawVars>>
  BY DEF InitHeap, worldVars
<1>2. Drawn /\ bar = 7 /\ DOMAIN vram = 0..VramSize - 1
  BY <1>1 DEF OutcomeInv, SurfaceInv, HasSurface
<1>3. FirstOf(machine.framebuffers) = {surface} /\ surface.width >= 7
  BY <1>1, <1>2 DEF OutcomeInv, FoundInv, HasSurface
<1>4. \/ stage' = "halted"
      \/ stage' = "kmain" /\ wire' = Append(wire, "HEAP OK")
  BY DEF InitHeap, Say
<1>5. wire = <<"BOOT OK", "FRAMEBUFFER OK">>
  BY <1>1 DEF OutcomeInv, WireInv
<1>6. stage' = "kmain" => wire' = <<"BOOT OK", "FRAMEBUFFER OK", "HEAP OK">>
  BY <1>4, <1>5, Markers
<1>7. Drawn' /\ bar' = 7 /\ DOMAIN vram' = 0..VramSize - 1 /\ surface' = surface
  BY <1>1, <1>2, SameSurface DEF drawVars, surfaceVars
<1>8. (X86' <=> X86) /\ (Answered' <=> Answered)
      /\ FirstOf(machine.framebuffers)' = FirstOf(machine.framebuffers)
  BY <1>1, SameMachine
<1>9. SurfaceInv' BY <1>4, <1>7 DEF SurfaceInv, HasSurface, Ending
<1>10. WireInv'
  BY <1>4, <1>6
     DEF WireInv, Quiet, BeforeSti, BeforePic, BeforeIdt, BeforeGdt, Ending
<1>11. FoundInv'
  BY <1>1, <1>3, <1>4, <1>7, <1>8
     DEF OutcomeInv, FoundInv, BeforeSti, BeforePic, BeforeIdt, BeforeGdt,
         Ending, HasSurface
<1>12. ExitInv' BY <1>4 DEF ExitInv
<1> QED BY <1>9, <1>10, <1>11, <1>12 DEF OutcomeInv
-----------------------------------------------------------------------------
LEMMA OutcomeStep ==
  BootInv /\ BootInv' /\ OutcomeInv /\ [Next]_vars => OutcomeInv'
<1> SUFFICES ASSUME BootInv, BootInv', OutcomeInv, [Next]_vars PROVE OutcomeInv'
  OBVIOUS
<1>1. /\ stage \in Stages
      /\ stage \in BeforeSti => X86
      /\ stage \in OnlyAarch64 => ~X86
  BY DEF BootInv, CpuReady
<1>2. /\ X86 /\ stage \notin {"uart", "loopback", "exited"}
           => machine.uart = "good" /\ ~line
      /\ ~X86 /\ stage \notin {"collect", "map", "exited"}
           => machine.tables \in {"free", "ours"}
      /\ stage \notin BeforeSti \cup Ending \cup {"collect"} => Answered
  BY DEF OutcomeInv, FoundInv
(* A step on the way to the first marker, or to the GIC. *)
<1>3. ASSUME UNCHANGED <<machine, wire, line, drawVars>>,
             \/ stage \in Quiet \ {"uart", "loopback"} /\ stage' \in Quiet
             \/ stage \in {"vbar", "gic"} /\ stage' \in {"brk", "gic", "framebuffer"}
             \/ stage' = stage /\ exit' = exit,
             ~X86 /\ stage' # stage => stage \in {"vbar", "gic"},
             X86 /\ stage' # stage => stage' \in BeforeSti \cup {"collect"}
      PROVE  OutcomeInv'
  <2>1. X86 /\ stage' \notin {"uart", "loopback", "exited"}
          => machine.uart = "good" /\ ~line'
    BY <1>2, <1>3 DEF Quiet, BeforeSti, BeforePic, BeforeIdt, BeforeGdt
  <2>2. ~X86 /\ stage' \notin {"collect", "map", "exited"}
          => machine.tables \in {"free", "ours"}
    BY <1>1, <1>2, <1>3 DEF Quiet
  <2>3. stage' \notin BeforeSti \cup Ending \cup {"collect"} => Answered
    BY <1>1, <1>2, <1>3
       DEF Quiet, BeforeSti, BeforePic, BeforeIdt, BeforeGdt, Ending
  <2>4. stage' = "exited" => stage = "exited" /\ UNCHANGED <<exit, line>>
    BY <1>3 DEF Quiet, BeforeSti, BeforePic, BeforeIdt, BeforeGdt
  <2>5. Alike(stage, stage') BY <1>3 DEF Alike
  <2> QED BY <1>3, <2>1, <2>2, <2>3, <2>4, <2>5, QuietStep
<1> USE DEF Quiet, BeforeSti, BeforePic, BeforeIdt, BeforeGdt
<1>4. CASE ProgramUart
  <2>1. /\ stage = "uart" /\ stage' = "loopback"
        /\ UNCHANGED <<machine, wire, drawVars>>
    BY <1>4 DEF ProgramUart, outVars
  <2> QED BY <1>1, <2>1, QuietStep DEF Alike
<1>5. CASE LoadGdt
  BY <1>1, <1>3, <1>5 DEF LoadGdt, outVars, worldVars
<1>6. CASE LoadIdt
  BY <1>1, <1>3, <1>6 DEF LoadIdt, outVars, worldVars
<1>7. CASE InitPit
  BY <1>1, <1>3, <1>7 DEF InitPit, outVars, worldVars
<1>8. CASE WritePic
  BY <1>3, <1>8 DEF WritePic, outVars, worldVars
<1>9. CASE ProgramPit
  BY <1>1, <1>3, <1>9 DEF ProgramPit, outVars, worldVars
<1>10. CASE FlushKeyboard
  BY <1>1, <1>3, <1>10 DEF FlushKeyboard, outVars
<1>11. CASE RevertToPicMode
  BY <1>1, <1>3, <1>11 DEF RevertToPicMode, outVars, worldVars
<1>12. CASE EnableIrqs
  BY <1>1, <1>3, <1>12 DEF EnableIrqs, outVars, worldVars
<1>13. CASE InstallVectors
  BY <1>1, <1>3, <1>13 DEF InstallVectors, outVars, worldVars, OnlyAarch64
<1>14. CASE InitGicTimer
  <2>1. stage = "gic" /\ UNCHANGED <<machine, wire, line, drawVars>>
    BY <1>14 DEF InitGicTimer, outVars, worldVars
  <2>2. ~X86 /\ stage' = "framebuffer"
    BY <1>1, <1>14, <2>1, OneGib
       DEF InitGicTimer, Access, Reaches, BootInv, CpuReady, OnlyAarch64
  <2> QED BY <1>3, <2>1, <2>2
<1>15. CASE TakeInterrupt
  <2>1. stage' = stage /\ UNCHANGED <<machine, wire, exit, line, drawVars>>
    BY <1>15, OnlyTheTimer DEF TakeInterrupt, outVars
  <2> QED BY <1>3, <2>1
<1>16. CASE TimerFires
  BY <1>3, <1>16 DEF TimerFires, outVars, worldVars
<1>17. CASE KeyPressed
  BY <1>3, <1>17 DEF KeyPressed, outVars
<1>18. CASE LineByte
  <2>1. /\ stage = "loopback" /\ stage' = "loopback"
        /\ UNCHANGED <<machine, wire, drawVars>>
    BY <1>18 DEF LineByte, outVars
  <2> QED BY <1>1, <2>1, QuietStep DEF Alike
<1>19. CASE UNCHANGED vars
  BY <1>3, <1>19 DEF vars, outVars, worldVars
<1> QED BY <1>4, <1>5, <1>6, <1>7, <1>8, <1>9, <1>10, <1>11, <1>12, <1>13,
           <1>14, <1>15, <1>16, <1>17, <1>18, <1>19, ProbeStep, CollectStep,
           MapStep, Pl011Step, DumpStep, FramebufferStep, DrawStep, VerifyStep,
           HeapStep
        DEF Next, Boot

(* The two inductive invariants of boot hold together. *)
LEMMA OutcomeHolds == Spec => [](BootInv /\ OutcomeInv)
BY BootStart, BootStep, OutcomeStart, OutcomeStep, PTL DEF Spec

(* Boot's exit codes and markers tell the truth on every set of machines:  *)
(* the code a test reads names something that is wrong with the machine, a *)
(* machine on which nothing is wrong is the only one that reaches the      *)
(* shell, and after "BOOT OK" only the framebuffer can end the boot.       *)
THEOREM CauseIsNamed == Spec => []OutcomeNamesCause
<1>1. BootInv /\ OutcomeInv => OutcomeNamesCause
  <2> SUFFICES ASSUME BootInv, OutcomeInv PROVE OutcomeNamesCause
    OBVIOUS
  <2>1. ExitInv BY DEF OutcomeInv
  <2>2. ASSUME stage = "kmain"
        PROVE  Defects = {} /\ wire = <<"BOOT OK", "FRAMEBUFFER OK", "HEAP OK">>
    <3>1. wire = <<"BOOT OK", "FRAMEBUFFER OK", "HEAP OK">>
      BY <2>2 DEF OutcomeInv, WireInv
    <3>2. Drawn /\ bar = 7 BY <2>2 DEF OutcomeInv, SurfaceInv, HasSurface
    <3>3. /\ X86 => machine.uart = "good" /\ ~line
          /\ ~X86 => machine.tables \in {"free", "ours"}
          /\ Answered
          /\ FirstOf(machine.framebuffers) = {surface}
          /\ surface.width >= 7
      BY <2>2, <3>2
         DEF OutcomeInv, FoundInv, BeforeSti, BeforePic, BeforeIdt, BeforeGdt,
             Ending, HasSurface
    <3>4. surface \in Layouts /\ ~Bad(surface)
      BY <3>2, Verdict DEF Drawn, Sound
    <3>5. ~(surface.width < 7) BY <3>3, <3>4 DEF Layouts, Sides
    <3> QED BY <3>1, <3>3, <3>4, <3>5, NoDefects
  <2> QED BY <2>1, <2>2 DEF OutcomeNamesCause, ExitInv
<1> QED BY OutcomeHolds, <1>1, PTL

(* Whatever the layout, of any depth, channels and pitch that from_layout  *)
(* accepts: no store ever leaves the pixels of the surface, and once the   *)
(* self-test has passed, every pixel reads as the colour of its bar.       *)
THEOREM SurfaceIsExact == Spec => []SurfaceExact
<1>1. OutcomeInv => SurfaceExact
  <2> SUFFICES ASSUME OutcomeInv PROVE SurfaceExact
    OBVIOUS
  <2>1. Undrawn \/ Drawn BY DEF OutcomeInv, SurfaceInv
  <2>2. PaddingUntouched
    <3>1. CASE Undrawn BY <3>1 DEF Undrawn, PaddingUntouched
    <3>2. CASE Drawn
      <4>1. surface # None BY <3>2, NoneIsNone DEF Drawn, Sound
      <4> QED BY <3>2, <4>1 DEF Drawn, PaddingUntouched
    <3> QED BY <2>1, <3>1, <3>2
  <2>3. "FRAMEBUFFER OK" \in ToSet(wire) => BarsFromEdgeToEdge
    <3> SUFFICES ASSUME "FRAMEBUFFER OK" \in ToSet(wire)
                 PROVE  BarsFromEdgeToEdge
      OBVIOUS
    <3>1. Drawn /\ bar = 7 /\ DOMAIN vram = 0..VramSize - 1
      BY DEF OutcomeInv, SurfaceInv
    <3> QED BY <3>1, BarsCover
  <2> QED BY <2>2, <2>3 DEF SurfaceExact
<1> QED BY OutcomeHolds, <1>1, PTL
=============================================================================
