-------------------------- MODULE BuildToolProofs --------------------------
(***************************************************************************)
(* Proofs about the build tool, in two parts.                              *)
(*                                                                         *)
(* Workspace, for any list of payloads and any number of changes and       *)
(* interruptions: a missing input never spoils an image; what a bootstrap, *)
(* a check and a demo that end well have established, and why a check may  *)
(* fail to boot.                                                           *)
(*                                                                         *)
(* SmokeDriver, for any number of attempts, lost keys and hasty retries:   *)
(* a step is typed into the application it is meant for; and, for three    *)
(* attempts or more, every way the driver can end has its cause.           *)
(***************************************************************************)
EXTENDS Workspace, SmokeDriver, SequenceTheorems, FiniteSetTheorems, TLAPS

(* A list of steps keeps the order of assemble: the image is created right *)
(* after its inputs were found, filled right after it was created, and     *)
(* finished right after it was filled.                                     *)
Pack == {"create", "stage", "install"}

Follows(q, op, before) ==
  \A i \in 1..Len(q) :
    q[i][1] = op => i > 1 /\ q[i - 1][1] = before /\ q[i - 1][2] = q[i][2]

Ordered(q) ==
  /\ \E S : q \in Seq(S)
  /\ Follows(q, "create", "inputs") /\ Follows(q, "stage", "create")
  /\ Follows(q, "install", "stage")

Harmless(q) ==
  /\ \E S : q \in Seq(S)
  /\ \A i \in 1..Len(q) : q[i][1] \notin Pack

(* The same of what is left of a command: nothing is asked of its first    *)
(* step, which relies on what has been done.                               *)
FollowsLater(q, op, before) ==
  \A i \in 2..Len(q) :
    q[i][1] = op => q[i - 1][1] = before /\ q[i - 1][2] = q[i][2]

Later(q) ==
  /\ \E S : q \in Seq(S)
  /\ FollowsLater(q, "create", "inputs") /\ FollowsLater(q, "stage", "create")
  /\ FollowsLater(q, "install", "stage")

ImageInv ==
  /\ Idle => todo = <<>>
  /\ Later(todo)
  /\ \A op \in Pack : Running(op) => InputsPresent(Arg)
-----------------------------------------------------------------------------
LEMMA HarmlessIsOrdered == ASSUME NEW q, Harmless(q) PROVE Ordered(q)
BY DEF Harmless, Ordered, Follows, Pack

LEMMA OneStep ==
  ASSUME NEW op, NEW x, op \notin Pack
  PROVE  Harmless(On(op, x))
<1>1. On(op, x) \in Seq({<<op, x>>}) BY DEF On
<1>2. Len(On(op, x)) = 1 /\ On(op, x)[1][1] = op BY DEF On
<1>3. \A i \in 1..Len(On(op, x)) : On(op, x)[i][1] \notin Pack
  BY <1>2
<1> QED BY <1>1, <1>3 DEF Harmless

LEMMA TwoSteps ==
  ASSUME NEW op, NEW b, op \notin Pack
  PROVE  Harmless(Both(op, b))
<1> DEFINE q == Both(op, b)
           x == <<op, <<b, "x86_64">>>>
           a == <<op, <<b, "aarch64">>>>
<1>1. q = <<x, a>> BY DEF Both
<1>2. x[1] = op /\ a[1] = op OBVIOUS
<1> HIDE DEF q, x, a
<1>3. q \in Seq({x, a}) /\ Len(q) = 2 /\ q[1] = x /\ q[2] = a BY <1>1
<1>4. \A i \in 1..Len(q) : q[i][1] \notin Pack BY <1>2, <1>3
<1>5. Harmless(q) BY <1>3, <1>4 DEF Harmless
<1> QED BY <1>5 DEF q

LEMMA HarmlessCat ==
  ASSUME NEW p, NEW q, Harmless(p), Harmless(q) PROVE Harmless(p \o q)
<1>1. PICK S, T : p \in Seq(S) /\ q \in Seq(T) BY DEF Harmless
<1>2. p \in Seq(S \cup T) /\ q \in Seq(S \cup T) BY <1>1, SeqMonotonic
<1>3. /\ p \o q \in Seq(S \cup T) /\ Len(p \o q) = Len(p) + Len(q)
      /\ \A i \in 1..Len(p) + Len(q) :
           (p \o q)[i] = IF i <= Len(p) THEN p[i] ELSE q[i - Len(p)]
  BY <1>2, ConcatProperties
<1>4. Len(p) \in Nat /\ Len(q) \in Nat BY <1>1
<1>5. ASSUME NEW i \in 1..Len(p) + Len(q)
      PROVE  (p \o q)[i][1] \notin Pack
  <2>1. CASE i <= Len(p) BY <1>3, <1>4, <2>1 DEF Harmless
  <2>2. CASE ~(i <= Len(p))
    <3>1. i - Len(p) \in 1..Len(q) BY <1>4, <2>2
    <3> QED BY <1>3, <1>4, <2>2, <3>1 DEF Harmless
  <2> QED BY <2>1, <2>2
<1> QED BY <1>3, <1>5 DEF Harmless

LEMMA OrderedCat ==
  ASSUME NEW p, NEW q, Ordered(p), Ordered(q) PROVE Ordered(p \o q)
<1>1. PICK S, T : p \in Seq(S) /\ q \in Seq(T) BY DEF Ordered
<1>2. p \in Seq(S \cup T) /\ q \in Seq(S \cup T) BY <1>1, SeqMonotonic
<1>3. /\ p \o q \in Seq(S \cup T) /\ Len(p \o q) = Len(p) + Len(q)
      /\ \A i \in 1..Len(p) + Len(q) :
           (p \o q)[i] = IF i <= Len(p) THEN p[i] ELSE q[i - Len(p)]
  BY <1>2, ConcatProperties
<1>4. Len(p) \in Nat /\ Len(q) \in Nat BY <1>1
<1>5. ASSUME NEW op, NEW before, Follows(p, op, before), Follows(q, op, before),
             NEW i \in 1..Len(p) + Len(q), (p \o q)[i][1] = op
      PROVE  /\ i > 1 /\ (p \o q)[i - 1][1] = before
             /\ (p \o q)[i - 1][2] = (p \o q)[i][2]
  <2>1. CASE i <= Len(p)
    <3>1. p[i][1] = op /\ i \in 1..Len(p) BY <1>3, <1>4, <1>5, <2>1
    <3>2. i > 1 /\ p[i - 1][1] = before /\ p[i - 1][2] = p[i][2]
      BY <1>5, <3>1 DEF Follows
    <3>3. (p \o q)[i - 1] = p[i - 1] /\ (p \o q)[i] = p[i]
      BY <1>3, <1>4, <2>1, <3>2
    <3> QED BY <3>2, <3>3
  <2>2. CASE ~(i <= Len(p))
    <3> DEFINE j == i - Len(p)
    <3>1. q[j][1] = op /\ j \in 1..Len(q) BY <1>3, <1>4, <1>5, <2>2
    <3>2. j > 1 /\ q[j - 1][1] = before /\ q[j - 1][2] = q[j][2]
      BY <1>5, <3>1 DEF Follows
    <3>3. i - 1 \in 1..Len(p) + Len(q) /\ ~(i - 1 <= Len(p))
          /\ (i - 1) - Len(p) = j - 1 /\ i > 1
      BY <1>4, <3>1, <3>2
    <3>4. (p \o q)[i - 1] = q[j - 1] /\ (p \o q)[i] = q[j]
      BY <1>3, <1>4, <2>2, <3>3
    <3> QED BY <3>2, <3>3, <3>4
  <2> QED BY <2>1, <2>2
<1>6. /\ Follows(p \o q, "create", "inputs")
      /\ Follows(p \o q, "stage", "create")
      /\ Follows(p \o q, "install", "stage")
  BY SMTT(60), <1>3, <1>5 DEF Follows, Ordered
<1> QED BY <1>3, <1>6 DEF Ordered
-----------------------------------------------------------------------------
(* What is left after a step.                                              *)
LEMMA OrderedIsLater ==
  ASSUME NEW q, Ordered(q)
  PROVE  Later(q) /\ (q # <<>> => Head(q)[1] \notin Pack)
<1>1. PICK S : q \in Seq(S) BY DEF Ordered
<1>2. Later(q) BY <1>1 DEF Ordered, Later, Follows, FollowsLater
<1>3. ASSUME q # <<>> PROVE Head(q) = q[1] /\ 1 \in 1..Len(q)
  BY <1>1, <1>3
<1>4. q # <<>> => Head(q)[1] \notin Pack
  BY <1>3 DEF Ordered, Follows, Pack
<1> QED BY <1>2, <1>4

LEMMA TailOrder ==
  ASSUME NEW q, Later(q), q # <<>>
  PROVE  /\ Later(Tail(q))
         /\ Tail(q) # <<>> =>
              /\ Head(Tail(q))[1] = "create" =>
                   Head(q)[1] = "inputs" /\ Head(q)[2] = Head(Tail(q))[2]
              /\ Head(Tail(q))[1] = "stage" =>
                   Head(q)[1] = "create" /\ Head(q)[2] = Head(Tail(q))[2]
              /\ Head(Tail(q))[1] = "install" =>
                   Head(q)[1] = "stage" /\ Head(q)[2] = Head(Tail(q))[2]
         /\ Head(q)[1] \notin {"inputs", "create", "stage"} => Ordered(Tail(q))
<1> DEFINE t == Tail(q)
<1>1. PICK S : q \in Seq(S) BY DEF Later
<1>2. /\ t \in Seq(S) /\ Len(t) = Len(q) - 1 /\ Len(q) \in Nat
      /\ \A i \in 1..Len(t) : t[i] = q[i + 1]
      /\ Head(q) = q[1]
  BY <1>1
<1>3. ASSUME NEW op, NEW before, FollowsLater(q, op, before)
      PROVE  /\ FollowsLater(t, op, before)
             /\ t # <<>> /\ Head(t)[1] = op =>
                  Head(q)[1] = before /\ Head(q)[2] = Head(t)[2]
             /\ Head(q)[1] # before => Follows(t, op, before)
  <2>1. ASSUME NEW i \in 1..Len(t), t[i][1] = op
        PROVE  q[i][1] = before /\ q[i][2] = t[i][2]
    <3>1. i + 1 \in 2..Len(q) /\ (i + 1) - 1 = i /\ q[i + 1][1] = op
      BY <1>2, <2>1
    <3>2. q[(i + 1) - 1][1] = before /\ q[(i + 1) - 1][2] = q[i + 1][2]
      BY <1>3, <3>1 DEF FollowsLater
    <3> QED BY <1>2, <3>1, <3>2
  <2>2. ASSUME NEW i \in 2..Len(t) PROVE i - 1 \in 1..Len(t) /\ t[i - 1] = q[i]
    BY <1>2
  <2>3. FollowsLater(t, op, before) BY <2>1, <2>2, <1>2 DEF FollowsLater
  <2>4. ASSUME t # <<>> PROVE 1 \in 1..Len(t) /\ Head(t) = t[1] BY <1>2, <2>4
  <2>5. t # <<>> /\ Head(t)[1] = op => Head(q)[1] = before /\ Head(q)[2] = Head(t)[2]
    BY <2>1, <2>4, <1>2
  <2>6. ASSUME Head(q)[1] # before PROVE Follows(t, op, before)
    <3>1. ASSUME NEW i \in 1..Len(t), t[i][1] = op
          PROVE  i > 1 /\ t[i - 1][1] = before /\ t[i - 1][2] = t[i][2]
      <4>1. i # 1 BY <2>1, <2>6, <3>1, <1>2
      <4>2. i \in 2..Len(t) BY <4>1, <3>1, <1>2
      <4> QED BY <2>1, <2>2, <3>1, <4>2
    <3> QED BY <3>1 DEF Follows
  <2> QED BY <2>3, <2>5, <2>6
<1> HIDE DEF t
<1>4. Later(t) BY <1>2, <1>3 DEF Later
<1>5. Head(q)[1] \notin {"inputs", "create", "stage"} => Ordered(t)
  BY <1>2, <1>3 DEF Later, Ordered
<1>6. t # <<>> =>
        /\ Head(t)[1] = "create" =>
             Head(q)[1] = "inputs" /\ Head(q)[2] = Head(t)[2]
        /\ Head(t)[1] = "stage" =>
             Head(q)[1] = "create" /\ Head(q)[2] = Head(t)[2]
        /\ Head(t)[1] = "install" =>
             Head(q)[1] = "stage" /\ Head(q)[2] = Head(t)[2]
  BY <1>3 DEF Later
<1> QED BY <1>4, <1>5, <1>6 DEF t
-----------------------------------------------------------------------------
(* Every command keeps the order, whatever files there are.                *)
LEMMA NoSteps == Harmless(<<>>)
<1>1. <<>> \in Seq({}) /\ Len(<<>>) = 0 OBVIOUS
<1> QED BY <1>1 DEF Harmless

LEMMA CopiesAreHarmless ==
  /\ Harmless(CopyPayloads) /\ Harmless(Copy(Tool)) /\ Harmless(Copy("edk2"))
<1> DEFINE q == CopyPayloads
           n == 2 * Len(Payloads)
           S == {<<"open", f>> : f \in {Payloads[j] : j \in 1..Len(Payloads)}}
                  \cup {<<"fill", f>> : f \in {Payloads[j] : j \in 1..Len(Payloads)}}
<1>1. Len(Payloads) \in Nat /\ n \in Nat BY WorkspaceAssumption
<1>2. ASSUME NEW i \in 1..n PROVE q[i] \in S /\ q[i][1] \notin Pack
  <2>1. CASE i % 2 = 1
    <3>1. q[i] = <<"open", Payloads[(i + 1) \div 2]>> BY <1>2, <2>1 DEF CopyPayloads
    <3>2. (i + 1) \div 2 \in 1..Len(Payloads) BY <1>1, <1>2, <2>1
    <3> QED BY <3>1, <3>2 DEF Pack
  <2>2. CASE ~(i % 2 = 1)
    <3>1. q[i] = <<"fill", Payloads[i \div 2]>> BY <1>2, <2>2 DEF CopyPayloads
    <3>2. i \div 2 \in 1..Len(Payloads) BY <1>1, <1>2, <2>2
    <3> QED BY <3>1, <3>2 DEF Pack
  <2> QED BY <2>1, <2>2
<1>3. q = [i \in 1..n |-> q[i]] BY DEF CopyPayloads
<1> HIDE DEF q, n, S
<1>4. q \in Seq(S) /\ Len(q) = n BY <1>1, <1>2, <1>3
<1>5. Harmless(q) BY <1>2, <1>4 DEF Harmless
<1>6. \A f : Harmless(On("open", f)) /\ Harmless(On("fill", f)) BY OneStep DEF Pack
<1>7. \A f : Harmless(Copy(f)) BY <1>6, HarmlessCat DEF Copy
<1> QED BY <1>5, <1>7 DEF q

LEMMA MaterializeIsHarmless == Harmless(Materialize)
<1>1. /\ Harmless(Do("fetch")) /\ Harmless(Do("compile")) /\ Harmless(Do("record"))
  BY OneStep DEF Do, On, Pack
<1>2. Harmless(Do("fetch") \o CopyPayloads) BY <1>1, CopiesAreHarmless, HarmlessCat
<1>3. Harmless(Do("fetch") \o CopyPayloads \o Do("compile"))
  BY <1>1, <1>2, HarmlessCat
<1> QED BY <1>1, <1>3, HarmlessCat DEF Materialize

LEMMA OneMore ==
  ASSUME NEW S, NEW q \in Seq(S), NEW x \in S
  PROVE  /\ q \o <<x>> \in Seq(S) /\ Len(q \o <<x>>) = Len(q) + 1
         /\ \A i \in 1..Len(q) : (q \o <<x>>)[i] = q[i]
         /\ (q \o <<x>>)[Len(q) + 1] = x
<1>1. <<x>> \in Seq(S) /\ Len(<<x>>) = 1 /\ <<x>>[1] = x OBVIOUS
<1>2. Len(q) \in Nat /\ 1 \in Nat /\ ~(Len(q) + 1 <= Len(q)) /\ Len(q) + 1 - Len(q) = 1
  OBVIOUS
<1> QED BY <1>1, <1>2, ConcatProperties

LEMMA AssembleIsOrdered == ASSUME NEW b PROVE Ordered(Assemble(b))
<1> DEFINE S == {"inputs", "create", "stage", "install", "validate"} \X {b}
           q1 == On("inputs", b)
           q2 == q1 \o On("create", b)
           q3 == q2 \o On("stage", b)
           q4 == q3 \o On("install", b)
           q5 == q4 \o On("validate", b)
<1>1. /\ <<"inputs", b>> \in S /\ <<"create", b>> \in S /\ <<"stage", b>> \in S
      /\ <<"install", b>> \in S /\ <<"validate", b>> \in S
  OBVIOUS
<1>2. q5 = Assemble(b) BY DEF Assemble
<1> HIDE DEF S
<1>0. ASSUME NEW q, NEW op, q \in Seq(S), <<op, b>> \in S
      PROVE  /\ q \o On(op, b) \in Seq(S) /\ Len(q \o On(op, b)) = Len(q) + 1
             /\ \A i \in 1..Len(q) : (q \o On(op, b))[i] = q[i]
             /\ (q \o On(op, b))[Len(q) + 1] = <<op, b>>
  BY <1>0, OneMore, ZenonT(60) DEF On
<1>3. q1 \in Seq(S) /\ Len(q1) = 1 /\ q1[1] = <<"inputs", b>> BY <1>1 DEF On
<1> HIDE DEF q1
<1>4. /\ q2 \in Seq(S) /\ Len(q2) = 2
      /\ q2[1] = <<"inputs", b>> /\ q2[2] = <<"create", b>>
  <2> DEFINE r == q1 \o On("create", b)
  <2>1. /\ r \in Seq(S) /\ Len(r) = Len(q1) + 1
        /\ \A i \in 1..Len(q1) : r[i] = q1[i]
        /\ r[Len(q1) + 1] = <<"create", b>>
    BY <1>0, <1>1, <1>3, Zenon
  <2>2. r = q2 OBVIOUS
  <2> HIDE DEF r
  <2> QED BY <1>3, <2>1, <2>2
<1> HIDE DEF q2
<1>5. /\ q3 \in Seq(S) /\ Len(q3) = 3
      /\ q3[1] = <<"inputs", b>> /\ q3[2] = <<"create", b>> /\ q3[3] = <<"stage", b>>
  <2> DEFINE r == q2 \o On("stage", b)
  <2>1. /\ r \in Seq(S) /\ Len(r) = Len(q2) + 1
        /\ \A i \in 1..Len(q2) : r[i] = q2[i]
        /\ r[Len(q2) + 1] = <<"stage", b>>
    BY <1>0, <1>1, <1>4, Zenon
  <2>2. r = q3 OBVIOUS
  <2> HIDE DEF r
  <2> QED BY <1>4, <2>1, <2>2
<1> HIDE DEF q3
<1>6. /\ q4 \in Seq(S) /\ Len(q4) = 4
      /\ q4[1] = <<"inputs", b>> /\ q4[2] = <<"create", b>> /\ q4[3] = <<"stage", b>>
      /\ q4[4] = <<"install", b>>
  <2> DEFINE r == q3 \o On("install", b)
  <2>1. /\ r \in Seq(S) /\ Len(r) = Len(q3) + 1
        /\ \A i \in 1..Len(q3) : r[i] = q3[i]
        /\ r[Len(q3) + 1] = <<"install", b>>
    BY <1>0, <1>1, <1>5, Zenon
  <2>2. r = q4 OBVIOUS
  <2> HIDE DEF r
  <2> QED BY SMTT(60), <1>5, <2>1, <2>2
<1> HIDE DEF q4
<1>7. /\ q5 \in Seq(S) /\ Len(q5) = 5
      /\ q5[1] = <<"inputs", b>> /\ q5[2] = <<"create", b>> /\ q5[3] = <<"stage", b>>
      /\ q5[4] = <<"install", b>> /\ q5[5] = <<"validate", b>>
  <2> DEFINE r == q4 \o On("validate", b)
  <2>1. /\ r \in Seq(S) /\ Len(r) = Len(q4) + 1
        /\ \A i \in 1..Len(q4) : r[i] = q4[i]
        /\ r[Len(q4) + 1] = <<"validate", b>>
    BY <1>0, <1>1, <1>6, Zenon
  <2>2. r = q5 OBVIOUS
  <2> HIDE DEF r
  <2> QED BY SMTT(60), <1>6, <2>1, <2>2
<1> HIDE DEF q5
<1>8. \A i \in 1..5 : i = 1 \/ i = 2 \/ i = 3 \/ i = 4 \/ i = 5 OBVIOUS
<1>9. Follows(q5, "create", "inputs") BY <1>7, <1>8 DEF Follows
<1>10. Follows(q5, "stage", "create") BY <1>7, <1>8 DEF Follows
<1>11. Follows(q5, "install", "stage") BY <1>7, <1>8 DEF Follows
<1>12. Ordered(q5) BY <1>7, <1>9, <1>10, <1>11 DEF Ordered
<1> QED BY <1>2, <1>12

LEMMA CommandsAreOrdered == ASSUME NEW c \in Commands PROVE Ordered(Steps(c))
<1>1. \A b : Ordered(Both("cargo", b)) /\ Ordered(Both("boot", b))
  BY TwoSteps, HarmlessIsOrdered DEF Pack
<1>2. Ordered(<<>>) BY NoSteps, HarmlessIsOrdered
<1>3. CASE c = "bootstrap"
  <2> DEFINE M == IF AlreadyPresent THEN <<>> ELSE Materialize
  <2>1. Harmless(M) BY NoSteps, MaterializeIsHarmless
  <2>2. /\ Harmless(Do("toolchain")) /\ Harmless(Do("native"))
        /\ Harmless(Do("firmware"))
    BY OneStep DEF Do, On, Pack
  <2>3. Steps(c) = Do("toolchain") \o Do("native") \o M \o Do("firmware")
    BY <1>3 DEF Steps, Runs
  <2> HIDE DEF M
  <2>4. Harmless(Do("toolchain") \o Do("native")) BY <2>2, HarmlessCat
  <2>5. Harmless(Do("toolchain") \o Do("native") \o M) BY <2>1, <2>4, HarmlessCat
  <2>6. Harmless(Steps(c)) BY <2>2, <2>3, <2>5, HarmlessCat
  <2> QED BY <2>6, HarmlessIsOrdered
<1>4. CASE c = "build"
  <2>1. Steps(c) = Both("cargo", "kernel") BY <1>4 DEF Steps, Runs
  <2> QED BY <1>1, <2>1
<1>5. CASE c = "build-image"
  <2>1. Steps(c) = Assemble("kernel") BY <1>5 DEF Steps, Runs
  <2> QED BY <2>1, AssembleIsOrdered
<1>6. CASE c \in Runs
  <2> DEFINE M == IF IsImage("kernel") THEN <<>> ELSE Assemble("kernel")
             B == On("boot", <<"kernel", RunTarget(c)>>)
  <2>1. Ordered(M) BY <1>2, AssembleIsOrdered
  <2>2. Ordered(B) BY OneStep, HarmlessIsOrdered DEF Pack
  <2>3. Steps(c) = M \o B BY <1>6 DEF Steps, Runs
  <2> HIDE DEF M, B
  <2> QED BY <2>1, <2>2, <2>3, OrderedCat
<1>7. ASSUME NEW b PROVE Ordered(Both("cargo", b) \o Assemble(b) \o Both("boot", b))
  <2>1. Ordered(Both("cargo", b) \o Assemble(b))
    BY <1>1, AssembleIsOrdered, OrderedCat
  <2> QED BY <1>1, <2>1, OrderedCat
<1>8. CASE c = "check"
  <2>1. Steps(c) = Both("cargo", "kernel") \o Assemble("kernel") \o Both("boot", "kernel")
    BY <1>8 DEF Steps, Runs
  <2> QED BY <1>7, <2>1
<1>9. CASE c = "demo"
  <2>1. Steps(c) = Both("cargo", "demo") \o Assemble("demo") \o Both("boot", "demo")
    BY <1>9 DEF Steps, Runs
  <2> QED BY <1>7, <2>1
<1>10. CASE c = "clean"
  <2>1. Steps(c) = On("remove", "target") \o On("remove", "build")
    BY <1>10 DEF Steps, Runs
  <2>2. Harmless(On("remove", "target")) /\ Harmless(On("remove", "build"))
    BY OneStep DEF Pack
  <2> QED BY <2>1, <2>2, HarmlessCat, HarmlessIsOrdered
<1> QED BY <1>3, <1>4, <1>5, <1>6, <1>8, <1>9, <1>10 DEF Commands
-----------------------------------------------------------------------------
(* The invariant.                                                          *)
LEMMA ImageInvInit == Init => ImageInv
<1>1. Ordered(<<>>) BY NoSteps, HarmlessIsOrdered
<1> QED BY <1>1, OrderedIsLater DEF Init, ImageInv, Idle, Running

(* A step that leaves an ordered list and no command without its steps.    *)
LEMMA OrderedStep ==
  ASSUME Idle' => todo' = <<>>, Ordered(todo')
  PROVE  ImageInv'
<1>1. Later(todo') /\ (todo' # <<>> => Head(todo')[1] \notin Pack)
  BY OrderedIsLater
<1> QED BY <1>1 DEF ImageInv, Running

LEMMA PlainStep ==
  ASSUME ImageInv, todo # <<>>, Head(todo)[1] \notin {"inputs", "create", "stage"},
         NEW q, Harmless(q)
  PROVE  Ordered(q \o Tail(todo)) /\ Ordered(Tail(todo))
BY TailOrder, HarmlessIsOrdered, OrderedCat DEF ImageInv

(* Three steps of one assembly in a row: what the first found holds for    *)
(* the next, as long as nothing it looked at changes.                      *)
LEMMA AssemblyOn ==
  ASSUME ImageInv, todo # <<>>, Onward, InputsPresent(Arg),
         UNCHANGED <<ready, file, elf>>
  PROVE  ImageInv'
<1>1. host' = host /\ todo' = Tail(todo) /\ name' = name BY DEF Onward, Kept
<1>2. Later(todo') BY <1>1, TailOrder DEF ImageInv
<1>3. ASSUME NEW op \in Pack, Running(op)' PROVE Arg' = Arg
  <2>1. todo' # <<>> /\ Head(todo')[1] \in Pack BY <1>3 DEF Running
  <2>2. Head(todo')[2] = Head(todo)[2]
    BY <1>1, <2>1, TailOrder DEF ImageInv, Pack
  <2> QED BY <2>2 DEF Arg
<1>4. \A b : InputsPresent(b)' = InputsPresent(b)
  BY <1>1 DEF InputsPresent, FilesThere, LimineTool, IsFile
<1>5. ASSUME NEW op \in Pack, Running(op)' PROVE InputsPresent(Arg)'
  <2>1. InputsPresent(Arg') BY <1>3, <1>5
  <2> QED BY <1>1, <2>1 DEF InputsPresent, FilesThere, LimineTool, IsFile
<1>6. Idle' => todo' = <<>> BY <1>1 DEF ImageInv, Idle
<1> QED BY <1>2, <1>5, <1>6 DEF ImageInv

LEMMA ImageInvNext == ImageInv /\ [Next]_vars => ImageInv'
<1> SUFFICES ASSUME ImageInv, [Next]_vars PROVE ImageInv' OBVIOUS
<1>0. Ordered(<<>>) BY NoSteps, HarmlessIsOrdered
<1>1. ASSUME NEW c \in Commands, Start(c) PROVE ImageInv'
  <2>1. Ordered(todo') BY <1>1, CommandsAreOrdered DEF Start
  <2>2. ~Idle' BY <1>1 DEF Start, Idle, Commands, Runs
  <2> QED BY <2>1, <2>2, OrderedStep
<1>2. CASE Finish BY <1>0, <1>2, OrderedStep DEF Finish
<1>3. ASSUME NEW how, End(how) PROVE ImageInv'
  BY <1>0, <1>3, OrderedStep DEF End
<1>4. CASE Stop BY <1>3, <1>4 DEF Stop
<1>5. ASSUME Onward, todo # <<>>, Head(todo)[1] \notin {"inputs", "create", "stage"}
      PROVE  ImageInv'
  <2>1. Ordered(todo') BY <1>5, PlainStep, NoSteps DEF Onward
  <2>2. Idle' => todo' = <<>> BY <1>5 DEF Onward, Kept, ImageInv, Idle
  <2> QED BY <2>1, <2>2, OrderedStep
<1>6. CASE Install BY <1>5, <1>6 DEF Install, Running
<1>7. CASE Fetch BY <1>5, <1>7 DEF Fetch, Running
<1>8. CASE OpenFile BY <1>5, <1>8 DEF OpenFile, Running
<1>9. CASE FillFile BY <1>5, <1>9 DEF FillFile, Running
<1>10. ASSUME NEW q, Harmless(q), todo # <<>>, Kept,
              Head(todo)[1] \notin {"inputs", "create", "stage"},
              todo' = q \o Tail(todo)
       PROVE  ImageInv'
  <2>1. Ordered(todo') BY <1>10, PlainStep
  <2>2. Idle' => todo' = <<>> BY <1>10 DEF Kept, ImageInv, Idle
  <2> QED BY <2>1, <2>2, OrderedStep
<1>11. CASE Compile
  BY <1>10, <1>11, NoSteps, CopiesAreHarmless DEF Compile, Running
<1>12. CASE StageFirmware
  BY <1>10, <1>12, NoSteps, CopiesAreHarmless DEF StageFirmware, Running
<1>13. CASE Record BY <1>5, <1>13 DEF Record, Running
<1>14. CASE Cargo BY <1>3, <1>5, <1>14 DEF Cargo, Running, Refuse
<1>15. CASE FindInputs
  <2>1. CASE InputsPresent(Arg)
    BY <1>15, <2>1, AssemblyOn DEF FindInputs, Running, tree
  <2>2. CASE ~InputsPresent(Arg) BY <1>3, <1>15, <2>2 DEF FindInputs, Refuse
  <2> QED BY <2>1, <2>2
<1>16. ASSUME NEW op \in Pack, NEW b, NEW im, ImageStep(op, b, im) PROVE ImageInv'
  BY <1>16, AssemblyOn DEF ImageStep, ImageInv, Running
<1>17. ASSUME NEW b \in Builds, CreateImage(b) \/ StageFiles(b) \/ InstallBios(b)
       PROVE  ImageInv'
  BY <1>16, <1>17 DEF CreateImage, StageFiles, InstallBios, Pack
<1>18. CASE AssemblyFails BY <1>3, <1>18 DEF AssemblyFails, Refuse
<1>19. CASE Validate BY <1>5, <1>19 DEF Validate, Running
<1>20. CASE Boots BY <1>3, <1>5, <1>20 DEF Boots, Running, Refuse
<1>21. CASE RemoveTree BY <1>5, <1>21 DEF RemoveTree, Running
<1>22. CASE UserChanges
  <2>1. todo' = <<>> BY <1>22 DEF UserChanges, ImageInv, command
  <2> QED BY <1>0, <2>1, OrderedStep
<1>23. CASE UNCHANGED vars
  <2>1. /\ todo' = todo /\ name' = name /\ host' = host
        /\ file' = file /\ elf' = elf /\ ready' = ready
    BY <1>23 DEF vars, command
  <2> QED BY <2>1 DEF ImageInv, Idle, Running, Arg, InputsPresent, FilesThere, LimineTool,
    IsFile
<1> QED
  BY <1>1, <1>2, <1>4, <1>6, <1>7, <1>8, <1>9, <1>11, <1>12, <1>13, <1>14, <1>15,
     <1>17, <1>18, <1>19, <1>20, <1>21, <1>22, <1>23 DEF Next

(* A command whose image is truncated and not finished is about to fill or *)
(* to finish it.                                                           *)
LEMMA Midway ==
  ASSUME ImageInv, Ahead("install"), ~Ahead("create")
  PROVE  todo # <<>> /\ Head(todo)[1] \in {"stage", "install"}
<1>1. PICK i \in 1..Len(todo) : todo[i][1] = "install" BY DEF Ahead
<1>2. PICK S : todo \in Seq(S) BY DEF ImageInv, Later
<1>3. todo # <<>> /\ Head(todo) = todo[1] BY <1>1, <1>2
<1>4. CASE i = 1 BY <1>1, <1>3, <1>4
<1>5. CASE i # 1
  <2>1. i \in 2..Len(todo) BY <1>1, <1>2, <1>5
  <2>2. todo[i - 1][1] = "stage" BY <1>1, <2>1 DEF ImageInv, Later, FollowsLater
  <2>3. CASE i - 1 = 1 BY <1>3, <2>2, <2>3
  <2>4. CASE i - 1 # 1
    <3>1. i - 1 \in 2..Len(todo) /\ (i - 1) - 1 \in 1..Len(todo) BY <1>2, <2>1, <2>4
    <3>2. todo[(i - 1) - 1][1] = "create"
      BY <2>2, <3>1 DEF ImageInv, Later, FollowsLater
    <3> QED BY <3>1, <3>2 DEF Ahead
  <2> QED BY <2>3, <2>4
<1> QED BY <1>4, <1>5
-----------------------------------------------------------------------------
(* Nothing is missing once the image is truncated, for any number of       *)
(* payloads and of versions and however often commands fail or are cut     *)
(* short: a command refused half-way through an assembly had a tool that   *)
(* was cut short (image.rs assemble).                                      *)
THEOREM RefusalSparesImage == Spec => RefusalKeepsImage
<1>1. ASSUME ImageInv, [Next]_vars, verdict' # verdict, verdict'[2] = "refused",
             Ahead("install"), ~Ahead("create")
      PROVE  file[Tool] = Torn
  <2>1. todo # <<>> /\ Head(todo)[1] \in {"stage", "install"} BY <1>1, Midway
  <2>2. CASE (\E c \in Commands : Start(c)) \/ UserChanges
    BY <1>1, <2>2 DEF Start, UserChanges, NoVerdict
  <2>3. CASE Finish \/ Stop BY <1>1, <2>3 DEF Finish, Stop, End
  <2>4. CASE Install \/ Fetch \/ OpenFile \/ FillFile \/ Compile \/ Record
             \/ StageFirmware \/ Validate \/ RemoveTree
    BY <1>1, <2>4 DEF Install, Fetch, OpenFile, FillFile, Compile, Record,
      StageFirmware, Validate, RemoveTree, Onward, Kept
  <2>5. CASE Cargo \/ FindInputs \/ Boots
    BY <2>1, <2>5 DEF Cargo, FindInputs, Boots, Running
  <2>6. CASE \E b \in Builds : CreateImage(b) \/ StageFiles(b) \/ InstallBios(b)
    BY <1>1, <2>6 DEF CreateImage, StageFiles, InstallBios, ImageStep, Onward, Kept
  <2>7. CASE AssemblyFails
    <3>1. PICK op \in {"stage", "install"} :
            Running(op) /\ ~(IF op = "stage" THEN CanStage(Arg) ELSE CanInstall)
      BY <2>7 DEF AssemblyFails, Refuse
    <3>2. InputsPresent(Arg) BY <1>1, <3>1 DEF ImageInv, Pack
    <3>3. CanStage(Arg) /\ LimineTool # Absent BY <3>2 DEF InputsPresent, CanStage
    <3>4. LimineTool = Torn BY <3>1, <3>3 DEF CanInstall
    <3> QED BY <3>4 DEF LimineTool, Torn, Distro, Absent
  <2>8. CASE UNCHANGED vars BY <1>1, <2>8 DEF vars
  <2> QED BY <1>1, <2>2, <2>3, <2>4, <2>5, <2>6, <2>7, <2>8 DEF Next
<1>2. ImageInv /\ [Next]_vars =>
        [verdict' # verdict /\ verdict'[2] = "refused"
           /\ Ahead("install") /\ ~Ahead("create")
         => file[Tool] = Torn]_vars
  BY <1>1
<1> QED BY <1>2, ImageInvInit, ImageInvNext, PTL DEF Spec, RefusalKeepsImage
-----------------------------------------------------------------------------
(* What a success and a failed check mean.  The steps a command has left    *)
(* are graded: their grades only grow, and a file is filled right after it *)
(* was opened.  With the set of steps that are left, this is all the proof *)
(* needs to know of the order of a command.                                *)
Grade(x) ==
  CASE x[1] \in {"toolchain", "native", "remove"} -> 0
    [] x[1] \in {"fetch", "cargo"} -> 1
    [] x[1] = "inputs" -> 2
    [] x[1] \in {"compile", "create"} -> 3
    [] x[1] \in {"record", "stage"} -> 4
    [] x[1] \in {"firmware", "install"} -> 5
    [] x[1] = "validate" -> 6
    [] x[1] = "boot" -> 7
    [] x[1] \in {"open", "fill"} /\ x[2] = "edk2" -> 5
    [] x[1] \in {"open", "fill"} /\ x[2] = Tool -> 3
    [] x[1] \in {"open", "fill"} /\ x[2] \notin {Tool, "edk2"} -> 2

Graded(q, lo, hi) ==
  /\ \E S : q \in Seq(S)
  /\ lo <= hi
  /\ \A i \in 1..Len(q) : Grade(q[i]) \in lo..hi
  /\ \A i, j \in 1..Len(q) : i < j => Grade(q[i]) <= Grade(q[j])
  /\ \A i \in 1..Len(q) :
       q[i][1] = "open" => i + 1 \in 1..Len(q) /\ q[i + 1] = <<"fill", q[i][2]>>

Making == {"toolchain", "native", "fetch", "open", "fill", "compile", "record",
           "firmware"}
Assembling == {"inputs", "create", "stage", "install", "validate"}
Passing == {"check", "demo"}
BuildOf(c) == IF c = "demo" THEN "demo" ELSE "kernel"

(* The operations of a command, and the kernels it must boot to succeed.   *)
OpsOf(c) ==
  CASE c = "bootstrap" -> Making
    [] c = "build" -> {"cargo"}
    [] c = "build-image" -> Assembling
    [] c \in Runs -> Assembling \cup {"boot"}
    [] c \in Passing -> Assembling \cup {"cargo", "boot"}
    [] c = "clean" -> {"remove"}
    [] c = "none" -> {}

MustBoot(c) ==
  IF c \in Passing THEN {BuildOf(c)} \X Targets
  ELSE IF c \in Runs THEN {<<"kernel", RunTarget(c)>>} ELSE {}

(* What is left of a command: whoever copies has still to record, whoever  *)
(* assembles an image has still to boot it.                                *)
LeftOf(c, L) ==
  /\ \A x \in L : x[1] \in OpsOf(c)
  /\ \A x \in L : x[1] = "record" => x = <<"record", "">>
  /\ \A x \in L : x[1] \in Assembling => x = <<x[1], BuildOf(c)>>
  /\ \A x \in L : x[1] \in {"open", "fill"} => x[2] \in Files
  /\ \A x \in L : x[1] = "boot" => x[2] \in MustBoot(c)
  /\ \A x \in L : Grade(x) \in {2, 3} /\ c = "bootstrap" => <<"record", "">> \in L
  /\ \A x \in L, p \in MustBoot(c) :
       x[1] \in Assembling => <<"boot", p>> \in L
  /\ c \in Passing =>
       /\ <<"create", BuildOf(c)>> \in L => <<"stage", BuildOf(c)>> \in L
       /\ <<"stage", BuildOf(c)>> \in L => <<"install", BuildOf(c)>> \in L

Left == ToSet(todo)

WorkTypes ==
  /\ DOMAIN file = Files /\ DOMAIN image = Builds
  /\ DOMAIN elf = Builds /\ \A b \in Builds : DOMAIN elf[b] = Targets
  /\ marker \in Nat
  /\ DOMAIN host = {"pin", "source", "firmware", "cc", "distro"} /\ host.pin \in Nat
  /\ name \in Commands \cup {"none"}
  /\ name = "none" => todo = <<>>
  /\ name # "none" => verdict = NoVerdict
  /\ Graded(todo, 0, 7) /\ LeftOf(name, Left)

(* A file is of the version of the marker, unless a cut spoiled that.      *)
Marked(f) == file[f] \in {Absent, marker} \/ marker \in scars

LoadersInv ==
  ~Materializing =>
    /\ \A f \in ToSet(Payloads) : Marked(f)
    /\ Marked(Tool) \/ unbuilt

BootstrapInv ==
  name = "bootstrap" =>
    /\ \A f \in ToSet(Payloads) :
         \/ <<"fill", f>> \in Left
         \/ file[f] = host.pin
         \/ host.pin \in scars /\ <<"record", "">> \notin Left
    /\ \/ {<<"firmware", "">>, <<"fill", "edk2">>} \cap Left # {}
       \/ file["edk2"] = host.firmware
    /\ <<"record", "">> \in Left /\ host.cc =>
         \/ {<<"compile", "">>, <<"fill", Tool>>} \cap Left # {}
         \/ file[Tool] = host.pin

Whole(im, t) == im.stage \in BootStages(t) /\ im.loaders[Loader(t)] # Torn

PassInv ==
  /\ \A p \in MustBoot(name) : <<"boot", p>> \in Left \/ Whole(image[p[1]], p[2])
  /\ name \in Passing =>
       \A t \in Targets :
         LET b == BuildOf(name)
         IN /\ <<"cargo", <<b, t>>>> \in Left \/ elf[b][t] = host.source
            /\ <<"stage", b>> \in Left \/ image[b].kernels[t] = host.source

CheckInv ==
  name = "check" =>
    /\ <<"inputs", "kernel">> \in Left \/ FilesThere
    /\ \/ <<"stage", "kernel">> \in Left
       \/ \A f \in ImageFiles : image["kernel"].loaders[f] = file[f]
    /\ \/ <<"install", "kernel">> \in Left
       \/ image["kernel"].stage = Installed /\ image["kernel"].tool = LimineTool

Promises == BootstrapMeansReady /\ PassMeansCurrent /\ FailedCheckExplained

WorkInv ==
  WorkTypes /\ LoadersInv /\ BootstrapInv /\ PassInv /\ CheckInv /\ Promises
-----------------------------------------------------------------------------
(* The grade of each step.                                                 *)
LEMMA GradeOf ==
  ASSUME NEW x
  PROVE  /\ x[1] \in {"toolchain", "native", "remove"} => Grade(x) = 0
         /\ x[1] \in {"fetch", "cargo"} => Grade(x) = 1
         /\ x[1] = "inputs" => Grade(x) = 2
         /\ x[1] \in {"compile", "create"} => Grade(x) = 3
         /\ x[1] \in {"record", "stage"} => Grade(x) = 4
         /\ x[1] \in {"firmware", "install"} => Grade(x) = 5
         /\ x[1] = "validate" => Grade(x) = 6
         /\ x[1] = "boot" => Grade(x) = 7
         /\ x[1] \in {"open", "fill"} =>
              Grade(x) = IF x[2] = "edk2" THEN 5 ELSE IF x[2] = Tool THEN 3 ELSE 2
BY DEF Grade, Tool

(* A list of one step.                                                     *)
LEMMA GradedStep ==
  ASSUME NEW op, NEW x, op # "open", NEW g \in Nat, Grade(<<op, x>>) = g
  PROVE  Graded(On(op, x), g, g) /\ ToSet(On(op, x)) = {<<op, x>>}
<1> DEFINE y == <<op, x>>
           q == On(op, x)
<1>1. q = <<y>> BY DEF On
<1>2. y[1] # "open" /\ Grade(y) = g OBVIOUS
<1> HIDE DEF y, q
<1>3. q \in Seq({y}) /\ Len(q) = 1 /\ q[1] = y /\ DOMAIN q = 1..1 BY <1>1
<1>4. Graded(q, g, g) BY <1>2, <1>3 DEF Graded
<1>5. ToSet(q) = {y} BY <1>3 DEF ToSet
<1> QED BY <1>4, <1>5 DEF q, y

(* A copy: the file is opened and filled.                                  *)
LEMMA GradedCopy ==
  ASSUME NEW f, NEW g \in Nat, Grade(<<"open", f>>) = g, Grade(<<"fill", f>>) = g
  PROVE  /\ Graded(Copy(f), g, g)
         /\ ToSet(Copy(f)) = {<<"open", f>>, <<"fill", f>>}
<1> DEFINE x == <<"open", f>>
           y == <<"fill", f>>
           q == Copy(f)
<1>0. q = <<x>> \o <<y>> BY DEF Copy, On
<1>2. /\ x[1] = "open" /\ y[1] # "open" /\ y = <<"fill", x[2]>>
      /\ Grade(x) = g /\ Grade(y) = g
  OBVIOUS
<1> HIDE DEF x, y
<1> HIDE DEF q
<1> DEFINE S == {x, y}
           p == <<x>>
<1>1. /\ p \in Seq(S) /\ y \in S /\ Len(p) = 1 /\ p[1] = x OBVIOUS
<1> HIDE DEF S, p
<1>3. /\ p \o <<y>> \in Seq(S) /\ Len(p \o <<y>>) = Len(p) + 1
      /\ \A i \in 1..Len(p) : (p \o <<y>>)[i] = p[i]
      /\ (p \o <<y>>)[Len(p) + 1] = y
  BY <1>1, OneMore, ZenonT(60)
<1>6. q = p \o <<y>> BY <1>0 DEF p
<1>7. q \in Seq(S) /\ Len(q) = 2 /\ q[1] = x /\ q[2] = y BY <1>1, <1>3, <1>6
<1>8. DOMAIN q = 1..2 BY <1>7
<1>4. Graded(q, g, g) BY SMTT(60), <1>2, <1>7 DEF Graded
<1>5. ToSet(q) = {x, y} BY <1>7, <1>8 DEF ToSet
<1> QED BY <1>4, <1>5 DEF q, x, y

(* The empty list.                                                         *)
LEMMA GradedNothing ==
  ASSUME NEW g \in Nat PROVE Graded(<<>>, g, g) /\ ToSet(<<>>) = {}
<1>1. <<>> \in Seq({}) /\ Len(<<>>) = 0 /\ DOMAIN <<>> = {} OBVIOUS
<1> QED BY <1>1 DEF Graded, ToSet

(* Grades of two lists one after the other.                                *)
LEMMA GradedCat ==
  ASSUME NEW p, NEW q, NEW a \in Nat, NEW b \in Nat, NEW c \in Nat, NEW d \in Nat,
         Graded(p, a, b), Graded(q, c, d), b <= c
  PROVE  Graded(p \o q, a, d) /\ ToSet(p \o q) = ToSet(p) \cup ToSet(q)
<1>1. PICK S, T : p \in Seq(S) /\ q \in Seq(T) BY DEF Graded
<1> DEFINE U == S \cup T
           r == p \o q
           n == Len(p)
           m == Len(q)
<1>2. p \in Seq(U) /\ q \in Seq(U) BY <1>1, SeqMonotonic
<1>3. /\ r \in Seq(U) /\ Len(r) = n + m
      /\ \A i \in 1..n + m : r[i] = IF i <= n THEN p[i] ELSE q[i - n]
  BY <1>2, ConcatProperties
<1>4. /\ n \in Nat /\ m \in Nat /\ DOMAIN r = 1..n + m
      /\ DOMAIN p = 1..n /\ DOMAIN q = 1..m
  BY <1>1, <1>3
<1>p. /\ \A i \in 1..n : Grade(p[i]) \in a..b
      /\ \A i, j \in 1..n : i < j => Grade(p[i]) <= Grade(p[j])
      /\ \A i \in 1..n : p[i][1] = "open" => i + 1 \in 1..n /\ p[i + 1] = <<"fill", p[i][2]>>
      /\ a <= b
  BY DEF Graded
<1>q. /\ \A i \in 1..m : Grade(q[i]) \in c..d
      /\ \A i, j \in 1..m : i < j => Grade(q[i]) <= Grade(q[j])
      /\ \A i \in 1..m : q[i][1] = "open" => i + 1 \in 1..m /\ q[i + 1] = <<"fill", q[i][2]>>
      /\ c <= d
  BY DEF Graded
<1> HIDE DEF r, n, m, U
<1>5. \A i \in 1..n : r[i] = p[i] /\ i \in 1..n + m BY <1>3, <1>4
<1>6. \A i \in 1..m : r[n + i] = q[i] /\ n + i \in 1..n + m
  <2>1. ASSUME NEW i \in 1..m PROVE r[n + i] = q[i] /\ n + i \in 1..n + m
    <3>1. n + i \in 1..n + m /\ ~(n + i <= n) /\ n + i - n = i BY <1>4
    <3> DEFINE k == n + i
    <3>2. k \in 1..n + m /\ ~(k <= n) /\ k - n = i BY <1>4
    <3> HIDE DEF k
    <3>3. r[k] = q[i] BY <1>3, <3>2
    <3> QED BY <3>1, <3>3 DEF k
  <2> QED BY <2>1
<1>7. \A i \in 1..n + m : i \in 1..n \/ \E k \in 1..m : i = n + k
  <2>1. ASSUME NEW i \in 1..n + m, i \notin 1..n PROVE i - n \in 1..m /\ i = n + (i - n)
    BY <1>4, <2>1
  <2> QED BY <2>1
<1>8. \A i \in 1..n + m : Grade(r[i]) \in a..d
  <2>1. \A i \in 1..n : Grade(r[i]) \in a..d BY <1>5, <1>p, <1>q
  <2>2. \A i \in 1..m : Grade(r[n + i]) \in a..d BY <1>6, <1>p, <1>q
  <2> QED BY <1>7, <2>1, <2>2
<1>9. ASSUME NEW i \in 1..n + m, NEW j \in 1..n + m, i < j
      PROVE  Grade(r[i]) <= Grade(r[j])
  <2>1. CASE i \in 1..n /\ j \in 1..n BY <1>9, <2>1, <1>5, <1>p
  <2>2. CASE i \in 1..n /\ j \notin 1..n
    <3>1. PICK k \in 1..m : j = n + k BY <1>7, <2>2
    <3>2. Grade(p[i]) \in a..b /\ Grade(q[k]) \in c..d BY <2>2, <1>p, <1>q
    <3> QED BY <2>2, <3>1, <3>2, <1>5, <1>6
  <2>3. CASE i \notin 1..n /\ j \in 1..n BY <1>9, <2>3, <1>4
  <2>4. CASE i \notin 1..n /\ j \notin 1..n
    <3>1. PICK k \in 1..m, l \in 1..m : i = n + k /\ j = n + l BY <1>7, <2>4
    <3>2. k < l BY <1>9, <3>1, <1>4
    <3> QED BY <3>1, <3>2, <1>6, <1>q
  <2> QED BY <2>1, <2>2, <2>3, <2>4
<1>10. ASSUME NEW i \in 1..n + m, r[i][1] = "open"
       PROVE  i + 1 \in 1..n + m /\ r[i + 1] = <<"fill", r[i][2]>>
  <2>1. CASE i \in 1..n
    <3>1. i + 1 \in 1..n /\ p[i + 1] = <<"fill", p[i][2]>> BY <1>10, <2>1, <1>5, <1>p
    <3> QED BY <2>1, <3>1, <1>5
  <2>2. CASE i \notin 1..n
    <3>1. PICK k \in 1..m : i = n + k BY <1>7, <2>2
    <3>2. k + 1 \in 1..m /\ q[k + 1] = <<"fill", q[k][2]>> BY <1>10, <3>1, <1>6, <1>q
    <3>3. i + 1 = n + (k + 1) BY <3>1, <1>4
    <3> QED BY <3>1, <3>2, <3>3, <1>6
  <2> QED BY <2>1, <2>2
<1>11. Graded(r, a, d)
  BY <1>3, <1>8, <1>9, <1>10, <1>p, <1>q DEF Graded
<1>12. ToSet(r) = ToSet(p) \cup ToSet(q)
  <2>0. /\ \A i \in 1..n : p[i] \in ToSet(p)
        /\ \A i \in 1..m : q[i] \in ToSet(q)
        /\ \A x \in ToSet(r) : \E i \in 1..n + m : x = r[i]
    BY <1>4 DEF ToSet
  <2>1. \A x : x \in ToSet(r) => x \in ToSet(p) \cup ToSet(q)
    BY <2>0, <1>5, <1>6, <1>7
  <2>2. \A x : x \in ToSet(p) => x \in ToSet(r) BY <1>4, <1>5 DEF ToSet
  <2>3. \A x : x \in ToSet(q) => x \in ToSet(r) BY <1>4, <1>6 DEF ToSet
  <2> QED BY <2>1, <2>2, <2>3
<1> QED BY <1>11, <1>12 DEF r

(* Graded lists stay graded when their first step is done.                 *)
LEMMA GradedTail ==
  ASSUME NEW q, NEW a \in Nat, NEW b \in Nat, Graded(q, a, b), q # <<>>
  PROVE  /\ Grade(Head(q)) \in a..b
         /\ Graded(Tail(q), Grade(Head(q)), b)
         /\ ToSet(q) = {Head(q)} \cup ToSet(Tail(q))
         /\ \A x \in ToSet(Tail(q)) : Grade(Head(q)) <= Grade(x) /\ Grade(x) <= b
         /\ Head(q)[1] = "open" => <<"fill", Head(q)[2]>> \in ToSet(Tail(q))
<1>1. PICK S : q \in Seq(S) BY DEF Graded
<1> DEFINE t == Tail(q)
           h == Head(q)
           n == Len(q)
<1>2. /\ n \in Nat /\ n > 0 /\ h = q[1] /\ t \in Seq(S) /\ Len(t) = n - 1
      /\ DOMAIN q = 1..n /\ DOMAIN t = 1..n - 1
      /\ \A i \in 1..n - 1 : t[i] = q[i + 1]
  BY <1>1
<1>q. /\ \A i \in 1..n : Grade(q[i]) \in a..b
      /\ \A i, j \in 1..n : i < j => Grade(q[i]) <= Grade(q[j])
      /\ \A i \in 1..n : q[i][1] = "open" => i + 1 \in 1..n /\ q[i + 1] = <<"fill", q[i][2]>>
      /\ a <= b
  BY DEF Graded
<1> HIDE DEF t, h, n
<1>3. \A i \in 1..n - 1 : t[i] = q[i + 1] /\ i + 1 \in 1..n BY <1>2
<1>4. \A i \in 1..n : i = 1 \/ \E k \in 1..n - 1 : i = k + 1
  <2>1. ASSUME NEW i \in 1..n, i # 1 PROVE i - 1 \in 1..n - 1 /\ i = (i - 1) + 1
    BY <1>2, <2>1
  <2> QED BY <2>1
<1>5. Grade(h) \in a..b BY <1>2, <1>q
<1>6. \A i \in 1..n - 1 : Grade(t[i]) \in Grade(h)..b
  <2>1. ASSUME NEW i \in 1..n - 1 PROVE Grade(t[i]) \in Grade(h)..b
    <3>1. 1 < i + 1 /\ i + 1 \in 1..n /\ 1 \in 1..n BY <1>2
    <3>2. Grade(q[1]) <= Grade(q[i + 1]) /\ Grade(q[i + 1]) \in a..b BY <3>1, <1>q
    <3> QED BY <1>2, <1>5, <3>2
  <2> QED BY <2>1
<1>7. ASSUME NEW i \in 1..n - 1, NEW j \in 1..n - 1, i < j PROVE Grade(t[i]) <= Grade(t[j])
  <2>1. i + 1 < j + 1 /\ i + 1 \in 1..n /\ j + 1 \in 1..n BY <1>2, <1>7
  <2>2. Grade(q[i + 1]) <= Grade(q[j + 1]) BY <2>1, <1>q
  <2> QED BY <2>2, <1>3
<1>8. ASSUME NEW i \in 1..n - 1, t[i][1] = "open"
      PROVE  i + 1 \in 1..n - 1 /\ t[i + 1] = <<"fill", t[i][2]>>
  <2>1. (i + 1) + 1 \in 1..n /\ q[(i + 1) + 1] = <<"fill", q[i + 1][2]>>
    BY <1>8, <1>3, <1>q
  <2>2. i + 1 \in 1..n - 1 BY <1>2, <2>1
  <2> QED BY <1>3, <2>1, <2>2
<1>9. Graded(t, Grade(h), b)
  <2>1. (\E T : t \in Seq(T)) /\ Len(t) = n - 1 BY <1>2
  <2>2. Grade(h) <= b BY <1>5, <1>q
  <2> DEFINE g == Grade(h)
  <2>3. \A i \in 1..Len(t) : Grade(t[i]) \in g..b BY <2>1, <1>6
  <2>4. \A i, j \in 1..Len(t) : i < j => Grade(t[i]) <= Grade(t[j]) BY <2>1, <1>7
  <2>5. \A i \in 1..Len(t) :
          t[i][1] = "open" => i + 1 \in 1..Len(t) /\ t[i + 1] = <<"fill", t[i][2]>>
    BY <2>1, <1>8
  <2> QED BY <2>1, <2>2, <2>3, <2>4, <2>5 DEF Graded
<1>10. ToSet(q) = {h} \cup ToSet(t)
  <2>0. /\ \A k \in 1..n - 1 : t[k] \in ToSet(t)
        /\ \A x \in ToSet(q) : \E i \in 1..n : x = q[i]
    BY <1>2 DEF ToSet
  <2>1. ASSUME NEW x, x \in ToSet(q) PROVE x \in {h} \cup ToSet(t)
    <3>1. PICK i \in 1..n : x = q[i] BY <2>0, <2>1
    <3>2. i = 1 \/ \E k \in 1..n - 1 : i = k + 1 BY <1>4
    <3>3. i = 1 => x = h BY <1>2, <3>1
    <3>4. ASSUME NEW k \in 1..n - 1, i = k + 1 PROVE x \in ToSet(t)
      BY <1>3, <2>0, <3>1, <3>4
    <3> QED BY <3>2, <3>3, <3>4
  <2>2. h \in ToSet(q) BY <1>2 DEF ToSet
  <2>3. \A x : x \in ToSet(t) => x \in ToSet(q) BY ZenonT(60), <1>2, <1>3 DEF ToSet
  <2> QED BY <2>1, <2>2, <2>3
<1>11. \A x \in ToSet(t) : Grade(h) <= Grade(x) /\ Grade(x) <= b
  <2>1. \A x \in ToSet(t) : \E i \in 1..n - 1 : x = t[i] BY <1>2 DEF ToSet
  <2>2. \A i \in 1..n - 1 : Grade(h) <= Grade(t[i]) /\ Grade(t[i]) <= b BY <1>5, <1>6
  <2> QED BY <2>1, <2>2
<1>12. h[1] = "open" => <<"fill", h[2]>> \in ToSet(t)
  <2>1. ASSUME h[1] = "open" PROVE <<"fill", h[2]>> \in ToSet(t)
    <3>1. 1 \in 1..n BY <1>2
    <3>2. 1 + 1 \in 1..n /\ q[1 + 1] = <<"fill", h[2]>> BY <1>2, <1>q, <2>1, <3>1
    <3>3. 1 \in 1..n - 1 /\ t[1] = q[1 + 1] BY <1>2, <3>2
    <3> QED BY <1>2, <3>2, <3>3 DEF ToSet
  <2> QED BY <2>1
<1> QED BY <1>5, <1>9, <1>10, <1>11, <1>12 DEF t, h
-----------------------------------------------------------------------------
(* The steps of each command: their grades and the set they form.          *)
LEMMA GradedBoth ==
  ASSUME NEW op, NEW b, NEW g \in Nat, op # "open",
         Grade(<<op, <<b, "x86_64">>>>) = g, Grade(<<op, <<b, "aarch64">>>>) = g
  PROVE  /\ Graded(Both(op, b), g, g)
         /\ ToSet(Both(op, b)) = {<<op, <<b, "x86_64">>>>, <<op, <<b, "aarch64">>>>}
<1> DEFINE q == Both(op, b)
           x == <<op, <<b, "x86_64">>>>
           a == <<op, <<b, "aarch64">>>>
<1>1. q = <<x, a>> BY DEF Both
<1>2. /\ x[1] # "open" /\ a[1] # "open" /\ Grade(x) = g /\ Grade(a) = g OBVIOUS
<1> HIDE DEF q, x, a
<1>3. q \in Seq({x, a}) /\ Len(q) = 2 /\ q[1] = x /\ q[2] = a /\ DOMAIN q = 1..2
  BY <1>1
<1>4. Graded(q, g, g) BY <1>2, <1>3 DEF Graded
<1>5. ToSet(q) = {x, a} BY <1>3 DEF ToSet
<1> QED BY <1>4, <1>5 DEF q, x, a

(* The steps of assemble, in their order.                                  *)
LEMMA GradedAssemble ==
  ASSUME NEW b
  PROVE  /\ Graded(Assemble(b), 2, 6)
         /\ ToSet(Assemble(b)) = {<<"inputs", b>>, <<"create", b>>, <<"stage", b>>,
                                  <<"install", b>>, <<"validate", b>>}
<1> DEFINE a1 == On("inputs", b)
           a2 == On("create", b)
           a3 == On("stage", b)
           a4 == On("install", b)
           a5 == On("validate", b)
<1>1. /\ Graded(a1, 2, 2) /\ ToSet(a1) = {<<"inputs", b>>}
      /\ Graded(a2, 3, 3) /\ ToSet(a2) = {<<"create", b>>}
      /\ Graded(a3, 4, 4) /\ ToSet(a3) = {<<"stage", b>>}
      /\ Graded(a4, 5, 5) /\ ToSet(a4) = {<<"install", b>>}
      /\ Graded(a5, 6, 6) /\ ToSet(a5) = {<<"validate", b>>}
  <2>1. /\ Grade(<<"inputs", b>>) = 2 /\ Grade(<<"create", b>>) = 3
        /\ Grade(<<"stage", b>>) = 4 /\ Grade(<<"install", b>>) = 5
        /\ Grade(<<"validate", b>>) = 6
    BY GradeOf
  <2>2. 2 \in Nat /\ 3 \in Nat /\ 4 \in Nat /\ 5 \in Nat /\ 6 \in Nat OBVIOUS
  <2> QED BY <2>1, <2>2, GradedStep
<1>2. Assemble(b) = a1 \o a2 \o a3 \o a4 \o a5 BY DEF Assemble
<1> HIDE DEF a1, a2, a3, a4, a5
<1>3. Graded(a1 \o a2, 2, 3) /\ ToSet(a1 \o a2) = ToSet(a1) \cup ToSet(a2)
  BY <1>1, GradedCat
<1>4. /\ Graded(a1 \o a2 \o a3, 2, 4)
      /\ ToSet(a1 \o a2 \o a3) = ToSet(a1 \o a2) \cup ToSet(a3)
  BY <1>1, <1>3, GradedCat
<1>5. /\ Graded(a1 \o a2 \o a3 \o a4, 2, 5)
      /\ ToSet(a1 \o a2 \o a3 \o a4) = ToSet(a1 \o a2 \o a3) \cup ToSet(a4)
  BY <1>1, <1>4, GradedCat
<1>6. /\ Graded(a1 \o a2 \o a3 \o a4 \o a5, 2, 6)
      /\ ToSet(a1 \o a2 \o a3 \o a4 \o a5)
           = ToSet(a1 \o a2 \o a3 \o a4) \cup ToSet(a5)
  BY <1>1, <1>5, GradedCat
<1> QED BY <1>1, <1>2, <1>3, <1>4, <1>5, <1>6

(* The copies of all payloads, one after the other.                        *)
LEMMA GradedCopies ==
  /\ Graded(CopyPayloads, 2, 2)
  /\ \A x \in ToSet(CopyPayloads) : x[1] \in {"open", "fill"} /\ x[2] \in ToSet(Payloads)
  /\ \A f \in ToSet(Payloads) : <<"fill", f>> \in ToSet(CopyPayloads)
<1> DEFINE q == CopyPayloads
           l == Len(Payloads)
           n == 2 * Len(Payloads)
<1>1. l \in Nat /\ n \in Nat /\ DOMAIN q = 1..n /\ n = 2 * l
  BY WorkspaceAssumption DEF CopyPayloads
<1>2. DOMAIN Payloads = 1..l /\ \A i \in 1..l : Payloads[i] \in ToSet(Payloads)
  BY WorkspaceAssumption DEF ToSet
<1>3. ASSUME NEW i \in 1..n, i % 2 = 1
      PROVE  /\ i + 1 \in 1..n /\ (i + 1) % 2 # 1 /\ (i + 1) \div 2 \in 1..l
             /\ q[i] = <<"open", Payloads[(i + 1) \div 2]>>
  <2>1. i + 1 \in 1..n /\ (i + 1) % 2 # 1 /\ (i + 1) \div 2 \in 1..l BY <1>1, <1>3
  <2>2. q[i] = <<"open", Payloads[(i + 1) \div 2]>> BY <1>3 DEF CopyPayloads
  <2> QED BY <2>1, <2>2
<1>4. ASSUME NEW i \in 1..n, i % 2 # 1
      PROVE  i \div 2 \in 1..l /\ q[i] = <<"fill", Payloads[i \div 2]>>
  <2>1. i \div 2 \in 1..l BY <1>1, <1>4
  <2>2. q[i] = <<"fill", Payloads[i \div 2]>> BY <1>4 DEF CopyPayloads
  <2> QED BY <2>1, <2>2
<1>5. ASSUME NEW k \in 1..l PROVE 2 * k \in 1..n /\ q[2 * k] = <<"fill", Payloads[k]>>
  <2>1. 2 * k \in 1..n /\ (2 * k) % 2 # 1 /\ (2 * k) \div 2 = k BY <1>1
  <2> QED BY <1>4, <2>1
<1> HIDE DEF q, n, l
<1>6. \A i \in 1..n : q[i][1] \in {"open", "fill"} /\ q[i][2] \in ToSet(Payloads)
  BY <1>2, <1>3, <1>4
<1>7. \A i \in 1..n : Grade(q[i]) = 2
  <2>1. \A f \in ToSet(Payloads) : f # "edk2" /\ f # Tool
    BY WorkspaceAssumption DEF Tool
  <2> QED BY <1>6, <2>1, GradeOf
<1>8. \A i \in 1..n :
        q[i][1] = "open" => i + 1 \in 1..n /\ q[i + 1] = <<"fill", q[i][2]>>
  <2>1. ASSUME NEW i \in 1..n, q[i][1] = "open"
        PROVE  i + 1 \in 1..n /\ q[i + 1] = <<"fill", q[i][2]>>
    <3>1. i % 2 = 1 BY <1>4, <2>1
    <3>2. i + 1 \in 1..n /\ (i + 1) % 2 # 1 /\ q[i] = <<"open", Payloads[(i + 1) \div 2]>>
      BY <1>3, <3>1
    <3>3. q[i + 1] = <<"fill", Payloads[(i + 1) \div 2]>> BY <1>4, <3>2
    <3> QED BY <3>2, <3>3
  <2> QED BY <2>1
<1>9. (\E S : q \in Seq(S)) /\ Len(q) = n
  <2> DEFINE S == {q[i] : i \in 1..n}
  <2>1. q = [i \in 1..n |-> q[i]] BY DEF q, n, CopyPayloads
  <2>2. \A i \in 1..n : q[i] \in S OBVIOUS
  <2> HIDE DEF S
  <2>3. q \in Seq(S) /\ Len(q) = n BY <1>1, <2>1, <2>2
  <2> QED BY <2>3
<1>10. Graded(q, 2, 2)
  <2>1. \A i \in 1..Len(q) : Grade(q[i]) \in 2..2 BY <1>7, <1>9
  <2>2. \A i, j \in 1..Len(q) : i < j => Grade(q[i]) <= Grade(q[j]) BY <1>7, <1>9
  <2>3. 2 <= 2 OBVIOUS
  <2>4. \A i \in 1..Len(q) :
          q[i][1] = "open" => i + 1 \in 1..Len(q) /\ q[i + 1] = <<"fill", q[i][2]>>
    BY <1>8, <1>9
  <2> QED BY <1>9, <2>1, <2>2, <2>3, <2>4 DEF Graded
<1>11. \A x \in ToSet(q) : x[1] \in {"open", "fill"} /\ x[2] \in ToSet(Payloads)
  BY <1>1, <1>6 DEF ToSet
<1>12. ASSUME NEW f \in ToSet(Payloads) PROVE <<"fill", f>> \in ToSet(q)
  <2>1. PICK k \in 1..l : f = Payloads[k] BY <1>2 DEF ToSet
  <2> QED BY <1>1, <1>5, <2>1 DEF ToSet
<1> QED BY <1>10, <1>11, <1>12 DEF q

(* All that ensure_limine does.                                            *)
LEMMA GradedMaterialize ==
  /\ Graded(Materialize, 1, 4)
  /\ ToSet(Materialize) =
       ToSet(CopyPayloads) \cup {<<"fetch", "">>, <<"compile", "">>, <<"record", "">>}
<1> DEFINE a1 == Do("fetch")
           a2 == CopyPayloads
           a3 == Do("compile")
           a4 == Do("record")
<1>1. /\ Graded(a1, 1, 1) /\ ToSet(a1) = {<<"fetch", "">>}
      /\ Graded(a3, 3, 3) /\ ToSet(a3) = {<<"compile", "">>}
      /\ Graded(a4, 4, 4) /\ ToSet(a4) = {<<"record", "">>}
  <2>1. /\ Grade(<<"fetch", "">>) = 1 /\ Grade(<<"compile", "">>) = 3
        /\ Grade(<<"record", "">>) = 4
    BY GradeOf
  <2>2. 1 \in Nat /\ 3 \in Nat /\ 4 \in Nat OBVIOUS
  <2> QED BY <2>1, <2>2, GradedStep DEF Do, On
<1>2. Materialize = a1 \o a2 \o a3 \o a4 BY DEF Materialize
<1>3. Graded(a2, 2, 2) BY GradedCopies
<1>n. /\ 1 \in Nat /\ 2 \in Nat /\ 3 \in Nat /\ 4 \in Nat
      /\ 1 <= 2 /\ 2 <= 3 /\ 3 <= 4
  OBVIOUS
<1> HIDE DEF a1, a2, a3, a4
<1>4. Graded(a1 \o a2, 1, 2) /\ ToSet(a1 \o a2) = ToSet(a1) \cup ToSet(a2)
  BY <1>n, <1>1, <1>3, GradedCat, Zenon
<1>5. /\ Graded(a1 \o a2 \o a3, 1, 3)
      /\ ToSet(a1 \o a2 \o a3) = ToSet(a1 \o a2) \cup ToSet(a3)
  BY <1>n, <1>1, <1>4, GradedCat, ZenonT(60)
<1>6. /\ Graded(a1 \o a2 \o a3 \o a4, 1, 4)
      /\ ToSet(a1 \o a2 \o a3 \o a4) = ToSet(a1 \o a2 \o a3) \cup ToSet(a4)
  <2>1. Graded(a1 \o a2 \o a3, 1, 3) /\ Graded(a4, 4, 4)
    BY <1>1, <1>5
  <2>2. 1 \in Nat /\ 3 \in Nat /\ 4 \in Nat /\ 3 <= 4 OBVIOUS
  <2> QED BY ONLY <2>1, <2>2, GradedCat
<1> QED BY <1>1, <1>2, <1>4, <1>5, <1>6 DEF a2

(* Bounds of grades may be loosened.                                       *)
LEMMA Widen ==
  ASSUME NEW q, NEW a \in Nat, NEW b \in Nat, NEW c \in Nat, NEW d \in Nat,
         Graded(q, a, b), c <= a, b <= d
  PROVE  Graded(q, c, d)
<1>1. \A i \in 1..Len(q) : Grade(q[i]) \in c..d BY DEF Graded
<1> QED BY SMTT(60), <1>1 DEF Graded

(* What bootstrap has to do when it begins.                                *)
LEMMA StepsOfBootstrap ==
  /\ Graded(Steps("bootstrap"), 0, 7) /\ LeftOf("bootstrap", ToSet(Steps("bootstrap")))
  /\ <<"firmware", "">> \in ToSet(Steps("bootstrap"))
  /\ AlreadyPresent => <<"record", "">> \notin ToSet(Steps("bootstrap"))
  /\ ~AlreadyPresent =>
       /\ \A f \in ToSet(Payloads) : <<"fill", f>> \in ToSet(Steps("bootstrap"))
       /\ <<"compile", "">> \in ToSet(Steps("bootstrap"))
<1> DEFINE M == IF AlreadyPresent THEN <<>> ELSE Materialize
           a1 == Do("toolchain")
           a2 == Do("native")
           a4 == Do("firmware")
           q == Steps("bootstrap")
<1>1. q = a1 \o a2 \o M \o a4 BY DEF Steps, Runs
<1>2. /\ Graded(a1, 0, 0) /\ ToSet(a1) = {<<"toolchain", "">>}
      /\ Graded(a2, 0, 0) /\ ToSet(a2) = {<<"native", "">>}
      /\ Graded(a4, 5, 5) /\ ToSet(a4) = {<<"firmware", "">>}
  <2>1. /\ Grade(<<"toolchain", "">>) = 0 /\ Grade(<<"native", "">>) = 0
        /\ Grade(<<"firmware", "">>) = 5
    BY GradeOf
  <2>2. 0 \in Nat /\ 5 \in Nat OBVIOUS
  <2> QED BY <2>1, <2>2, GradedStep DEF Do, On
<1>3. /\ Graded(M, 1, 4)
      /\ ToSet(M) = IF AlreadyPresent THEN {} ELSE ToSet(Materialize)
  <2>1. 1 \in Nat /\ 4 \in Nat /\ 1 <= 1 /\ 1 <= 4 OBVIOUS
  <2>2. Graded(<<>>, 1, 1) /\ ToSet(<<>>) = {} BY <2>1, GradedNothing
  <2>3. Graded(<<>>, 1, 4) BY <2>1, <2>2, Widen
  <2> QED BY <2>2, <2>3, GradedMaterialize
<1>n. /\ 0 \in Nat /\ 1 \in Nat /\ 4 \in Nat /\ 5 \in Nat /\ 7 \in Nat
      /\ 0 <= 0 /\ 0 <= 1 /\ 4 <= 5 /\ 5 <= 7
  OBVIOUS
<1> HIDE DEF M, a1, a2, a4, q
<1>4. Graded(a1 \o a2, 0, 0) /\ ToSet(a1 \o a2) = ToSet(a1) \cup ToSet(a2)
  BY <1>n, <1>2, GradedCat, Zenon
<1>5. /\ Graded(a1 \o a2 \o M, 0, 4)
      /\ ToSet(a1 \o a2 \o M) = ToSet(a1 \o a2) \cup ToSet(M)
  <2>1. Graded(a1 \o a2, 0, 0) /\ Graded(M, 1, 4)
    BY <1>3, <1>4
  <2>2. 0 \in Nat /\ 1 \in Nat /\ 4 \in Nat /\ 0 <= 1 OBVIOUS
  <2> QED BY <2>1, <2>2, GradedCat, ZenonT(60)
<1>6. /\ Graded(a1 \o a2 \o M \o a4, 0, 5)
      /\ ToSet(a1 \o a2 \o M \o a4) = ToSet(a1 \o a2 \o M) \cup ToSet(a4)
  <2>1. Graded(a1 \o a2 \o M, 0, 4) /\ Graded(a4, 5, 5)
    BY <1>2, <1>5
  <2>2. 0 \in Nat /\ 4 \in Nat /\ 5 \in Nat /\ 4 <= 5 OBVIOUS
  <2> QED BY ONLY <2>1, <2>2, GradedCat
<1>7. Graded(q, 0, 7) BY <1>n, <1>1, <1>6, Widen
<1>8. ToSet(q) = {<<"toolchain", "">>, <<"native", "">>, <<"firmware", "">>}
                   \cup (IF AlreadyPresent THEN {} ELSE ToSet(Materialize))
  BY <1>1, <1>2, <1>3, <1>4, <1>5, <1>6
<1> DEFINE C == ToSet(CopyPayloads)
<1>9. \A x \in C : x[1] \in {"open", "fill"} /\ x[2] \in Files
  BY GradedCopies DEF Files
<1>10. \A x \in ToSet(q) :
         \/ x \in C /\ ~AlreadyPresent
         \/ x \in {<<"toolchain", "">>, <<"native", "">>, <<"firmware", "">>}
         \/ x \in {<<"fetch", "">>, <<"compile", "">>, <<"record", "">>} /\ ~AlreadyPresent
  BY <1>8, GradedMaterialize
<1>11. ~AlreadyPresent => <<"record", "">> \in ToSet(q) BY <1>8, GradedMaterialize
<1> DEFINE T == ToSet(q)
<1> HIDE DEF C, T
<1> DEFINE Fine(x) == /\ x[1] \in Making
                      /\ x[1] = "record" => x = <<"record", "">>
                      /\ x[1] \in {"open", "fill"} => x[2] \in Files
                      /\ Grade(x) \in {2, 3} => ~AlreadyPresent
<1>12. \A x \in T : Fine(x)
  <2>1. ~AlreadyPresent => \A x \in C : Fine(x) BY <1>9 DEF Making
  <2>2. Fine(<<"toolchain", "">>) /\ Fine(<<"native", "">>) /\ Fine(<<"firmware", "">>)
    <3>1. /\ Grade(<<"toolchain", "">>) = 0 /\ Grade(<<"native", "">>) = 0
          /\ Grade(<<"firmware", "">>) = 5
      BY GradeOf
    <3>2. ASSUME NEW op \in {"toolchain", "native", "firmware"} PROVE Fine(<<op, "">>)
      <4> DEFINE x == <<op, "">>
      <4>1. x[1] = op OBVIOUS
      <4> HIDE DEF x
      <4>2. Grade(x) \notin {2, 3} BY <4>1, GradeOf
      <4>3. Fine(x) BY <4>1, <4>2 DEF Making
      <4> HIDE DEF Fine
      <4> QED BY <4>3 DEF x
    <3> HIDE DEF Fine
    <3> QED BY <3>2
  <2>3. ~AlreadyPresent =>
          /\ Fine(<<"fetch", "">>) /\ Fine(<<"compile", "">>) /\ Fine(<<"record", "">>)
    BY DEF Making
  <2> HIDE DEF Fine
  <2>4. \A x \in T :
         \/ x \in C /\ ~AlreadyPresent
         \/ x \in {<<"toolchain", "">>, <<"native", "">>, <<"firmware", "">>}
         \/ x \in {<<"fetch", "">>, <<"compile", "">>, <<"record", "">>} /\ ~AlreadyPresent
    BY <1>10 DEF T
  <2> QED BY <2>1, <2>2, <2>3, <2>4, Zenon
<1>13. LeftOf("bootstrap", T)
  <2>1. OpsOf("bootstrap") = Making /\ MustBoot("bootstrap") = {}
    BY DEF OpsOf, MustBoot, Runs, Passing
  <2>2. /\ "boot" \notin Making /\ "bootstrap" \notin Passing
        /\ \A op \in Making : op \notin Assembling
    BY DEF Making, Passing, Assembling
  <2> QED BY <1>11, <1>12, <2>1, <2>2 DEF LeftOf, T
<1>14. AlreadyPresent => <<"record", "">> \notin T BY <1>8 DEF T
<1>15. ~AlreadyPresent => <<"compile", "">> \in T /\ \A f \in ToSet(Payloads) : <<"fill", f>> \in T
  BY <1>8, GradedMaterialize, GradedCopies DEF T
<1>16. <<"firmware", "">> \in T BY <1>8 DEF T
<1> QED BY <1>7, <1>13, <1>14, <1>15, <1>16 DEF T, q

(* The steps of assemble as a set.                                         *)
LEMMA AssembleSteps ==
  ASSUME NEW b PROVE ToSet(Assemble(b)) = {<<op, b>> : op \in Assembling}
BY GradedAssemble, Zenon DEF Assembling

(* A step for each of the two targets.                                     *)
LEMMA BothSteps ==
  ASSUME NEW b, NEW op \in {"cargo", "boot"}
  PROVE  /\ Graded(Both(op, b), IF op = "cargo" THEN 1 ELSE 7, IF op = "cargo" THEN 1 ELSE 7)
         /\ ToSet(Both(op, b)) = {<<op, <<b, t>>>> : t \in Targets}
<1> DEFINE g == IF op = "cargo" THEN 1 ELSE 7
<1>1. g \in Nat /\ op # "open" OBVIOUS
<1>2. Grade(<<op, <<b, "x86_64">>>>) = g /\ Grade(<<op, <<b, "aarch64">>>>) = g BY GradeOf
<1> HIDE DEF g
<1>3. /\ Graded(Both(op, b), g, g)
      /\ ToSet(Both(op, b)) = {<<op, <<b, "x86_64">>>>, <<op, <<b, "aarch64">>>>}
  BY <1>1, <1>2, GradedBoth, Zenon
<1>4. {<<op, <<b, "x86_64">>>>, <<op, <<b, "aarch64">>>>} = {<<op, <<b, t>>>> : t \in Targets}
  BY Zenon DEF Targets
<1> QED BY <1>3, <1>4 DEF g

(* The steps of a command that copies nothing, as far as LeftOf asks.      *)
LEMMA LeftOfPlain ==
  ASSUME NEW c, NEW L, c # "bootstrap",
         \A x \in L : x[1] \in OpsOf(c) /\ x[1] \notin {"record", "open", "fill"},
         \A x \in L : x[1] = "boot" => x[2] \in MustBoot(c),
         \A x \in L : x[1] \in Assembling => x = <<x[1], BuildOf(c)>>,
         \A p \in MustBoot(c) : <<"boot", p>> \in L,
         c \in Passing => \A op \in Assembling : <<op, BuildOf(c)>> \in L
  PROVE  LeftOf(c, L)
<1>1. "create" \in Assembling /\ "stage" \in Assembling /\ "install" \in Assembling
  BY DEF Assembling
<1> QED BY <1>1, Zenon DEF LeftOf

(* What check and demo have to do when they begin.                         *)
LEMMA StepsOfPassing ==
  ASSUME NEW c \in Passing
  PROVE  /\ Graded(Steps(c), 0, 7) /\ LeftOf(c, ToSet(Steps(c)))
         /\ \A op \in Assembling : <<op, BuildOf(c)>> \in ToSet(Steps(c))
         /\ \A t \in Targets : /\ <<"cargo", <<BuildOf(c), t>>>> \in ToSet(Steps(c))
                               /\ <<"boot", <<BuildOf(c), t>>>> \in ToSet(Steps(c))
<1> DEFINE b == BuildOf(c)
           a1 == Both("cargo", b)
           a2 == Assemble(b)
           a3 == Both("boot", b)
           q == Steps(c)
<1>1. q = a1 \o a2 \o a3 BY DEF Steps, Passing, BuildOf, Runs
<1>0. c # "bootstrap" /\ MustBoot(c) = {b} \X Targets
      /\ OpsOf(c) = Assembling \cup {"cargo", "boot"}
  BY DEF Passing, MustBoot, OpsOf, Runs
<1> HIDE DEF b
<1>2. /\ Graded(a1, 1, 1) /\ Graded(a2, 2, 6) /\ Graded(a3, 7, 7)
      /\ ToSet(a1) = {<<"cargo", <<b, t>>>> : t \in Targets}
      /\ ToSet(a2) = {<<op, b>> : op \in Assembling}
      /\ ToSet(a3) = {<<"boot", <<b, t>>>> : t \in Targets}
  <2>1. /\ Graded(a1, 1, 1) /\ ToSet(a1) = {<<"cargo", <<b, t>>>> : t \in Targets}
    BY BothSteps
  <2>2. /\ Graded(a3, 7, 7) /\ ToSet(a3) = {<<"boot", <<b, t>>>> : t \in Targets}
    BY BothSteps
  <2>3. Graded(a2, 2, 6) BY GradedAssemble
  <2>4. ToSet(a2) = {<<op, b>> : op \in Assembling} BY AssembleSteps
  <2> QED BY <2>1, <2>2, <2>3, <2>4
<1> HIDE DEF a1, a2, a3, q
<1>3. Graded(a1 \o a2, 1, 6) /\ ToSet(a1 \o a2) = ToSet(a1) \cup ToSet(a2)
  <2>1. Graded(a1, 1, 1) /\ Graded(a2, 2, 6) BY <1>2
  <2>2. 1 \in Nat /\ 2 \in Nat /\ 6 \in Nat /\ 1 <= 2 OBVIOUS
  <2> QED BY ONLY <2>1, <2>2, GradedCat
<1>4. /\ Graded(a1 \o a2 \o a3, 1, 7)
      /\ ToSet(a1 \o a2 \o a3) = ToSet(a1 \o a2) \cup ToSet(a3)
  <2>1. Graded(a1 \o a2, 1, 6) /\ Graded(a3, 7, 7) BY <1>2, <1>3
  <2>2. 1 \in Nat /\ 6 \in Nat /\ 7 \in Nat /\ 6 <= 7 OBVIOUS
  <2> QED BY ONLY <2>1, <2>2, GradedCat
<1>5. Graded(q, 0, 7)
  <2>1. 0 \in Nat /\ 1 \in Nat /\ 7 \in Nat /\ 0 <= 1 /\ 7 <= 7 OBVIOUS
  <2> QED BY ONLY <1>1, <1>4, <2>1, Widen
<1> DEFINE T == ToSet(q)
<1>6. /\ \A x \in T : \/ \E t \in Targets : x = <<"cargo", <<b, t>>>>
                      \/ \E op \in Assembling : x = <<op, b>>
                      \/ \E t \in Targets : x = <<"boot", <<b, t>>>>
      /\ \A op \in Assembling : <<op, b>> \in T
      /\ \A t \in Targets : <<"cargo", <<b, t>>>> \in T /\ <<"boot", <<b, t>>>> \in T
  BY <1>1, <1>2, <1>3, <1>4, Zenon
<1> HIDE DEF T
<1>7. ASSUME NEW x \in T
      PROVE  /\ x[1] \in OpsOf(c) /\ x[1] \notin {"record", "open", "fill"}
             /\ x[1] = "boot" => x[2] \in MustBoot(c)
             /\ x[1] \in Assembling => x = <<x[1], b>>
  <2>1. CASE \E t \in Targets : x = <<"cargo", <<b, t>>>>
    <3>1. x[1] = "cargo" BY <2>1
    <3> QED BY <1>0, <3>1 DEF Assembling
  <2>2. CASE \E op \in Assembling : x = <<op, b>>
    <3>1. x[1] \in Assembling /\ x = <<x[1], b>> BY <2>2
    <3> QED BY <1>0, <3>1 DEF Assembling
  <2>3. CASE \E t \in Targets : x = <<"boot", <<b, t>>>>
    <3>1. x[1] = "boot" /\ x[2] \in {b} \X Targets BY <2>3
    <3> QED BY <1>0, <3>1 DEF Assembling
  <2> QED BY <1>6, <2>1, <2>2, <2>3
<1>8. \A p \in MustBoot(c) : <<"boot", p>> \in T
  <2>1. \A p \in {b} \X Targets : \E t \in Targets : p = <<b, t>> OBVIOUS
  <2> QED BY <1>0, <1>6, <2>1, Zenon
<1>9. LeftOf(c, T)
  <2>1. \A op \in Assembling : <<op, BuildOf(c)>> \in T BY <1>6 DEF b
  <2>2. \A x \in T : x[1] \in Assembling => x = <<x[1], BuildOf(c)>> BY <1>7 DEF b
  <2> QED BY <1>0, <1>7, <1>8, <2>1, <2>2, LeftOfPlain, Zenon
<1> QED BY <1>5, <1>6, <1>9 DEF T, q, b

(* What a run of one target has to do when it begins.                      *)
LEMMA StepsOfRuns ==
  ASSUME NEW c \in Runs
  PROVE  /\ Graded(Steps(c), 0, 7) /\ LeftOf(c, ToSet(Steps(c)))
         /\ \A p \in MustBoot(c) : <<"boot", p>> \in ToSet(Steps(c))
<1> DEFINE p == <<"kernel", RunTarget(c)>>
           M == IF IsImage("kernel") THEN <<>> ELSE Assemble("kernel")
           B == On("boot", p)
           q == Steps(c)
<1>1. q = M \o B BY DEF Steps, Runs
<1>0. c # "bootstrap" /\ c \notin Passing /\ MustBoot(c) = {p}
      /\ OpsOf(c) = Assembling \cup {"boot"} /\ BuildOf(c) = "kernel"
  BY DEF Runs, Passing, MustBoot, OpsOf, BuildOf
<1> HIDE DEF p
<1>2. Graded(B, 7, 7) /\ ToSet(B) = {<<"boot", p>>}
  <2>1. Grade(<<"boot", p>>) = 7 /\ 7 \in Nat BY GradeOf
  <2> QED BY <2>1, GradedStep
<1>3. /\ Graded(M, 2, 6)
      /\ \A x \in ToSet(M) : x[1] \in Assembling /\ x = <<x[1], "kernel">>
  <2>1. Graded(<<>>, 2, 6) /\ ToSet(<<>>) = {}
    <3>1. 2 \in Nat /\ 6 \in Nat /\ 2 <= 2 /\ 2 <= 6 OBVIOUS
    <3>2. Graded(<<>>, 2, 2) /\ ToSet(<<>>) = {} BY <3>1, GradedNothing
    <3> QED BY <3>1, <3>2, Widen
  <2>2. Graded(Assemble("kernel"), 2, 6) BY GradedAssemble
  <2>3. \A x \in ToSet(Assemble("kernel")) : x[1] \in Assembling /\ x = <<x[1], "kernel">>
    BY AssembleSteps
  <2> QED BY <2>1, <2>2, <2>3
<1> HIDE DEF M, B, q
<1>4. Graded(M \o B, 2, 7) /\ ToSet(M \o B) = ToSet(M) \cup ToSet(B)
  <2>1. Graded(M, 2, 6) /\ Graded(B, 7, 7) BY <1>2, <1>3
  <2>2. 2 \in Nat /\ 6 \in Nat /\ 7 \in Nat /\ 6 <= 7 OBVIOUS
  <2> QED BY ONLY <2>1, <2>2, GradedCat
<1>5. Graded(q, 0, 7)
  <2>1. 0 \in Nat /\ 2 \in Nat /\ 7 \in Nat /\ 0 <= 2 /\ 7 <= 7 OBVIOUS
  <2> QED BY ONLY <1>1, <1>4, <2>1, Widen
<1> DEFINE T == ToSet(q)
<1>6. <<"boot", p>> \in T /\ \A x \in T : \/ x[1] \in Assembling /\ x = <<x[1], "kernel">>
                                       \/ x = <<"boot", p>>
  BY <1>1, <1>2, <1>3, <1>4, Zenon
<1> HIDE DEF T
<1>7. ASSUME NEW x \in T
      PROVE  /\ x[1] \in OpsOf(c) /\ x[1] \notin {"record", "open", "fill"}
             /\ x[1] = "boot" => x[2] \in MustBoot(c)
             /\ x[1] \in Assembling => x = <<x[1], BuildOf(c)>>
  <2>1. CASE x[1] \in Assembling /\ x = <<x[1], "kernel">> BY <1>0, <2>1 DEF Assembling
  <2>2. CASE x = <<"boot", p>>
    <3>1. x[1] = "boot" /\ x[2] = p BY <2>2
    <3> QED BY <1>0, <3>1 DEF Assembling
  <2> QED BY <1>6, <2>1, <2>2
<1>8. \A r \in MustBoot(c) : <<"boot", r>> \in T BY <1>0, <1>6
<1>9. LeftOf(c, T) BY <1>0, <1>7, <1>8, LeftOfPlain, Zenon
<1> QED BY <1>5, <1>8, <1>9 DEF T, q

(* What build, build-image and clean have to do when they begin.           *)
LEMMA StepsOfOthers ==
  ASSUME NEW c \in {"build", "build-image", "clean"}
  PROVE  Graded(Steps(c), 0, 7) /\ LeftOf(c, ToSet(Steps(c)))
<1> DEFINE q == Steps(c)
           T == ToSet(q)
<1>0. /\ c # "bootstrap" /\ c \notin Passing /\ MustBoot(c) = {}
      /\ BuildOf(c) = "kernel"
  BY DEF Runs, Passing, MustBoot, BuildOf
<1>1. SUFFICES /\ Graded(q, 0, 7)
               /\ \A x \in T : /\ x[1] \in OpsOf(c)
                               /\ x[1] \notin {"record", "open", "fill", "boot"}
                               /\ x[1] \in Assembling => x = <<x[1], "kernel">>
  BY <1>0, LeftOfPlain
<1>n. /\ 0 \in Nat /\ 1 \in Nat /\ 2 \in Nat /\ 6 \in Nat /\ 7 \in Nat
      /\ 0 <= 0 /\ 0 <= 1 /\ 0 <= 2 /\ 0 <= 7 /\ 1 <= 7 /\ 6 <= 7
  OBVIOUS
<1>2. CASE c = "build"
  <2>1. q = Both("cargo", "kernel") /\ OpsOf(c) = {"cargo"}
    <3>1. Steps("build") = Both("cargo", "kernel") BY DEF Steps, Runs
    <3>2. OpsOf("build") = {"cargo"} BY DEF OpsOf, Runs, Passing
    <3> QED BY <1>2, <3>1, <3>2
  <2>2. Graded(Both("cargo", "kernel"), 1, 1)
        /\ \A x \in ToSet(Both("cargo", "kernel")) : x[1] = "cargo"
    BY BothSteps
  <2> QED BY <1>n, <2>1, <2>2, Widen DEF Assembling
<1>3. CASE c = "build-image"
  <2>1. q = Assemble("kernel") /\ OpsOf(c) = Assembling
    <3>1. Steps("build-image") = Assemble("kernel") BY DEF Steps, Runs
    <3>2. OpsOf("build-image") = Assembling BY DEF OpsOf, Runs, Passing
    <3> QED BY <1>3, <3>1, <3>2
  <2>2. Graded(Assemble("kernel"), 2, 6)
        /\ \A x \in ToSet(Assemble("kernel")) :
             x[1] \in Assembling /\ x = <<x[1], "kernel">>
    BY GradedAssemble, AssembleSteps
  <2>3. Graded(q, 0, 7) BY <1>n, <2>1, <2>2, Widen
  <2> QED BY <2>1, <2>2, <2>3 DEF Assembling
<1>4. CASE c = "clean"
  <2> DEFINE a1 == On("remove", "target")
             a2 == On("remove", "build")
  <2>1. q = a1 \o a2 /\ OpsOf(c) = {"remove"} BY <1>4 DEF Steps, Runs, OpsOf
  <2>2. /\ Graded(a1, 0, 0) /\ \A x \in ToSet(a1) : x[1] = "remove"
        /\ Graded(a2, 0, 0) /\ \A x \in ToSet(a2) : x[1] = "remove"
    <3>1. Grade(<<"remove", "target">>) = 0 /\ Grade(<<"remove", "build">>) = 0
      BY GradeOf
    <3> QED BY <1>n, <3>1, GradedStep
  <2> HIDE DEF a1, a2
  <2>3. Graded(a1 \o a2, 0, 0) /\ ToSet(a1 \o a2) = ToSet(a1) \cup ToSet(a2)
    BY <1>n, <2>2, GradedCat
  <2>4. Graded(q, 0, 7) BY <1>n, <2>1, <2>3, Widen
  <2> QED BY <2>1, <2>2, <2>3, <2>4 DEF Assembling
<1> QED BY <1>2, <1>3, <1>4

(* Every command begins with what LeftOf allows.                           *)
LEMMA StepsOfCommand ==
  ASSUME NEW c \in Commands
  PROVE  Graded(Steps(c), 0, 7) /\ LeftOf(c, ToSet(Steps(c)))
BY StepsOfBootstrap, StepsOfPassing, StepsOfRuns, StepsOfOthers, Zenon
   DEF Commands, Passing
-----------------------------------------------------------------------------
(* What a step leaves.                                                     *)
LEMMA OpsTell ==
  ASSUME NEW c \in Commands \cup {"none"}, NEW op \in OpsOf(c)
  PROVE  /\ op \in Making <=> c = "bootstrap"
         /\ op = "remove" => c = "clean"
<1>1. OpsOf("bootstrap") = Making BY DEF OpsOf, Runs, Passing
<1>2. OpsOf("build") = {"cargo"} BY DEF OpsOf, Runs, Passing
<1>3. OpsOf("build-image") = Assembling BY DEF OpsOf, Runs, Passing
<1>4. \A r \in Runs : OpsOf(r) = Assembling \cup {"boot"} BY DEF OpsOf, Runs, Passing
<1>5. \A r \in Passing : OpsOf(r) = Assembling \cup {"cargo", "boot"}
  BY DEF OpsOf, Runs, Passing
<1>6. OpsOf("clean") = {"remove"} /\ OpsOf("none") = {} BY DEF OpsOf, Runs, Passing
<1>7. /\ \A o \in Assembling \cup {"cargo", "boot", "remove"} : o \notin Making
      /\ "remove" \notin Making /\ "remove" \notin Assembling
  BY DEF Making, Assembling
<1>8. c \in {"bootstrap", "build", "build-image", "clean", "none"} \cup Runs \cup Passing
  BY DEF Commands, Passing
<1>9. \A r \in Runs \cup Passing : r \notin {"bootstrap", "clean"} BY DEF Runs, Passing
<1>10. CASE c = "bootstrap" BY <1>1, <1>7, <1>10
<1>11. CASE c = "build" BY <1>2, <1>7, <1>11
<1>12. CASE c = "build-image" BY <1>3, <1>7, <1>12
<1>13. CASE c \in Runs BY <1>4, <1>7, <1>9, <1>13
<1>14. CASE c \in Passing BY <1>5, <1>7, <1>9, <1>14
<1>15. CASE c \in {"clean", "none"} BY <1>6, <1>7, <1>15
<1> QED BY <1>8, <1>10, <1>11, <1>12, <1>13, <1>14, <1>15

(* The set of what is left, without its first step.                        *)
LEMMA LeftOfTail ==
  ASSUME NEW c, NEW h, NEW L, NEW K, LeftOf(c, K), K = {h} \cup L,
         \A x \in L : Grade(h) <= Grade(x)
  PROVE  LeftOf(c, L)
<1>1. ASSUME NEW x \in L, Grade(x) \in {2, 3}, c = "bootstrap"
      PROVE  <<"record", "">> \in L
  <2>1. <<"record", "">> \in K BY <1>1 DEF LeftOf
  <2>2. Grade(<<"record", "">>) = 4 BY GradeOf
  <2>3. <<"record", "">> # h
    <3>1. SUFFICES ASSUME <<"record", "">> = h PROVE FALSE OBVIOUS
    <3>2. Grade(h) = 4 BY <2>2, <3>1, Zenon
    <3> QED BY <1>1, <3>2
  <2> QED BY <2>1, <2>3
<1>2. ASSUME NEW x \in L, NEW p \in MustBoot(c), x[1] \in Assembling
      PROVE  <<"boot", p>> \in L
  <2>1. <<"boot", p>> \in K BY <1>2 DEF LeftOf
  <2>2. Grade(<<"boot", p>>) = 7 BY GradeOf
  <2>3. Grade(x) \in 2..6 BY <1>2, GradeOf DEF Assembling
  <2>4. <<"boot", p>> # h
    <3>1. SUFFICES ASSUME <<"boot", p>> = h PROVE FALSE OBVIOUS
    <3>2. Grade(h) = 7 BY <2>2, <3>1, Zenon
    <3> QED BY <2>3, <3>2
  <2> QED BY <2>1, <2>4
<1>3. ASSUME NEW a, NEW b, NEW i \in Nat, NEW j \in Nat, a \in L, b \in K,
             Grade(a) = i, Grade(b) = j, i < j
      PROVE  b \in L
  <2>1. CASE b = h
    <3>1. Grade(h) = j BY <1>3, <2>1, Zenon
    <3> QED BY <1>3, <3>1
  <2> QED BY <1>3, <2>1
<1>4. ASSUME c \in Passing
      PROVE  /\ <<"create", BuildOf(c)>> \in L => <<"stage", BuildOf(c)>> \in L
             /\ <<"stage", BuildOf(c)>> \in L => <<"install", BuildOf(c)>> \in L
  <2> DEFINE b == BuildOf(c)
  <2>1. /\ <<"create", b>> \in K => <<"stage", b>> \in K
        /\ <<"stage", b>> \in K => <<"install", b>> \in K
    BY <1>4 DEF LeftOf
  <2>2. /\ Grade(<<"create", b>>) = 3 /\ Grade(<<"stage", b>>) = 4
        /\ Grade(<<"install", b>>) = 5
    BY GradeOf
  <2>3. 3 \in Nat /\ 4 \in Nat /\ 5 \in Nat /\ 3 < 4 /\ 4 < 5 OBVIOUS
  <2>4. \A x \in L : x \in K OBVIOUS
  <2> HIDE DEF b
  <2>5. <<"create", b>> \in L => <<"stage", b>> \in L
    BY <1>3, <2>1, <2>2, <2>3, <2>4, Zenon
  <2>6. <<"stage", b>> \in L => <<"install", b>> \in L
    BY <1>3, <2>1, <2>2, <2>3, <2>4, Zenon
  <2> QED BY <2>5, <2>6 DEF b
<1>5. /\ \A x \in L : x[1] \in OpsOf(c)
      /\ \A x \in L : x[1] = "record" => x = <<"record", "">>
      /\ \A x \in L : x[1] \in Assembling => x = <<x[1], BuildOf(c)>>
      /\ \A x \in L : x[1] \in {"open", "fill"} => x[2] \in Files
      /\ \A x \in L : x[1] = "boot" => x[2] \in MustBoot(c)
  <2>1. \A x \in L : x \in K OBVIOUS
  <2> QED BY <2>1, Zenon DEF LeftOf
<1> QED BY <1>1, <1>2, <1>4, <1>5, Zenon DEF LeftOf

(* The first step of the running command, and what it leaves.              *)
LEMMA FirstLeft ==
  ASSUME WorkTypes, todo # <<>>
  PROVE  /\ name # "none" /\ verdict = NoVerdict /\ name \in Commands
         /\ Left = {Head(todo)} \cup ToSet(Tail(todo))
         /\ Grade(Head(todo)) \in 0..7
         /\ Graded(Tail(todo), Grade(Head(todo)), 7)
         /\ \A x \in ToSet(Tail(todo)) : Grade(Head(todo)) <= Grade(x)
         /\ LeftOf(name, ToSet(Tail(todo)))
         /\ Head(todo)[1] = "open" => <<"fill", Head(todo)[2]>> \in ToSet(Tail(todo))
         /\ Head(todo)[1] \in OpsOf(name)
         /\ Head(todo)[1] \in Making <=> name = "bootstrap"
         /\ Head(todo)[1] = "remove" => name = "clean"
<1> DEFINE h == Head(todo)
           t == Tail(todo)
<1>1. name # "none" /\ verdict = NoVerdict /\ name \in Commands BY DEF WorkTypes
<1>2. Graded(todo, 0, 7) /\ LeftOf(name, Left) BY DEF WorkTypes
<1>n. 0 \in Nat /\ 7 \in Nat OBVIOUS
<1>3. /\ Grade(h) \in 0..7 /\ Graded(t, Grade(h), 7)
      /\ ToSet(todo) = {h} \cup ToSet(t)
      /\ \A x \in ToSet(t) : Grade(h) <= Grade(x)
      /\ h[1] = "open" => <<"fill", h[2]>> \in ToSet(t)
  BY <1>2, <1>n, GradedTail
<1>4. Left = {h} \cup ToSet(t) BY <1>3 DEF Left
<1> HIDE DEF h, t
<1>5. LeftOf(name, ToSet(t)) BY <1>2, <1>3, <1>4, LeftOfTail, Zenon
<1>6. h[1] \in OpsOf(name) BY <1>2, <1>4 DEF LeftOf
<1>7. (h[1] \in Making <=> name = "bootstrap") /\ (h[1] = "remove" => name = "clean")
  BY <1>1, <1>6, OpsTell
<1> QED BY <1>1, <1>3, <1>4, <1>5, <1>6, <1>7 DEF h, t

(* What is left after the first step is still graded.                      *)
LEMMA Shorter ==
  ASSUME NEW q, NEW g \in 0..7, Graded(q, g, 7) PROVE Graded(q, 0, 7)
<1>1. g \in Nat /\ 0 \in Nat /\ 7 \in Nat /\ 0 <= g /\ 7 <= 7 OBVIOUS
<1> QED BY <1>1, Widen

(* A running command that goes on: only its files are left to look at.     *)
LEMMA GoesOn ==
  ASSUME WorkTypes, Kept, name # "none", Graded(todo', 0, 7), LeftOf(name, Left'),
         DOMAIN file' = Files, DOMAIN image' = Builds,
         DOMAIN elf' = Builds, \A b \in Builds : DOMAIN elf'[b] = Targets,
         marker' \in Nat
  PROVE  WorkTypes' /\ Promises'
<1>1. name' = name /\ host' = host /\ verdict' = NoVerdict
  BY DEF Kept, WorkTypes
<1>2. WorkTypes' BY <1>1 DEF WorkTypes
<1>3. Promises'
  BY <1>1 DEF Promises, BootstrapMeansReady, PassMeansCurrent, FailedCheckExplained,
    NoVerdict, Runs
<1> QED BY <1>2, <1>3

(* The types hold when a command goes on to its next step.                 *)
LEMMA StepsOn ==
  ASSUME WorkTypes, todo # <<>>, Onward,
         DOMAIN file' = Files, DOMAIN image' = Builds,
         DOMAIN elf' = Builds, \A b \in Builds : DOMAIN elf'[b] = Targets,
         marker' \in Nat
  PROVE  /\ WorkTypes' /\ Promises'
         /\ name' = name /\ host' = host
         /\ Left = {Head(todo)} \cup Left'
         /\ \A x \in Left' : Grade(Head(todo)) <= Grade(x)
<1>1. todo' = Tail(todo) /\ Kept BY DEF Onward
<1>2. /\ name # "none"
      /\ Left = {Head(todo)} \cup ToSet(Tail(todo))
      /\ Grade(Head(todo)) \in 0..7 /\ Graded(Tail(todo), Grade(Head(todo)), 7)
      /\ \A x \in ToSet(Tail(todo)) : Grade(Head(todo)) <= Grade(x)
      /\ LeftOf(name, ToSet(Tail(todo)))
  BY FirstLeft
<1>3. Left' = ToSet(Tail(todo)) BY <1>1 DEF Left
<1>4. Graded(todo', 0, 7) BY <1>1, <1>2, Shorter
<1>5. LeftOf(name, Left') BY <1>2, <1>3
<1>6. WorkTypes' /\ Promises' BY <1>1, <1>2, <1>4, <1>5, GoesOn
<1> QED BY <1>1, <1>2, <1>3, <1>6 DEF Kept

(* Materializing, in terms of what is left.                                *)
Recording(L) == <<"record", "">> \in L /\ \A x \in L : x[1] # "fetch"

(* A step that is ahead is one of those that are left.                     *)
LEMMA AheadInSet ==
  ASSUME NEW q, NEW c, Graded(q, 0, 7), LeftOf(c, ToSet(q))
  PROVE  /\ (\E i \in 1..Len(q) : q[i][1] = "record") <=> <<"record", "">> \in ToSet(q)
         /\ (\E i \in 1..Len(q) : q[i][1] = "fetch") <=> \E x \in ToSet(q) : x[1] = "fetch"
<1>1. DOMAIN q = 1..Len(q) BY DEF Graded
<1>2. ToSet(q) = {q[i] : i \in 1..Len(q)} BY <1>1 DEF ToSet
<1>3. (\E i \in 1..Len(q) : q[i][1] = "fetch") <=> \E x \in ToSet(q) : x[1] = "fetch"
  BY <1>2
<1>4. (\E i \in 1..Len(q) : q[i][1] = "record") <=> \E x \in ToSet(q) : x[1] = "record"
  BY <1>2
<1>5. \A x \in ToSet(q) : x[1] = "record" => x = <<"record", "">> BY DEF LeftOf
<1>6. <<"record", "">>[1] = "record" OBVIOUS
<1> QED BY <1>3, <1>4, <1>5, <1>6

(* Materializing depends on the set of the steps left alone.               *)
LEMMA MaterializingIs ==
  ASSUME WorkTypes, WorkTypes'
  PROVE  (Materializing <=> Recording(Left)) /\ (Materializing' <=> Recording(Left'))
<1>1. ASSUME NEW q, NEW c, Graded(q, 0, 7), LeftOf(c, ToSet(q))
      PROVE  /\ (\E i \in 1..Len(q) : q[i][1] = "record")
                  /\ ~(\E i \in 1..Len(q) : q[i][1] = "fetch")
             <=> Recording(ToSet(q))
  BY <1>1, AheadInSet DEF Recording
<1>2. Graded(todo, 0, 7) /\ LeftOf(name, ToSet(todo)) BY DEF WorkTypes, Left
<1>3. Graded(todo', 0, 7) /\ LeftOf(name', ToSet(todo')) BY DEF WorkTypes, Left
<1>4. /\ (\E i \in 1..Len(todo) : todo[i][1] = "record")
           /\ ~(\E i \in 1..Len(todo) : todo[i][1] = "fetch")
      <=> Recording(ToSet(todo))
  BY <1>1, <1>2
<1>5. /\ (\E i \in 1..Len(todo') : todo'[i][1] = "record")
           /\ ~(\E i \in 1..Len(todo') : todo'[i][1] = "fetch")
      <=> Recording(ToSet(todo'))
  BY <1>1, <1>3
<1>6. Materializing <=> Recording(Left) BY <1>4 DEF Materializing, Ahead, Left
<1>7. Materializing' <=> Recording(Left') BY <1>5 DEF Materializing, Ahead, Left
<1> QED BY <1>6, <1>7

(* Loaders that are not touched, by a step that does not record.           *)
LEMMA LoadersKept ==
  ASSUME WorkTypes, WorkTypes', LoadersInv, marker' = marker, UNCHANGED history,
         \/ Recording(Left')
         \/ /\ \A f \in ToSet(Payloads) \cup {Tool} : file'[f] = file[f]
            /\ Recording(Left) => Recording(Left')
  PROVE  LoadersInv'
<1>1. CASE Recording(Left') BY <1>1, MaterializingIs DEF LoadersInv
<1>2. CASE ~Recording(Left')
  <2>1. ~Materializing BY <1>2, MaterializingIs
  <2>2. scars' = scars /\ unbuilt' = unbuilt BY DEF history
  <2>3. \A f \in ToSet(Payloads) \cup {Tool} : Marked(f)' <=> Marked(f)
    BY <1>2, <2>2 DEF Marked
  <2> QED BY <2>1, <2>2, <2>3 DEF LoadersInv
<1> QED BY <1>1, <1>2

(* Recording stays ahead until it is done.                                 *)
LEMMA RecordingKept ==
  ASSUME NEW h, NEW L, NEW K, K = {h} \cup L, h[1] # "record"
  PROVE  Recording(K) => Recording(L)
<1> DEFINE r == <<"record", "">>
<1>1. r[1] = "record" OBVIOUS
<1> HIDE DEF r
<1>2. h # r BY <1>1
<1> QED BY <1>2 DEF Recording, r
-----------------------------------------------------------------------------
(* The steps of bootstrap.                                                 *)
LEMMA OtherStep ==
  ASSUME NEW h, NEW op, NEW x, h[1] # op PROVE h # <<op, x>>
<1> DEFINE r == <<op, x>>
<1>1. r[1] = op OBVIOUS
<1> HIDE DEF r
<1>2. h # r BY <1>1
<1> QED BY <1>2 DEF r

(* A step of bootstrap that goes on.                                       *)
LEMMA MakingStep ==
  ASSUME WorkInv, todo # <<>>, Head(todo)[1] \in Making, Onward,
         DOMAIN file' = Files, UNCHANGED <<elf, image>>, marker' \in Nat
  PROVE  /\ WorkTypes' /\ Promises' /\ PassInv' /\ CheckInv'
         /\ name = "bootstrap" /\ name' = name /\ host' = host
         /\ Left = {Head(todo)} \cup Left'
         /\ \A x \in Left' : Grade(Head(todo)) <= Grade(x)
<1>1. WorkTypes BY DEF WorkInv
<1>2. /\ DOMAIN image' = Builds
      /\ DOMAIN elf' = Builds /\ \A b \in Builds : DOMAIN elf'[b] = Targets
  BY <1>1 DEF WorkTypes
<1>3. /\ WorkTypes' /\ Promises' /\ name' = name /\ host' = host
      /\ Left = {Head(todo)} \cup Left'
      /\ \A x \in Left' : Grade(Head(todo)) <= Grade(x)
  BY <1>1, <1>2, StepsOn
<1>4. name = "bootstrap" BY <1>1, FirstLeft
<1>5. name' = "bootstrap" BY <1>3, <1>4
<1>6. PassInv' /\ CheckInv'
  BY <1>5 DEF PassInv, CheckInv, MustBoot, Passing, Runs
<1> QED BY <1>3, <1>4, <1>6

(* A step of bootstrap that changes no file.                               *)
LEMMA QuietMaking ==
  ASSUME WorkInv, todo # <<>>, Head(todo)[1] \in {"toolchain", "native", "fetch"},
         Onward, UNCHANGED <<file, marker, elf, image, history>>
  PROVE  WorkInv'
<1> DEFINE h == Head(todo)
<1>1. WorkTypes /\ LoadersInv /\ BootstrapInv BY DEF WorkInv
<1>2. h[1] \in Making /\ DOMAIN file' = Files /\ marker' \in Nat
  BY <1>1 DEF Making, WorkTypes
<1>3. /\ WorkTypes' /\ Promises' /\ PassInv' /\ CheckInv'
      /\ name = "bootstrap" /\ name' = name /\ host' = host
      /\ Left = {h} \cup Left'
  BY <1>2, MakingStep
<1> HIDE DEF h
<1>4. h[1] \notin {"fill", "record", "firmware", "compile"} BY DEF h
<1>5. LoadersInv'
  <2>1. Recording(Left) => Recording(Left') BY <1>3, <1>4, RecordingKept
  <2> QED BY <1>1, <1>3, <2>1, LoadersKept
<1>6. \A op \in {"fill", "record", "firmware", "compile"} :
        \A x : <<op, x>> \in Left <=> <<op, x>> \in Left'
  BY <1>3, <1>4, OtherStep
<1>7. BootstrapInv'
  <2>1. /\ \A x : <<"fill", x>> \in Left <=> <<"fill", x>> \in Left'
        /\ <<"record", "">> \in Left <=> <<"record", "">> \in Left'
        /\ <<"firmware", "">> \in Left <=> <<"firmware", "">> \in Left'
        /\ <<"compile", "">> \in Left <=> <<"compile", "">> \in Left'
    BY <1>6
  <2>2. file' = file /\ scars' = scars BY DEF history
  <2> QED BY <1>1, <1>3, <2>1, <2>2 DEF BootstrapInv
<1> QED BY <1>3, <1>5, <1>7 DEF WorkInv

(* The grades of the tool's copy, which come before recording.             *)
LEMMA ToolGrades ==
  /\ Grade(<<"open", Tool>>) = 3 /\ Grade(<<"fill", Tool>>) = 3
  /\ Grade(<<"open", "edk2">>) = 5 /\ Grade(<<"fill", "edk2">>) = 5
  /\ Grade(<<"record", "">>) = 4 /\ Grade(<<"compile", "">>) = 3
  /\ Tool # "edk2" /\ Tool \in Files /\ "edk2" \in Files
<1>1. Tool # "edk2" /\ Tool \in Files /\ "edk2" \in Files BY DEF Tool, Files
<1>2. Grade(<<"open", Tool>>) = 3 /\ Grade(<<"fill", Tool>>) = 3 BY <1>1, GradeOf
<1>3. Grade(<<"open", "edk2">>) = 5 /\ Grade(<<"fill", "edk2">>) = 5 BY GradeOf
<1>4. Grade(<<"record", "">>) = 4 /\ Grade(<<"compile", "">>) = 3 BY GradeOf
<1> QED BY <1>1, <1>2, <1>3, <1>4

(* The grades of a payload's copy, which come before recording.            *)
LEMMA FileGrades ==
  ASSUME NEW f \in ToSet(Payloads)
  PROVE  /\ f \in Files /\ f # "edk2" /\ f # Tool
         /\ Grade(<<"open", f>>) = 2 /\ Grade(<<"fill", f>>) = 2
<1>1. f \in Files /\ f # "edk2" /\ f # Tool BY WorkspaceAssumption DEF Files, Tool
<1>2. Grade(<<"open", f>>) = 2 /\ Grade(<<"fill", f>>) = 2 BY <1>1, GradeOf
<1> QED BY <1>1, <1>2

(* While a payload or the tool is being copied, the recording is ahead.    *)
LEMMA CopyIsRecorded ==
  ASSUME NEW h, NEW L, NEW K, K = {h} \cup L, LeftOf("bootstrap", K),
         \A x \in L : Grade(h) <= Grade(x), Grade(h) \in {2, 3}
  PROVE  Recording(L)
<1>1. <<"record", "">> \in K BY DEF LeftOf
<1>2. Grade(<<"record", "">>) = 4 BY GradeOf
<1>3. <<"record", "">> # h
  <2>1. SUFFICES ASSUME <<"record", "">> = h PROVE FALSE OBVIOUS
  <2>2. Grade(h) = 4 BY <1>2, <2>1, Zenon
  <2> QED BY <2>2
<1>4. \A x \in L : x[1] # "fetch"
  <2>1. ASSUME NEW x \in L, x[1] = "fetch" PROVE FALSE
    <3>1. Grade(x) = 1 BY <2>1, GradeOf
    <3> QED BY <3>1
  <2> QED BY <2>1
<1> QED BY <1>1, <1>3, <1>4 DEF Recording

(* A copy begins: the file is torn, and its filling is the next step.      *)
LEMMA OpenStep ==
  ASSUME WorkInv, OpenFile PROVE WorkInv'
<1> DEFINE h == Head(todo)
           f == Arg
<1>0. /\ todo # <<>> /\ h[1] = "open" /\ f = h[2] /\ Onward
      /\ file' = [file EXCEPT ![f] = Torn]
      /\ UNCHANGED <<marker, elf, image, history>>
  BY DEF OpenFile, Running, Arg
<1>1. WorkTypes /\ LoadersInv /\ BootstrapInv BY DEF WorkInv
<1>2. h[1] \in Making /\ DOMAIN file' = Files /\ marker' \in Nat
  BY <1>0, <1>1 DEF Making, WorkTypes
<1>3. /\ WorkTypes' /\ Promises' /\ PassInv' /\ CheckInv'
      /\ name = "bootstrap" /\ name' = name /\ host' = host
      /\ Left = {h} \cup Left'
      /\ \A x \in Left' : Grade(h) <= Grade(x)
  BY <1>0, <1>2, MakingStep
<1>4. <<"fill", f>> \in Left'
  <2>1. Left' = ToSet(Tail(todo)) BY <1>0 DEF Left, Onward
  <2>2. <<"fill", h[2]>> \in ToSet(Tail(todo)) BY <1>0, <1>1, FirstLeft
  <2> QED BY <1>0, <2>1, <2>2
<1>5. LeftOf("bootstrap", Left) BY <1>1, <1>3 DEF WorkTypes
<1> HIDE DEF h, f
<1>6. f \in Files /\ Grade(h) = IF f = "edk2" THEN 5 ELSE IF f = Tool THEN 3 ELSE 2
  BY <1>0, <1>3, <1>5, GradeOf DEF LeftOf
<1>7. \A g : g # f => file'[g] = file[g] BY <1>0, <1>1 DEF WorkTypes
<1>8. LoadersInv'
  <2>1. marker' = marker /\ UNCHANGED history BY <1>0
  <2>2. CASE f = "edk2"
    <3>1. \A g \in ToSet(Payloads) \cup {Tool} : file'[g] = file[g]
      BY <1>7, <2>2, FileGrades, ToolGrades
    <3>2. Recording(Left) => Recording(Left') BY <1>0, <1>3, RecordingKept
    <3> QED BY <1>1, <1>3, <2>1, <3>1, <3>2, LoadersKept
  <2>3. CASE f # "edk2"
    <3>1. Grade(h) \in {2, 3} BY <1>6, <2>3
    <3>2. Recording(Left') BY <1>3, <1>5, <3>1, CopyIsRecorded
    <3> QED BY <1>1, <1>3, <2>1, <3>2, LoadersKept
  <2> QED BY <2>2, <2>3
<1>9. BootstrapInv'
  <2>1. \A op \in {"fill", "record", "firmware", "compile"} :
          \A x : <<op, x>> \in Left <=> <<op, x>> \in Left'
    BY <1>0, <1>3, OtherStep
  <2>2. /\ \A x : <<"fill", x>> \in Left <=> <<"fill", x>> \in Left'
        /\ <<"record", "">> \in Left <=> <<"record", "">> \in Left'
        /\ <<"firmware", "">> \in Left <=> <<"firmware", "">> \in Left'
        /\ <<"compile", "">> \in Left <=> <<"compile", "">> \in Left'
    BY <2>1
  <2>3. scars' = scars BY <1>0 DEF history
  <2> QED BY <1>1, <1>3, <1>4, <1>7, <2>2, <2>3 DEF BootstrapInv
<1> QED BY <1>3, <1>8, <1>9 DEF WorkInv

(* A copy ends: the file has the version of the pin.                       *)
LEMMA FillStep ==
  ASSUME WorkInv, FillFile PROVE WorkInv'
<1> DEFINE h == Head(todo)
           f == Arg
           v == IF f = "edk2" THEN host.firmware ELSE host.pin
<1>0. /\ todo # <<>> /\ h[1] = "fill" /\ f = h[2] /\ Onward
      /\ file' = [file EXCEPT ![f] = v]
      /\ UNCHANGED <<marker, elf, image, history>>
  BY DEF FillFile, Running, Arg
<1>1. WorkTypes /\ LoadersInv /\ BootstrapInv BY DEF WorkInv
<1>2. h[1] \in Making /\ DOMAIN file' = Files /\ marker' \in Nat
  BY <1>0, <1>1 DEF Making, WorkTypes
<1>3. /\ WorkTypes' /\ Promises' /\ PassInv' /\ CheckInv'
      /\ name = "bootstrap" /\ name' = name /\ host' = host
      /\ Left = {h} \cup Left'
      /\ \A x \in Left' : Grade(h) <= Grade(x)
  BY <1>0, <1>2, MakingStep
<1>5. LeftOf("bootstrap", Left) BY <1>1, <1>3 DEF WorkTypes
<1> HIDE DEF h, f, v
<1>6. f \in Files /\ Grade(h) = IF f = "edk2" THEN 5 ELSE IF f = Tool THEN 3 ELSE 2
  BY <1>0, <1>3, <1>5, GradeOf DEF LeftOf
<1>7. file'[f] = v /\ \A g : g # f => file'[g] = file[g]
  BY <1>0, <1>1, <1>6 DEF WorkTypes
<1>8. LoadersInv'
  <2>1. marker' = marker /\ UNCHANGED history BY <1>0
  <2>2. CASE f = "edk2"
    <3>1. \A g \in ToSet(Payloads) \cup {Tool} : file'[g] = file[g]
      BY <1>7, <2>2, FileGrades, ToolGrades
    <3>2. Recording(Left) => Recording(Left') BY <1>0, <1>3, RecordingKept
    <3> QED BY <1>1, <1>3, <2>1, <3>1, <3>2, LoadersKept
  <2>3. CASE f # "edk2"
    <3>1. Grade(h) \in {2, 3} BY <1>6, <2>3
    <3>2. Recording(Left') BY <1>3, <1>5, <3>1, CopyIsRecorded
    <3> QED BY <1>1, <1>3, <2>1, <3>2, LoadersKept
  <2> QED BY <2>2, <2>3
<1>9. BootstrapInv'
  <2>1. \A op \in {"record", "firmware", "compile"} :
          \A x : <<op, x>> \in Left <=> <<op, x>> \in Left'
    BY <1>0, <1>3, OtherStep
  <2>2. /\ <<"record", "">> \in Left <=> <<"record", "">> \in Left'
        /\ <<"firmware", "">> \in Left <=> <<"firmware", "">> \in Left'
        /\ <<"compile", "">> \in Left <=> <<"compile", "">> \in Left'
    BY <2>1
  <2>3. scars' = scars BY <1>0 DEF history
  <2>4. \A g : <<"fill", g>> \in Left => g = f \/ <<"fill", g>> \in Left'
    <3>1. ASSUME NEW g, <<"fill", g>> \in Left, g # f PROVE <<"fill", g>> \in Left'
      <4> DEFINE r == <<"fill", g>>
      <4>1. r[2] = g OBVIOUS
      <4> HIDE DEF r
      <4>2. r # h BY <1>0, <3>1, <4>1
      <4> QED BY <1>3, <3>1, <4>2 DEF r
    <3> QED BY <3>1
  <2>5. ASSUME NEW g \in ToSet(Payloads)
        PROVE  \/ <<"fill", g>> \in Left'
               \/ file'[g] = host'.pin
               \/ host'.pin \in scars' /\ <<"record", "">> \notin Left'
    <3>1. CASE g = f BY <1>3, <1>7, <2>5, <3>1, FileGrades DEF v
    <3>2. CASE g # f BY <1>1, <1>3, <1>7, <2>2, <2>3, <2>4, <3>2 DEF BootstrapInv
    <3> QED BY <3>1, <3>2
  <2>6. \/ {<<"firmware", "">>, <<"fill", "edk2">>} \cap Left' # {}
        \/ file'["edk2"] = host'.firmware
    <3>1. CASE "edk2" = f BY <1>3, <1>7, <3>1 DEF v
    <3>2. CASE "edk2" # f BY <1>1, <1>3, <1>7, <2>2, <2>4, <3>2 DEF BootstrapInv
    <3> QED BY <3>1, <3>2
  <2>7. <<"record", "">> \in Left' /\ host'.cc =>
          \/ {<<"compile", "">>, <<"fill", Tool>>} \cap Left' # {}
          \/ file'[Tool] = host'.pin
    <3>1. CASE Tool = f BY <1>3, <1>7, <3>1, FileGrades, ToolGrades DEF v
    <3>2. CASE Tool # f BY <1>1, <1>3, <1>7, <2>2, <2>4, <3>2 DEF BootstrapInv
    <3> QED BY <3>1, <3>2
  <2> QED BY <2>5, <2>6, <2>7 DEF BootstrapInv
<1> QED BY <1>3, <1>8, <1>9 DEF WorkInv

(* A step of bootstrap that puts others in front of what is left.          *)
LEMMA MakingMore ==
  ASSUME WorkInv, todo # <<>>, Head(todo)[1] \in Making, Kept, UNCHANGED tree,
         NEW q, NEW k \in 0..7, Graded(q, k, k), todo' = q \o Tail(todo),
         Grade(Head(todo)) = k,
         \A x \in ToSet(q) : /\ x[1] \in {"open", "fill"} /\ x[2] \in Files
                             /\ Grade(x) \notin {2, 3}
                                  \/ <<"record", "">> \in ToSet(Tail(todo))
  PROVE  /\ WorkTypes' /\ Promises' /\ PassInv' /\ CheckInv'
         /\ name = "bootstrap" /\ name' = name /\ host' = host
         /\ Left = {Head(todo)} \cup ToSet(Tail(todo))
         /\ Left' = ToSet(q) \cup ToSet(Tail(todo))
         /\ \A x \in ToSet(Tail(todo)) : k <= Grade(x)
<1> DEFINE h == Head(todo)
           t == Tail(todo)
<1>1. WorkTypes BY DEF WorkInv
<1>2. /\ name # "none" /\ Left = {h} \cup ToSet(t) /\ Graded(t, k, 7)
      /\ \A x \in ToSet(t) : k <= Grade(x)
      /\ LeftOf(name, ToSet(t)) /\ name = "bootstrap"
  BY <1>1, FirstLeft
<1> HIDE DEF h, t
<1>n. k \in Nat /\ 7 \in Nat /\ k <= k /\ 0 \in Nat /\ 0 <= k /\ 7 <= 7
  BY ONLY k \in 0..7
<1>3. Graded(q \o t, k, 7) /\ ToSet(q \o t) = ToSet(q) \cup ToSet(t)
  BY ONLY <1>2, <1>n, Graded(q, k, k), GradedCat
<1>4. todo' = q \o t BY DEF t
<1>5. Graded(todo', 0, 7) BY ONLY <1>3, <1>4, <1>n, Widen
<1>6. Left' = ToSet(q) \cup ToSet(t) BY <1>3, <1>4 DEF Left
<1>7. LeftOf("bootstrap", Left')
  <2>1. OpsOf("bootstrap") = Making /\ MustBoot("bootstrap") = {}
    BY DEF OpsOf, MustBoot, Runs, Passing
  <2>2. /\ "bootstrap" \notin Passing /\ "open" \in Making /\ "fill" \in Making
        /\ "open" \notin Assembling /\ "fill" \notin Assembling
    BY DEF Passing, Making, Assembling
  <2>3. \A x \in ToSet(q) : /\ x[1] \in OpsOf("bootstrap") /\ x[1] # "record"
                            /\ x[1] # "boot" /\ x[1] \notin Assembling /\ x[2] \in Files
                            /\ Grade(x) \in {2, 3} => <<"record", "">> \in ToSet(t)
    BY <2>1, <2>2 DEF t
  <2>4. LeftOf("bootstrap", ToSet(t)) BY <1>2
  <2> QED BY <1>6, <2>1, <2>2, <2>3, <2>4 DEF LeftOf
<1>8. /\ DOMAIN file' = Files /\ DOMAIN image' = Builds /\ marker' \in Nat
      /\ DOMAIN elf' = Builds /\ \A b \in Builds : DOMAIN elf'[b] = Targets
  BY <1>1 DEF WorkTypes, tree
<1>9. LeftOf(name, Left') BY <1>2, <1>7
<1>10. WorkTypes' /\ Promises' BY <1>1, <1>2, <1>5, <1>8, <1>9, GoesOn
<1>11. name' = "bootstrap" /\ name' = name /\ host' = host BY <1>2 DEF Kept
<1>12. PassInv' /\ CheckInv'
  BY <1>11 DEF PassInv, CheckInv, MustBoot, Passing, Runs
<1> QED BY <1>2, <1>6, <1>10, <1>11, <1>12 DEF h, t

(* With a compiler the tool is copied too, before the recording.           *)
LEMMA CompileStep ==
  ASSUME WorkInv, Compile PROVE WorkInv'
<1> DEFINE h == Head(todo)
           t == Tail(todo)
           q == IF host.cc THEN Copy(Tool) ELSE <<>>
<1>0. /\ todo # <<>> /\ h[1] = "compile" /\ todo' = q \o t /\ Kept
      /\ UNCHANGED <<tree, history>>
  BY DEF Compile, Running
<1>1. WorkTypes /\ LoadersInv /\ BootstrapInv BY DEF WorkInv
<1>2. h[1] \in Making BY <1>0 DEF Making
<1>3. Grade(h) = 3 BY <1>0, GradeOf
<1>4. /\ Graded(q, 3, 3)
      /\ ToSet(q) = IF host.cc THEN {<<"open", Tool>>, <<"fill", Tool>>} ELSE {}
  <2>1. /\ Graded(Copy(Tool), 3, 3)
        /\ ToSet(Copy(Tool)) = {<<"open", Tool>>, <<"fill", Tool>>}
    BY ZenonT(60), ToolGrades, GradedCopy
  <2>2. Graded(<<>>, 3, 3) /\ ToSet(<<>>) = {} BY GradedNothing
  <2> QED BY <2>1, <2>2
<1>5. /\ name = "bootstrap" /\ LeftOf(name, Left)
      /\ Left = {h} \cup ToSet(t) /\ \A x \in ToSet(t) : Grade(h) <= Grade(x)
  BY <1>0, <1>1, <1>2, FirstLeft DEF WorkTypes
<1> HIDE DEF h, t, q
<1>6. Recording(ToSet(t)) BY <1>3, <1>5, CopyIsRecorded
<1>7. \A x \in ToSet(q) : x[1] \in {"open", "fill"} /\ x[2] \in Files
  <2>1. \A x \in ToSet(q) : x[1] \in {"open", "fill"} /\ x[2] = Tool BY <1>4
  <2> QED BY <2>1, ToolGrades
<1>8. /\ WorkTypes' /\ Promises' /\ PassInv' /\ CheckInv'
      /\ name' = name /\ host' = host
      /\ Left' = ToSet(q) \cup ToSet(t)
  <2>1. <<"record", "">> \in ToSet(t) BY <1>6 DEF Recording
  <2>2. UNCHANGED tree /\ 3 \in 0..7 BY <1>0
  <2> QED BY <1>0, <1>2, <1>3, <1>4, <1>7, <2>1, <2>2, MakingMore DEF h, t
<1>9. LoadersInv'
  <2>1. \A x \in ToSet(q) : x[1] # "fetch" BY <1>7
  <2>2. Recording(Left') BY <1>6, <1>8, <2>1 DEF Recording
  <2>3. marker' = marker /\ UNCHANGED history BY <1>0 DEF tree
  <2> QED BY <1>1, <1>8, <2>2, <2>3, LoadersKept
<1>10. BootstrapInv'
  <2>1. file' = file /\ scars' = scars BY <1>0 DEF tree, history
  <2>2. \A op \in {"fill", "record", "firmware"} :
          \A x : <<op, x>> \in Left => <<op, x>> \in Left'
    BY <1>0, <1>5, <1>8, OtherStep
  <2>3. /\ \A x : <<"fill", x>> \in Left => <<"fill", x>> \in Left'
        /\ <<"firmware", "">> \in Left => <<"firmware", "">> \in Left'
        /\ <<"record", "">> \in Left
    BY <1>5, <1>6, <2>2 DEF Recording
  <2>4. host.cc => <<"fill", Tool>> \in Left' BY <1>4, <1>8
  <2> QED BY <1>1, <1>5, <1>8, <2>1, <2>3, <2>4 DEF BootstrapInv
<1> QED BY <1>8, <1>9, <1>10 DEF WorkInv

(* The firmware is copied, or is there already.                            *)
LEMMA FirmwareStep ==
  ASSUME WorkInv, StageFirmware PROVE WorkInv'
<1> DEFINE h == Head(todo)
           t == Tail(todo)
           q == IF file["edk2"] = host.firmware THEN <<>> ELSE Copy("edk2")
<1>0. /\ todo # <<>> /\ h[1] = "firmware" /\ todo' = q \o t /\ Kept
      /\ UNCHANGED <<tree, history>>
  BY DEF StageFirmware, Running
<1>1. WorkTypes /\ LoadersInv /\ BootstrapInv BY DEF WorkInv
<1>2. h[1] \in Making BY <1>0 DEF Making
<1>3. Grade(h) = 5 BY <1>0, GradeOf
<1>4. /\ Graded(q, 5, 5)
      /\ ToSet(q) = IF file["edk2"] = host.firmware THEN {}
                    ELSE {<<"open", "edk2">>, <<"fill", "edk2">>}
  <2>1. /\ Graded(Copy("edk2"), 5, 5)
        /\ ToSet(Copy("edk2")) = {<<"open", "edk2">>, <<"fill", "edk2">>}
    BY ZenonT(60), ToolGrades, GradedCopy
  <2>2. Graded(<<>>, 5, 5) /\ ToSet(<<>>) = {} BY GradedNothing
  <2> QED BY <2>1, <2>2
<1>5. /\ name = "bootstrap" /\ Left = {h} \cup ToSet(t)
  BY <1>0, <1>1, <1>2, FirstLeft
<1> HIDE DEF h, t, q
<1>6. \A x \in ToSet(q) : /\ x[1] \in {"open", "fill"} /\ x[2] \in Files
                          /\ Grade(x) \notin {2, 3} /\ x[1] # "fetch"
  <2>1. <<"open", "edk2">>[2] = "edk2" /\ "edk2" \in Files BY ToolGrades
  <2>2. \A x \in ToSet(q) : x[1] \in {"open", "fill"} /\ x[2] = "edk2" BY <1>4
  <2>3. \A x \in ToSet(q) : Grade(x) = 5 BY <2>2, GradeOf
  <2> QED BY <2>1, <2>2, <2>3
<1>8. /\ WorkTypes' /\ Promises' /\ PassInv' /\ CheckInv'
      /\ name' = name /\ host' = host
      /\ Left' = ToSet(q) \cup ToSet(t)
  <2>2. UNCHANGED tree /\ 5 \in 0..7 BY <1>0
  <2> QED BY <1>0, <1>2, <1>3, <1>4, <1>6, <2>2, MakingMore DEF h, t
<1>9. LoadersInv'
  <2>1. Recording(Left) => Recording(Left')
    <3>1. Recording(Left) => Recording(ToSet(t)) BY <1>0, <1>5, RecordingKept
    <3> QED BY <1>6, <1>8, <3>1 DEF Recording
  <2>2. marker' = marker /\ UNCHANGED history /\ file' = file BY <1>0 DEF tree
  <2> QED BY <1>1, <1>8, <2>1, <2>2, LoadersKept
<1>10. BootstrapInv'
  <2>1. file' = file /\ scars' = scars BY <1>0 DEF tree, history
  <2>2. \A op \in {"fill", "record", "compile"} :
          \A x : <<op, x>> \in Left => <<op, x>> \in Left'
    BY <1>0, <1>5, <1>8, OtherStep
  <2>3. /\ \A x : <<"fill", x>> \in Left => <<"fill", x>> \in Left'
        /\ <<"compile", "">> \in Left => <<"compile", "">> \in Left'
    BY <2>2
  <2>4. <<"record", "">> \in Left' => <<"record", "">> \in Left
    <3>1. <<"record", "">> \notin ToSet(q)
      <4> DEFINE r == <<"record", "">>
      <4>1. r[1] = "record" OBVIOUS
      <4> HIDE DEF r
      <4>2. r \notin ToSet(q) BY <1>6, <4>1
      <4> QED BY <4>2 DEF r
    <3> QED BY <1>5, <1>8, <3>1
  <2>5. file["edk2"] = host.firmware \/ <<"fill", "edk2">> \in Left' BY <1>4, <1>8
  <2> QED BY <1>1, <1>5, <1>8, <2>1, <2>3, <2>4, <2>5 DEF BootstrapInv
<1> QED BY <1>8, <1>9, <1>10 DEF WorkInv

(* The marker is written: the payloads must be of its version now.         *)
LEMMA RecordStep ==
  ASSUME WorkInv, Record PROVE WorkInv'
<1> DEFINE h == Head(todo)
<1>0. /\ todo # <<>> /\ h[1] = "record" /\ Onward
      /\ marker' = host.pin /\ scars' = {} /\ unbuilt' = ~host.cc
      /\ UNCHANGED <<ready, file, elf, image>>
  BY DEF Record, Running
<1>1. WorkTypes /\ LoadersInv /\ BootstrapInv BY DEF WorkInv
<1>2. h[1] \in Making /\ DOMAIN file' = Files /\ marker' \in Nat
  BY <1>0, <1>1 DEF Making, WorkTypes
<1>3. /\ WorkTypes' /\ Promises' /\ PassInv' /\ CheckInv'
      /\ name = "bootstrap" /\ name' = name /\ host' = host
      /\ Left = {h} \cup Left'
      /\ \A x \in Left' : Grade(h) <= Grade(x)
  BY <1>0, <1>2, MakingStep
<1>5. LeftOf("bootstrap", Left) BY <1>1, <1>3 DEF WorkTypes
<1> HIDE DEF h
<1>6. <<"record", "">> \in Left /\ Grade(h) = 4 BY <1>0, <1>3, <1>5, GradeOf DEF LeftOf
<1>7. \A op \in {"fill", "firmware", "compile"} :
        \A x : <<op, x>> \in Left => <<op, x>> \in Left'
  BY <1>0, <1>3, OtherStep
<1>8. /\ \A x : <<"fill", x>> \in Left => <<"fill", x>> \in Left'
      /\ <<"firmware", "">> \in Left => <<"firmware", "">> \in Left'
      /\ <<"compile", "">> \in Left => <<"compile", "">> \in Left'
  BY <1>7
<1>9. ASSUME NEW x, x \in Left', NEW g \in Nat, Grade(x) = g PROVE 4 <= g
  BY <1>3, <1>6, <1>9
<1>10. \A f \in ToSet(Payloads) : file[f] = host.pin
  <2>1. ASSUME NEW f \in ToSet(Payloads), <<"fill", f>> \in Left PROVE FALSE
    <3>1. <<"fill", f>> \in Left' BY <1>8, <2>1
    <3>2. Grade(<<"fill", f>>) = 2 BY FileGrades
    <3>3. 2 \in Nat /\ ~(4 <= 2) OBVIOUS
    <3> QED BY <1>9, <3>1, <3>2, <3>3, Zenon
  <2> QED BY <1>1, <1>3, <1>6, <2>1 DEF BootstrapInv
<1>11. host.cc => file[Tool] = host.pin
  <2>1. ASSUME <<"fill", Tool>> \in Left PROVE FALSE
    <3>1. <<"fill", Tool>> \in Left' BY <1>8, <2>1
    <3>2. Grade(<<"fill", Tool>>) = 3 BY ToolGrades
    <3>3. 3 \in Nat /\ ~(4 <= 3) OBVIOUS
    <3> QED BY <1>9, <3>1, <3>2, <3>3, Zenon
  <2>2. ASSUME <<"compile", "">> \in Left PROVE FALSE
    <3>1. <<"compile", "">> \in Left' BY <1>8, <2>2
    <3>2. Grade(<<"compile", "">>) = 3 BY ToolGrades
    <3>3. 3 \in Nat /\ ~(4 <= 3) OBVIOUS
    <3> QED BY <1>9, <3>1, <3>2, <3>3, Zenon
  <2> QED BY <1>1, <1>3, <1>6, <2>1, <2>2 DEF BootstrapInv
<1>12. file' = file BY <1>0
<1>13. LoadersInv' BY <1>0, <1>10, <1>11, <1>12 DEF LoadersInv, Marked
<1>14. BootstrapInv' BY <1>1, <1>3, <1>8, <1>10, <1>11, <1>12 DEF BootstrapInv
<1> QED BY <1>3, <1>13, <1>14 DEF WorkInv
-----------------------------------------------------------------------------
(* The beginning and the end of a command.                                 *)
LEMMA NoneLeft ==
  /\ Graded(<<>>, 0, 7) /\ ToSet(<<>>) = {} /\ \A c : LeftOf(c, {})
  /\ MustBoot("none") = {} /\ "none" \notin Commands /\ "none" \notin Passing
<1>1. 0 \in Nat /\ 7 \in Nat /\ 0 <= 0 /\ 0 <= 7 OBVIOUS
<1>2. Graded(<<>>, 0, 0) /\ ToSet(<<>>) = {} BY <1>1, GradedNothing
<1>3. Graded(<<>>, 0, 7) BY <1>1, <1>2, Widen
<1>4. \A c : LeftOf(c, {}) BY DEF LeftOf
<1>5. MustBoot("none") = {} /\ "none" \notin Commands /\ "none" \notin Passing
  BY DEF MustBoot, Passing, Runs, Commands
<1> QED BY <1>2, <1>3, <1>4, <1>5

(* Nothing is running, and nothing of a command is promised.               *)
LEMMA AtRest ==
  ASSUME name' = "none", todo' = <<>>,
         DOMAIN file' = Files, DOMAIN image' = Builds,
         DOMAIN elf' = Builds, \A b \in Builds : DOMAIN elf'[b] = Targets,
         marker' \in Nat,
         DOMAIN host' = {"pin", "source", "firmware", "cc", "distro"}, host'.pin \in Nat
  PROVE  WorkTypes' /\ BootstrapInv' /\ PassInv' /\ CheckInv' /\ ~Materializing'
<1>1. Left' = {} BY NoneLeft DEF Left
<1>2. WorkTypes' BY <1>1, NoneLeft DEF WorkTypes
<1>3. BootstrapInv' BY DEF BootstrapInv
<1>4. PassInv'
  <2>1. MustBoot(name') = {} /\ name' \notin Passing BY NoneLeft
  <2> QED BY <2>1 DEF PassInv
<1>5. CheckInv' BY DEF CheckInv
<1>6. Len(<<>>) = 0 OBVIOUS
<1>7. ~Materializing' BY <1>6 DEF Materializing, Ahead
<1> QED BY <1>2, <1>3, <1>4, <1>5, <1>7

(* A command that fails or is cut short promises nothing but a scar.       *)
LEMMA EndStep ==
  ASSUME WorkInv, NEW how, End(how),
         how \in {"stopped", "refused"} \/ Promises'
  PROVE  WorkInv'
<1>1. WorkTypes /\ LoadersInv BY DEF WorkInv
<1>2. /\ verdict' = <<name, how>> /\ name' = "none" /\ todo' = <<>>
      /\ scars' = IF Materializing THEN scars \cup {marker} ELSE scars
      /\ unbuilt' = unbuilt /\ host' = host
      /\ ready' = ready /\ file' = file /\ marker' = marker /\ elf' = elf
      /\ image' = image
  BY DEF End, tree
<1>3. WorkTypes' /\ BootstrapInv' /\ PassInv' /\ CheckInv'
  BY <1>1, <1>2, AtRest DEF WorkTypes
<1>4. LoadersInv'
  <2>1. \A f : Materializing \/ Marked(f) => Marked(f)' BY <1>2 DEF Marked
  <2> QED BY <1>1, <1>2, <2>1 DEF LoadersInv
<1>5. Promises'
  <2>1. CASE how \in {"stopped", "refused"}
    <3>1. how # "ok" /\ how # "no boot" BY <2>1
    <3>2. \A c : verdict' # <<c, "ok">> /\ verdict' # <<c, "no boot">>
      BY <1>2, <3>1
    <3> QED
      BY <3>2 DEF Promises, BootstrapMeansReady, PassMeansCurrent, FailedCheckExplained
  <2> QED BY <2>1
<1> QED BY <1>3, <1>4, <1>5 DEF WorkInv

(* A command begins.                                                       *)
LEMMA StartStep ==
  ASSUME WorkInv, NEW c \in Commands, Start(c) PROVE WorkInv'
<1>0. /\ name = "none" /\ name' = c /\ todo' = Steps(c) /\ verdict' = NoVerdict
      /\ host' = host /\ ready' = ready /\ file' = file /\ marker' = marker
      /\ elf' = elf /\ image' = image /\ scars' = scars /\ unbuilt' = unbuilt
  BY DEF Start, Idle, tree, history
<1>1. WorkTypes /\ LoadersInv BY DEF WorkInv
<1>2. todo = <<>> BY <1>0, <1>1 DEF WorkTypes
<1>3. Graded(Steps(c), 0, 7) /\ LeftOf(c, ToSet(Steps(c))) BY StepsOfCommand
<1>4. Left' = ToSet(Steps(c)) BY <1>0 DEF Left
<1>5. WorkTypes' BY <1>0, <1>1, <1>3, <1>4, NoneLeft DEF WorkTypes
<1>6. ~Materializing
  <2>1. Len(<<>>) = 0 OBVIOUS
  <2> QED BY <1>2, <2>1 DEF Materializing, Ahead
<1>7. (\A f \in ToSet(Payloads) : Marked(f)) /\ (Marked(Tool) \/ unbuilt)
  BY <1>1, <1>6 DEF LoadersInv
<1>8. LoadersInv' BY <1>0, <1>7 DEF LoadersInv, Marked
<1>9. BootstrapInv'
  <2>1. SUFFICES ASSUME c = "bootstrap" PROVE BootstrapInv' BY <1>0 DEF BootstrapInv
  <2>2. <<"firmware", "">> \in Left' BY <1>4, <2>1, StepsOfBootstrap
  <2>3. CASE AlreadyPresent
    <3>1. <<"record", "">> \notin Left' BY <1>4, <2>1, <2>3, StepsOfBootstrap
    <3>2. \A f \in ToSet(Payloads) : file[f] = host.pin \/ host.pin \in scars
      BY <1>7, <2>3 DEF AlreadyPresent, marker_matches, payloads_ok, IsFile, Marked
    <3> QED BY <1>0, <2>2, <3>1, <3>2 DEF BootstrapInv
  <2>4. CASE ~AlreadyPresent
    <3>1. /\ \A f \in ToSet(Payloads) : <<"fill", f>> \in Left'
          /\ <<"compile", "">> \in Left'
      BY <1>4, <2>1, <2>4, StepsOfBootstrap
    <3> QED BY <2>2, <3>1 DEF BootstrapInv
  <2> QED BY <2>3, <2>4
<1>10. PassInv'
  <2>1. \A p \in MustBoot(c) : <<"boot", p>> \in Left'
    <3>1. CASE c \in Runs BY <1>4, <3>1, StepsOfRuns
    <3>2. CASE c \in Passing
      <4>1. MustBoot(c) = {BuildOf(c)} \X Targets BY <3>2 DEF MustBoot
      <4>2. \A t \in Targets : <<"boot", <<BuildOf(c), t>>>> \in Left'
        BY <1>4, <3>2, StepsOfPassing
      <4>3. \A p \in {BuildOf(c)} \X Targets : \E t \in Targets : p = <<BuildOf(c), t>>
        OBVIOUS
      <4> QED BY <4>1, <4>2, <4>3, Zenon
    <3>3. CASE c \notin Runs /\ c \notin Passing BY <3>3 DEF MustBoot
    <3> QED BY <3>1, <3>2, <3>3
  <2>2. ASSUME c \in Passing, NEW t \in Targets
        PROVE  /\ <<"cargo", <<BuildOf(c), t>>>> \in Left'
               /\ <<"stage", BuildOf(c)>> \in Left'
    BY <1>4, <2>2, StepsOfPassing DEF Assembling
  <2> QED BY <1>0, <2>1, <2>2 DEF PassInv
<1>11. CheckInv'
  <2>1. SUFFICES ASSUME c = "check" PROVE CheckInv' BY <1>0 DEF CheckInv
  <2>2. c \in Passing /\ BuildOf(c) = "kernel" BY <2>1 DEF Passing, BuildOf
  <2>3. \A op \in Assembling : <<op, "kernel">> \in Left' BY <1>4, <2>2, StepsOfPassing
  <2> QED BY <2>3 DEF CheckInv, Assembling
<1>12. Promises'
  BY <1>0 DEF Promises, BootstrapMeansReady, PassMeansCurrent, FailedCheckExplained,
    NoVerdict, Runs
<1> QED BY <1>5, <1>8, <1>9, <1>10, <1>11, <1>12 DEF WorkInv

(* A command ends well: what its steps established becomes its promise.    *)
LEMMA FinishStep ==
  ASSUME WorkInv, Finish PROVE WorkInv'
<1>0. /\ name # "none" /\ todo = <<>> /\ verdict' = <<name, "ok">> /\ name' = "none"
      /\ todo' = todo /\ host' = host
      /\ ready' = ready /\ file' = file /\ marker' = marker /\ elf' = elf
      /\ image' = image /\ scars' = scars /\ unbuilt' = unbuilt
  BY DEF Finish, Idle, tree, history
<1>1. WorkTypes /\ LoadersInv /\ BootstrapInv /\ PassInv BY DEF WorkInv
<1>2. Left = {} BY <1>0, NoneLeft DEF Left
<1>3. WorkTypes' /\ BootstrapInv' /\ PassInv' /\ CheckInv'
  BY <1>0, <1>1, AtRest DEF WorkTypes
<1>4. ~Materializing
  <2>1. Len(<<>>) = 0 OBVIOUS
  <2> QED BY <1>0, <2>1 DEF Materializing, Ahead
<1>5. LoadersInv'
  <2>1. \A f : Marked(f)' <=> Marked(f) BY <1>0 DEF Marked
  <2> QED BY <1>0, <1>1, <1>4, <2>1 DEF LoadersInv
<1>6. \A c : verdict' = <<c, "ok">> => name = c BY <1>0
<1>7. \A c : verdict' # <<c, "no boot">> BY <1>0
<1>8. BootstrapMeansReady' BY <1>0, <1>1, <1>2, <1>6 DEF BootstrapMeansReady, BootstrapInv
<1>9. FailedCheckExplained' BY <1>7 DEF FailedCheckExplained
<1>10. \A p \in MustBoot(name) : Whole(image[p[1]], p[2]) BY <1>1, <1>2 DEF PassInv
<1>11. ASSUME name \in Passing
       PROVE  \A t \in Targets : /\ Whole(image[BuildOf(name)], t)
                                 /\ image[BuildOf(name)].kernels[t] = host.source
  <2>1. \A t \in Targets : <<BuildOf(name), t>> \in MustBoot(name)
    BY <1>11 DEF MustBoot
  <2>2. \A t \in Targets : Whole(image[BuildOf(name)], t) BY <1>10, <2>1
  <2>3. \A t \in Targets : image[BuildOf(name)].kernels[t] = host.source
    BY <1>1, <1>2, <1>11 DEF PassInv
  <2> QED BY <2>2, <2>3
<1>12. ASSUME name \in Runs PROVE Whole(image["kernel"], RunTarget(name))
  <2>1. <<"kernel", RunTarget(name)>> \in MustBoot(name)
    BY <1>12 DEF MustBoot, Passing, Runs
  <2> QED BY <1>10, <2>1
<1>13. PassMeansCurrent'
  <2>1. ASSUME name \in Passing
        PROVE  LET im == image[BuildOf(name)]
               IN /\ im.stage = Installed
                  /\ \A t \in Targets : /\ im.loaders[Loader(t)] # Torn
                                        /\ im.kernels[t] = host.source
    <3>1. "x86_64" \in Targets BY DEF Targets
    <3>2. image[BuildOf(name)].stage \in BootStages("x86_64") BY <1>11, <2>1, <3>1 DEF Whole
    <3> QED BY <1>11, <2>1, <3>2 DEF Whole, BootStages
  <2>2. /\ name = "check" => name \in Passing /\ BuildOf(name) = "kernel"
        /\ name = "demo" => name \in Passing /\ BuildOf(name) = "demo"
    BY DEF Passing, BuildOf
  <2>3. name = "run x64" => Whole(image["kernel"], "x86_64")
    BY <1>12 DEF Runs, RunTarget
  <2>4. name = "run arm64" => Whole(image["kernel"], "aarch64")
    BY <1>12 DEF Runs, RunTarget
  <2>5. \A c : verdict' = <<c, "ok">> => name = c BY <1>6
  <2> QED
    BY <1>0, <2>1, <2>2, <2>3, <2>4, <2>5 DEF PassMeansCurrent, Whole, BootStages
<1> QED BY <1>3, <1>5, <1>8, <1>9, <1>13 DEF WorkInv, Promises

(* A change by the user, between two commands.                             *)
LEMMA UserStep ==
  ASSUME WorkInv, UserChanges PROVE WorkInv'
<1>0. /\ name = "none" /\ name' = name /\ todo' = todo /\ verdict' = NoVerdict
      /\ marker' = marker /\ elf' = elf /\ image' = image
      /\ scars' = scars /\ unbuilt' = unbuilt
  BY DEF UserChanges, Idle, command, history
<1>1. WorkTypes /\ LoadersInv BY DEF WorkInv
<1>2. todo = <<>> BY <1>0, <1>1 DEF WorkTypes
<1>3. /\ DOMAIN host' = {"pin", "source", "firmware", "cc", "distro"} /\ host'.pin \in Nat
      /\ DOMAIN file' = Files
      /\ \A f \in Files : file'[f] = file[f] \/ file'[f] = Absent
  <2>1. CASE /\ \E x \in {"pin", "source", "firmware"}, v \in Versions :
                  host[x] # v /\ host' = [host EXCEPT ![x] = v]
             /\ UNCHANGED file
    <3>1. PICK x \in {"pin", "source", "firmware"}, v \in Versions :
            host' = [host EXCEPT ![x] = v]
      BY <2>1
    <3>2. v \in Nat BY WorkspaceAssumption
    <3>3. host'.pin = v \/ host'.pin = host.pin BY <1>1, <3>1 DEF WorkTypes
    <3> QED BY <1>1, <2>1, <3>1, <3>2, <3>3 DEF WorkTypes
  <2>2. CASE /\ \E x \in {"cc", "distro"} : host' = [host EXCEPT ![x] = ~@]
             /\ UNCHANGED file
    <3>1. PICK x \in {"cc", "distro"} : host' = [host EXCEPT ![x] = ~@] BY <2>2
    <3>2. host'.pin = host.pin BY <1>1, <3>1 DEF WorkTypes
    <3>3. DOMAIN host' = DOMAIN host BY <3>1
    <3> QED BY <1>1, <2>2, <3>2, <3>3 DEF WorkTypes
  <2>3. CASE /\ \E f \in Files : IsFile(f) /\ file' = [file EXCEPT ![f] = Absent]
             /\ UNCHANGED host
    BY <1>1, <2>3 DEF WorkTypes
  <2> QED BY <2>1, <2>2, <2>3 DEF UserChanges
<1>4. WorkTypes' /\ BootstrapInv' /\ PassInv' /\ CheckInv'
  BY <1>0, <1>1, <1>2, <1>3, AtRest DEF WorkTypes
<1>5. LoadersInv'
  <2>1. ~Materializing
    <3>1. Len(<<>>) = 0 OBVIOUS
    <3> QED BY <1>2, <3>1 DEF Materializing, Ahead
  <2>2. \A f \in Files : Marked(f) => Marked(f)' BY <1>0, <1>3 DEF Marked
  <2>3. Tool \in Files /\ ToSet(Payloads) \subseteq Files BY DEF Files
  <2> QED BY <1>0, <1>1, <2>1, <2>2, <2>3 DEF LoadersInv
<1>6. Promises'
  BY <1>0 DEF Promises, BootstrapMeansReady, PassMeansCurrent, FailedCheckExplained,
    NoVerdict, Runs
<1> QED BY <1>4, <1>5, <1>6 DEF WorkInv
-----------------------------------------------------------------------------
(* The steps of the commands that build, pack and boot.                    *)
LEMMA PlainOn ==
  ASSUME WorkInv, todo # <<>>, Head(todo)[1] \notin Making, Onward,
         DOMAIN image' = Builds,
         DOMAIN elf' = Builds, \A b \in Builds : DOMAIN elf'[b] = Targets,
         UNCHANGED <<file, marker, history>>
  PROVE  /\ WorkTypes' /\ Promises' /\ LoadersInv' /\ BootstrapInv'
         /\ name \in Commands /\ name # "bootstrap" /\ name' = name /\ host' = host
         /\ Left = {Head(todo)} \cup Left'
         /\ \A x \in Left' : Grade(Head(todo)) <= Grade(x)
<1> DEFINE h == Head(todo)
<1>1. WorkTypes /\ LoadersInv BY DEF WorkInv
<1>2. DOMAIN file' = Files /\ marker' \in Nat BY <1>1 DEF WorkTypes
<1>3. /\ WorkTypes' /\ Promises' /\ name' = name /\ host' = host
      /\ Left = {h} \cup Left'
      /\ \A x \in Left' : Grade(h) <= Grade(x)
  BY <1>1, <1>2, StepsOn
<1>4. name \in Commands /\ name # "bootstrap" BY <1>1, FirstLeft
<1>5. h[1] # "record" BY DEF Making
<1> HIDE DEF h
<1>6. LoadersInv'
  <2>1. Recording(Left) => Recording(Left') BY <1>3, <1>5, RecordingKept
  <2> QED BY <1>1, <1>3, <2>1, LoadersKept
<1>7. BootstrapInv' BY <1>3, <1>4 DEF BootstrapInv
<1> QED BY <1>3, <1>4, <1>6, <1>7 DEF h

(* A kernel is built from the sources as they are.                         *)
LEMMA CargoStep ==
  ASSUME WorkInv, Cargo PROVE WorkInv'
<1>1. CASE "toolchain" \notin ready
  BY <1>1, EndStep DEF Cargo, Refuse
<1>2. CASE "toolchain" \in ready
  <2> DEFINE h == Head(todo)
             a == Arg
  <2>0. /\ todo # <<>> /\ h[1] = "cargo" /\ a = h[2] /\ Onward
        /\ elf' = [elf EXCEPT ![a[1]][a[2]] = host.source]
        /\ UNCHANGED <<ready, file, marker, image, history>>
    BY <1>2 DEF Cargo, Running, Arg
  <2>1. WorkTypes /\ PassInv /\ CheckInv BY DEF WorkInv
  <2>2. /\ DOMAIN elf' = Builds /\ \A b \in Builds : DOMAIN elf'[b] = Targets
        /\ DOMAIN image' = Builds
    BY <2>0, <2>1 DEF WorkTypes
  <2>3. h[1] \notin Making BY <2>0 DEF Making
  <2>4. /\ WorkTypes' /\ Promises' /\ LoadersInv' /\ BootstrapInv'
        /\ name' = name /\ host' = host /\ Left = {h} \cup Left'
    BY <2>0, <2>2, <2>3, PlainOn
  <2> HIDE DEF h, a
  <2>5. \A op \in {"boot", "stage", "inputs", "install"} :
          \A x : <<op, x>> \in Left <=> <<op, x>> \in Left'
    BY <2>0, <2>4, OtherStep
  <2>6. /\ \A x : <<"boot", x>> \in Left <=> <<"boot", x>> \in Left'
        /\ \A x : <<"stage", x>> \in Left <=> <<"stage", x>> \in Left'
        /\ \A x : <<"inputs", x>> \in Left <=> <<"inputs", x>> \in Left'
        /\ \A x : <<"install", x>> \in Left <=> <<"install", x>> \in Left'
    BY <2>5
  <2>7. ASSUME NEW b \in Builds, NEW t \in Targets,
               <<"cargo", <<b, t>>>> \in Left \/ elf[b][t] = host.source
        PROVE  <<"cargo", <<b, t>>>> \in Left' \/ elf'[b][t] = host.source
    <3> DEFINE r == <<"cargo", <<b, t>>>>
               p == <<b, t>>
    <3>1. r[2] = p /\ p[1] = b /\ p[2] = t OBVIOUS
    <3> HIDE DEF r, p
    <3>2. elf'[b][t] = host.source \/ elf'[b][t] = elf[b][t]
      BY <2>0, <2>1 DEF WorkTypes
    <3>3. CASE r = h
      <4>1. a[1] = b /\ a[2] = t BY <2>0, <3>1, <3>3
      <4>2. elf'[b][t] = host.source BY <2>0, <2>1, <4>1 DEF WorkTypes
      <4> QED BY <4>2
    <3>4. CASE r # h BY <2>4, <2>7, <3>2, <3>4 DEF r, p
    <3> QED BY <3>3, <3>4
  <2>8. PassInv'
    <3>1. image' = image BY <2>0
    <3>2. \A p \in MustBoot(name) : <<"boot", p>> \in Left' \/ Whole(image[p[1]], p[2])
      BY <2>1, <2>6 DEF PassInv
    <3>3. ASSUME name \in Passing, NEW t \in Targets
          PROVE  /\ \/ <<"cargo", <<BuildOf(name), t>>>> \in Left'
                    \/ elf'[BuildOf(name)][t] = host.source
                 /\ \/ <<"stage", BuildOf(name)>> \in Left'
                    \/ image[BuildOf(name)].kernels[t] = host.source
      <4>1. BuildOf(name) \in Builds BY DEF BuildOf, Builds
      <4> QED BY <2>1, <2>6, <2>7, <3>3, <4>1 DEF PassInv
    <3> QED BY <2>4, <3>1, <3>2, <3>3 DEF PassInv
  <2>9. CheckInv'
    <3>1. image' = image /\ file' = file BY <2>0
    <3> QED BY <2>1, <2>4, <2>6, <3>1 DEF CheckInv, FilesThere, LimineTool, IsFile
  <2> QED BY <2>4, <2>8, <2>9 DEF WorkInv
<1> QED BY <1>1, <1>2

(* Steps that change no file: they only tell something of those there are. *)
LEMMA LookStep ==
  ASSUME WorkInv, todo # <<>>, Head(todo)[1] \in {"inputs", "validate", "boot"},
         Onward, UNCHANGED <<tree, history>>,
         Head(todo)[1] = "inputs" => FilesThere,
         Head(todo)[1] = "boot" => Whole(image[Arg[1]], Arg[2])
  PROVE  WorkInv'
<1> DEFINE h == Head(todo)
<1>0. /\ file' = file /\ marker' = marker /\ elf' = elf /\ image' = image
  BY DEF tree
<1>1. WorkTypes /\ PassInv /\ CheckInv BY DEF WorkInv
<1>2. /\ DOMAIN elf' = Builds /\ \A b \in Builds : DOMAIN elf'[b] = Targets
      /\ DOMAIN image' = Builds
  BY <1>0, <1>1 DEF WorkTypes
<1>3. h[1] \notin Making BY DEF Making
<1>4. /\ WorkTypes' /\ Promises' /\ LoadersInv' /\ BootstrapInv'
      /\ name' = name /\ host' = host /\ Left = {h} \cup Left'
  BY <1>0, <1>2, <1>3, PlainOn
<1>5. /\ h[1] = "inputs" => FilesThere
      /\ h[1] = "boot" => Whole(image[h[2][1]], h[2][2])
      /\ h[1] \in {"inputs", "validate", "boot"}
  BY DEF Arg
<1> HIDE DEF h
<1>6. \A op \in {"cargo", "stage", "install"} :
        \A x : <<op, x>> \in Left <=> <<op, x>> \in Left'
  BY <1>4, <1>5, OtherStep
<1>7. /\ \A x : <<"cargo", x>> \in Left <=> <<"cargo", x>> \in Left'
      /\ \A x : <<"stage", x>> \in Left <=> <<"stage", x>> \in Left'
      /\ \A x : <<"install", x>> \in Left <=> <<"install", x>> \in Left'
  BY <1>6
<1>8. PassInv'
  <2>1. ASSUME NEW p \in MustBoot(name)
        PROVE  <<"boot", p>> \in Left' \/ Whole(image[p[1]], p[2])
    <3> DEFINE r == <<"boot", p>>
    <3>1. r[1] = "boot" /\ r[2] = p OBVIOUS
    <3>2. r \in Left \/ Whole(image[p[1]], p[2]) BY <1>1 DEF PassInv
    <3> HIDE DEF r
    <3>3. CASE r = h BY <1>5, <3>1, <3>3
    <3>4. CASE r # h BY <1>4, <3>2, <3>4 DEF r
    <3> QED BY <3>3, <3>4
  <2> QED BY <1>0, <1>1, <1>4, <1>7, <2>1 DEF PassInv
<1>9. CheckInv'
  <2>1. ASSUME NEW b, <<"inputs", b>> \in Left
        PROVE  <<"inputs", b>> \in Left' \/ FilesThere
    <3> DEFINE r == <<"inputs", b>>
    <3>1. r[1] = "inputs" /\ r \in Left BY <2>1
    <3> HIDE DEF r
    <3>2. CASE r = h BY <1>5, <3>1, <3>2
    <3>3. CASE r # h BY <1>4, <3>1, <3>3 DEF r
    <3> QED BY <3>2, <3>3
  <2> QED BY <1>0, <1>1, <1>4, <1>7, <2>1 DEF CheckInv, FilesThere, LimineTool, IsFile
<1> QED BY <1>4, <1>8, <1>9 DEF WorkInv

(* A step of assemble on the image of the running command.                 *)
LEMMA PackStep ==
  ASSUME WorkInv, NEW op \in {"create", "stage", "install"}, NEW b, NEW im,
         ImageStep(op, b, im)
  PROVE  /\ WorkTypes' /\ Promises' /\ LoadersInv' /\ BootstrapInv'
         /\ name' = name /\ host' = host /\ Left = {<<op, b>>} \cup Left'
         /\ b = BuildOf(name) /\ b \in Builds
         /\ \A p \in MustBoot(name) : <<"boot", p>> \in Left'
         /\ \A x \in Left' : Grade(<<op, b>>) <= Grade(x)
         /\ image'[b] = im
         /\ file' = file /\ elf' = elf
         /\ LeftOf(name, Left)
         /\ \A o \in {"cargo", "stage", "inputs", "install"} : o # op =>
              \A x : <<o, x>> \in Left <=> <<o, x>> \in Left'
<1> DEFINE h == Head(todo)
           s == <<op, b>>
<1>0. /\ todo # <<>> /\ h[1] = op /\ h[2] = b /\ Onward
      /\ image' = [image EXCEPT ![b] = im]
      /\ UNCHANGED <<ready, file, marker, elf, history>>
  BY DEF ImageStep, Running, Arg
<1>1. WorkTypes BY DEF WorkInv
<1>2. /\ DOMAIN elf' = Builds /\ \A c \in Builds : DOMAIN elf'[c] = Targets
      /\ DOMAIN image' = Builds
  BY <1>0, <1>1 DEF WorkTypes
<1>3. h[1] \notin Making /\ op \in Assembling BY <1>0 DEF Making, Assembling
<1>4. /\ WorkTypes' /\ Promises' /\ LoadersInv' /\ BootstrapInv'
      /\ name' = name /\ host' = host /\ Left = {h} \cup Left'
      /\ \A x \in Left' : Grade(h) <= Grade(x)
  BY <1>0, <1>2, <1>3, PlainOn
<1>5. LeftOf(name, Left) BY <1>1 DEF WorkTypes
<1>6. h = <<h[1], BuildOf(name)>> BY <1>0, <1>3, <1>4, <1>5 DEF LeftOf
<1>7. b = BuildOf(name)
  <2> DEFINE r == <<h[1], BuildOf(name)>>
  <2>1. r[2] = BuildOf(name) OBVIOUS
  <2>2. h = r BY <1>6
  <2> HIDE DEF r, h
  <2> QED BY <1>0, <2>1, <2>2
<1>8. b \in Builds BY <1>7 DEF BuildOf, Builds
<1>9. h = s BY <1>0, <1>6, <1>7, Zenon
<1> HIDE DEF h
<1>10. ASSUME NEW p \in MustBoot(name) PROVE <<"boot", p>> \in Left'
  <2>1. <<"boot", p>> \in Left BY <1>0, <1>3, <1>4, <1>5 DEF LeftOf
  <2>2. h # <<"boot", p>> BY <1>0, OtherStep
  <2> QED BY <1>4, <2>1, <2>2
<1>11. image'[b] = im BY <1>0, <1>1, <1>8 DEF WorkTypes
<1>12. \A o \in {"cargo", "stage", "inputs", "install"} : o # op =>
         \A x : <<o, x>> \in Left <=> <<o, x>> \in Left'
  BY <1>0, <1>4, OtherStep
<1> HIDE DEF s
<1>13. Left = {s} \cup Left' /\ \A x \in Left' : Grade(s) <= Grade(x) BY <1>4, <1>9
<1>14. file' = file /\ elf' = elf BY <1>0
<1> QED BY <1>4, <1>5, <1>7, <1>8, <1>10, <1>11, <1>12, <1>13, <1>14 DEF s

(* The image is created anew.                                              *)
LEMMA CreateStep ==
  ASSUME WorkInv, NEW b, CreateImage(b) PROVE WorkInv'
<1> DEFINE im == [stage |-> Created]
<1>0. ImageStep("create", b, im) BY DEF CreateImage
<1> HIDE DEF im
<1>1. /\ WorkTypes' /\ Promises' /\ LoadersInv' /\ BootstrapInv'
      /\ name' = name /\ host' = host /\ Left = {<<"create", b>>} \cup Left'
      /\ b = BuildOf(name) /\ b \in Builds
      /\ \A p \in MustBoot(name) : <<"boot", p>> \in Left'
      /\ file' = file /\ elf' = elf /\ LeftOf(name, Left)
      /\ \A o \in {"cargo", "stage", "inputs", "install"} : o # "create" =>
           \A x : <<o, x>> \in Left <=> <<o, x>> \in Left'
  BY <1>0, PackStep
<1>2. /\ \A x : <<"cargo", x>> \in Left <=> <<"cargo", x>> \in Left'
      /\ \A x : <<"stage", x>> \in Left <=> <<"stage", x>> \in Left'
      /\ \A x : <<"inputs", x>> \in Left <=> <<"inputs", x>> \in Left'
      /\ \A x : <<"install", x>> \in Left <=> <<"install", x>> \in Left'
  BY <1>1
<1>3. PassInv /\ CheckInv BY DEF WorkInv
<1>4. name \in Passing => <<"stage", b>> \in Left' /\ <<"install", b>> \in Left'
  BY <1>1, <1>2 DEF LeftOf
<1>5. PassInv' BY <1>1, <1>2, <1>3, <1>4 DEF PassInv
<1>6. CheckInv'
  <2>1. SUFFICES ASSUME name = "check" PROVE CheckInv' BY <1>1 DEF CheckInv
  <2>2. name \in Passing /\ b = "kernel" BY <1>1, <2>1 DEF Passing, BuildOf
  <2> QED BY <1>1, <1>2, <1>3, <1>4, <2>1, <2>2 DEF CheckInv, FilesThere, IsFile
<1> QED BY <1>1, <1>5, <1>6 DEF WorkInv

(* The image takes the kernels and the payloads as they are.               *)
LEMMA StageStep ==
  ASSUME WorkInv, NEW b, StageFiles(b) PROVE WorkInv'
<1> DEFINE im == [stage |-> Staged, kernels |-> elf[b],
                  loaders |-> [f \in ImageFiles |-> file[f]]]
<1>0. ImageStep("stage", b, im) BY DEF StageFiles
<1>i. im.kernels = elf[b] /\ \A f \in ImageFiles : im.loaders[f] = file[f] OBVIOUS
<1> HIDE DEF im
<1>1. /\ WorkTypes' /\ Promises' /\ LoadersInv' /\ BootstrapInv'
      /\ name' = name /\ host' = host /\ Left = {<<"stage", b>>} \cup Left'
      /\ b = BuildOf(name) /\ b \in Builds
      /\ \A p \in MustBoot(name) : <<"boot", p>> \in Left'
      /\ \A x \in Left' : Grade(<<"stage", b>>) <= Grade(x)
      /\ image'[b] = im
      /\ file' = file /\ elf' = elf /\ LeftOf(name, Left)
      /\ \A o \in {"cargo", "stage", "inputs", "install"} : o # "stage" =>
           \A x : <<o, x>> \in Left <=> <<o, x>> \in Left'
  BY <1>0, PackStep
<1>2. /\ \A x : <<"cargo", x>> \in Left <=> <<"cargo", x>> \in Left'
      /\ \A x : <<"inputs", x>> \in Left <=> <<"inputs", x>> \in Left'
      /\ \A x : <<"install", x>> \in Left <=> <<"install", x>> \in Left'
  BY <1>1
<1>3. PassInv /\ CheckInv BY DEF WorkInv
<1>4. name \in Passing => <<"install", b>> \in Left' BY <1>1, <1>2 DEF LeftOf
<1>5. ASSUME NEW x, <<"cargo", x>> \in Left PROVE FALSE
  <2>1. <<"cargo", x>> \in Left' BY <1>2, <1>5
  <2>2. Grade(<<"cargo", x>>) = 1 /\ Grade(<<"stage", b>>) = 4 BY GradeOf
  <2>3. Grade(<<"stage", b>>) <= Grade(<<"cargo", x>>) BY <1>1, <2>1
  <2> QED BY <2>2, <2>3
<1>6. PassInv'
  <2>1. ASSUME name \in Passing, NEW t \in Targets
        PROVE  elf[b][t] = host.source /\ image'[b].kernels[t] = host.source
    <3>1. elf[b][t] = host.source BY <1>1, <1>3, <1>5, <2>1 DEF PassInv
    <3> QED BY <1>1, <1>i, <3>1
  <2> QED BY <1>1, <2>1 DEF PassInv
<1>7. CheckInv'
  <2>1. SUFFICES ASSUME name = "check" PROVE CheckInv' BY <1>1 DEF CheckInv
  <2>2. name \in Passing /\ b = "kernel" BY <1>1, <2>1 DEF Passing, BuildOf
  <2>3. \A f \in ImageFiles : image'["kernel"].loaders[f] = file[f]
    BY <1>1, <1>i, <2>2
  <2> QED BY <1>1, <1>2, <1>3, <1>4, <2>1, <2>2, <2>3 DEF CheckInv, FilesThere, IsFile
<1> QED BY <1>1, <1>6, <1>7 DEF WorkInv

(* The image is finished with the tool that is found.                      *)
LEMMA InstallStep ==
  ASSUME WorkInv, NEW b, InstallBios(b) PROVE WorkInv'
<1> DEFINE im == [stage |-> Installed, kernels |-> image[b].kernels,
                  loaders |-> image[b].loaders, tool |-> LimineTool]
<1>0. ImageStep("install", b, im) BY DEF InstallBios
<1>i. /\ im.stage = Installed /\ im.kernels = image[b].kernels
      /\ im.loaders = image[b].loaders /\ im.tool = LimineTool
  OBVIOUS
<1> HIDE DEF im
<1>1. /\ WorkTypes' /\ Promises' /\ LoadersInv' /\ BootstrapInv'
      /\ name' = name /\ host' = host /\ Left = {<<"install", b>>} \cup Left'
      /\ b = BuildOf(name) /\ b \in Builds
      /\ \A p \in MustBoot(name) : <<"boot", p>> \in Left'
      /\ image'[b] = im
      /\ file' = file /\ elf' = elf
      /\ \A o \in {"cargo", "stage", "inputs", "install"} : o # "install" =>
           \A x : <<o, x>> \in Left <=> <<o, x>> \in Left'
  BY <1>0, PackStep
<1>2. /\ \A x : <<"cargo", x>> \in Left <=> <<"cargo", x>> \in Left'
      /\ \A x : <<"stage", x>> \in Left <=> <<"stage", x>> \in Left'
      /\ \A x : <<"inputs", x>> \in Left <=> <<"inputs", x>> \in Left'
  BY <1>1
<1>3. PassInv /\ CheckInv BY DEF WorkInv
<1>4. image'[b].kernels = image[b].kernels BY <1>1, <1>i
<1>5. PassInv' BY <1>1, <1>2, <1>3, <1>4 DEF PassInv
<1>6. CheckInv'
  <2>1. SUFFICES ASSUME name = "check" PROVE CheckInv' BY <1>1 DEF CheckInv
  <2>2. b = "kernel" BY <1>1, <2>1 DEF BuildOf
  <2>3. /\ image'["kernel"].loaders = image["kernel"].loaders
        /\ image'["kernel"].stage = Installed /\ image'["kernel"].tool = LimineTool
    BY <1>1, <1>i, <2>2
  <2>4. LimineTool' = LimineTool BY <1>1 DEF LimineTool, IsFile
  <2> QED BY <1>1, <1>2, <1>3, <2>1, <2>3, <2>4 DEF CheckInv, FilesThere, IsFile
<1> QED BY <1>1, <1>5, <1>6 DEF WorkInv

(* clean removes the whole tree.                                           *)
LEMMA RemoveStep ==
  ASSUME WorkInv, RemoveTree PROVE WorkInv'
<1> DEFINE h == Head(todo)
<1>0. /\ todo # <<>> /\ h[1] = "remove" /\ Onward
      /\ UNCHANGED <<ready, file, marker, history>>
  BY DEF RemoveTree, Running
<1>1. WorkTypes BY DEF WorkInv
<1>2. /\ DOMAIN elf' = Builds /\ \A b \in Builds : DOMAIN elf'[b] = Targets
      /\ DOMAIN image' = Builds
  <2>1. CASE Arg = "target" BY <1>1, <2>1 DEF RemoveTree, WorkTypes
  <2>2. CASE Arg # "target" BY <1>1, <2>2 DEF RemoveTree, WorkTypes
  <2> QED BY <2>1, <2>2
<1>3. h[1] \notin Making BY <1>0 DEF Making
<1>4. /\ WorkTypes' /\ Promises' /\ LoadersInv' /\ BootstrapInv' /\ name' = name
  BY <1>0, <1>2, <1>3, PlainOn
<1>5. name = "clean" BY <1>0, <1>1, FirstLeft
<1>6. PassInv' /\ CheckInv'
  BY <1>4, <1>5 DEF PassInv, CheckInv, MustBoot, Passing, Runs
<1> QED BY <1>4, <1>6 DEF WorkInv

(* A check that does not boot although all its steps have succeeded.       *)
LEMMA NoBootExplained ==
  ASSUME WorkInv, Running("boot"), MayFail(image[Arg[1]], Arg[2]), name = "check"
  PROVE  \/ marker # host.pin \/ host.pin \in scars
         \/ unbuilt \/ ~IsFile(Tool)
         \/ file["edk2"] = Torn
<1> DEFINE h == Head(todo)
           im == image["kernel"]
           t == Arg[2]
<1>0. todo # <<>> /\ h[1] = "boot" /\ Arg = h[2] BY DEF Running, Arg
<1>1. WorkTypes /\ LoadersInv /\ CheckInv BY DEF WorkInv
<1>2. /\ Left = {h} \cup ToSet(Tail(todo))
      /\ \A x \in ToSet(Tail(todo)) : Grade(h) <= Grade(x)
  BY <1>0, <1>1, FirstLeft
<1>3. h[2] \in MustBoot("check") BY <1>0, <1>1, <1>2 DEF WorkTypes, LeftOf
<1>4. Arg[1] = "kernel" /\ t \in Targets
  <2>1. MustBoot("check") = {"kernel"} \X Targets BY DEF MustBoot, Passing, BuildOf
  <2> QED BY <1>0, <1>3, <2>1
<1>5. MayFail(im, t) BY <1>4
<1> HIDE DEF h
<1>6. ASSUME NEW op \in {"inputs", "stage", "install", "record"}, NEW x, <<op, x>> \in Left
      PROVE  FALSE
  <2>1. <<op, x>> \in ToSet(Tail(todo)) BY <1>0, <1>2, <1>6, OtherStep
  <2>2. Grade(<<op, x>>) \in {2, 4, 5} BY <1>6, GradeOf
  <2>3. Grade(h) = 7 BY <1>0, GradeOf
  <2>4. Grade(h) <= Grade(<<op, x>>) BY <1>2, <2>1
  <2> QED BY <2>2, <2>3, <2>4
<1>7. /\ FilesThere
      /\ \A f \in ImageFiles : im.loaders[f] = file[f]
      /\ im.stage = Installed /\ im.tool = LimineTool
  BY <1>1, <1>6 DEF CheckInv
<1>8. ~Materializing
  <2>1. <<"record", "">> \notin Left BY <1>6
  <2> QED BY <1>1, <2>1, AheadInSet DEF WorkTypes, Materializing, Ahead, Left
<1>9. (\A f \in ToSet(Payloads) : Marked(f)) /\ (Marked(Tool) \/ unbuilt)
  BY <1>1, <1>8 DEF LoadersInv
<1> DEFINE l == Loader(t)
<1>10. l \in ToSet(Payloads) /\ l \in ImageFiles
  BY WorkspaceAssumption DEF Loader, ImageFiles
<1> HIDE DEF im, l, t
<1>11. file[l] = marker \/ marker \in scars
  BY <1>7, <1>9, <1>10 DEF FilesThere, IsFile, Marked
<1>12. marker # Torn BY <1>1 DEF WorkTypes, Torn
<1>13. im.loaders[l] = file[l] BY <1>7, <1>10
<1>14. SUFFICES ASSUME marker = host.pin, host.pin \notin scars, ~unbuilt, IsFile(Tool),
                       file["edk2"] # Torn
                PROVE  FALSE
  OBVIOUS
<1>15. file[l] = marker /\ marker \notin scars BY <1>11, <1>14
<1>16. BootsUp(im, t)
  <2>1. im.stage \in BootStages(t) BY <1>7 DEF BootStages
  <2> QED BY <1>12, <1>13, <1>14, <1>15, <2>1 DEF BootsUp, l
<1>17. im.tool = marker
  <2>1. file[Tool] = marker BY <1>9, <1>14, <1>15 DEF Marked, IsFile
  <2> QED BY <1>7, <1>14, <2>1 DEF LimineTool
<1>18. im.tool # im.loaders[l] BY <1>5, <1>16 DEF MayFail, l
<1> QED BY <1>13, <1>15, <1>17, <1>18

(* A kernel boots, or the command fails on it.                             *)
LEMMA BootStep ==
  ASSUME WorkInv, Boots PROVE WorkInv'
<1> DEFINE im == image[Arg[1]]
           t == Arg[2]
<1>0. Running("boot") BY DEF Boots
<1>1. CASE Findable(t) /\ BootsUp(im, t) /\ Onward /\ UNCHANGED <<tree, history>>
  <2>1. Whole(im, t) BY <1>1 DEF BootsUp, Whole
  <2>2. todo # <<>> /\ Head(todo)[1] = "boot" BY <1>0 DEF Running
  <2>3. Head(todo)[1] \in {"inputs", "validate", "boot"} /\ Head(todo)[1] # "inputs"
    BY <2>2
  <2> QED BY <1>1, <2>1, <2>2, <2>3, LookStep
<1>2. CASE Refuse(Findable(t)) BY <1>2, EndStep DEF Refuse
<1>3. CASE Findable(t) /\ MayFail(im, t) /\ End("no boot")
  <2>1. /\ verdict' = <<name, "no boot">> /\ unbuilt' = unbuilt /\ host' = host
        /\ scars \subseteq scars' /\ file' = file /\ marker' = marker
    BY <1>3 DEF End, tree
  <2>2. FailedCheckExplained'
    <3>1. SUFFICES ASSUME name = "check" PROVE FailedCheckExplained'
      BY <2>1 DEF FailedCheckExplained
    <3>2. \/ marker # host.pin \/ host.pin \in scars
          \/ unbuilt \/ ~IsFile(Tool)
          \/ file["edk2"] = Torn
      BY <1>0, <1>3, <3>1, NoBootExplained
    <3> QED BY <2>1, <3>2 DEF FailedCheckExplained, IsFile
  <2>3. \A c : verdict' # <<c, "ok">> BY <2>1
  <2>4. Promises'
    BY <2>2, <2>3 DEF Promises, BootstrapMeansReady, PassMeansCurrent
  <2> QED BY <1>3, <2>4, EndStep
<1> QED BY <1>1, <1>2, <1>3 DEF Boots
-----------------------------------------------------------------------------
(* Nothing is promised, and nothing is installed, at first.                *)
LEMMA WorkInvInit == Init => WorkInv
<1> SUFFICES ASSUME Init PROVE WorkInv OBVIOUS
<1>0. /\ name = "none" /\ todo = <<>> /\ verdict = NoVerdict /\ marker = Absent
      /\ \E d \in BOOLEAN :
           host = [pin |-> 1, source |-> 1, firmware |-> 1, cc |-> TRUE, distro |-> d]
      /\ file = [f \in Files |-> Absent]
      /\ elf = [b \in Builds |-> [t \in Targets |-> Absent]]
      /\ image = [b \in Builds |-> NoImage]
  BY DEF Init
<1>1. Left = {} BY <1>0, NoneLeft DEF Left
<1>2. WorkTypes
  <2>1. DOMAIN host = {"pin", "source", "firmware", "cc", "distro"} /\ host.pin \in Nat BY <1>0
  <2>2. /\ DOMAIN file = Files /\ DOMAIN image = Builds
        /\ DOMAIN elf = Builds /\ \A b \in Builds : DOMAIN elf[b] = Targets
    BY <1>0
  <2>3. marker \in Nat BY <1>0 DEF Absent
  <2> QED BY <1>0, <1>1, <2>1, <2>2, <2>3, NoneLeft DEF WorkTypes
<1>3. LoadersInv
  <2>1. \A f \in Files : Marked(f) BY <1>0 DEF Marked
  <2>2. Tool \in Files /\ ToSet(Payloads) \subseteq Files BY DEF Files
  <2> QED BY <2>1, <2>2 DEF LoadersInv
<1>4. BootstrapInv BY <1>0 DEF BootstrapInv
<1>5. PassInv
  <2>1. MustBoot(name) = {} /\ name \notin Passing BY <1>0, NoneLeft
  <2> QED BY <2>1 DEF PassInv
<1>6. CheckInv BY <1>0 DEF CheckInv
<1>7. Promises
  BY <1>0 DEF Promises, BootstrapMeansReady, PassMeansCurrent, FailedCheckExplained,
    NoVerdict, Runs
<1> QED BY <1>2, <1>3, <1>4, <1>5, <1>6, <1>7 DEF WorkInv

(* Every step of every command keeps the promises, and so does the user.   *)
LEMMA WorkInvNext == WorkInv /\ [Next]_vars => WorkInv'
<1> SUFFICES ASSUME WorkInv, [Next]_vars PROVE WorkInv' OBVIOUS
<1>1. ASSUME NEW c \in Commands, Start(c) PROVE WorkInv' BY <1>1, StartStep
<1>2. CASE Finish BY <1>2, FinishStep
<1>3. CASE Stop BY <1>3, EndStep DEF Stop
<1>4. CASE Install BY <1>4, QuietMaking DEF Install, Running
<1>5. CASE Fetch BY <1>5, QuietMaking DEF Fetch, Running, tree
<1>6. CASE OpenFile BY <1>6, OpenStep
<1>7. CASE FillFile BY <1>7, FillStep
<1>8. CASE Compile BY <1>8, CompileStep
<1>9. CASE Record BY <1>9, RecordStep
<1>10. CASE StageFirmware BY <1>10, FirmwareStep
<1>11. CASE Cargo BY <1>11, CargoStep
<1>12. CASE FindInputs
  <2>1. CASE InputsPresent(Arg)
    <3>1. /\ todo # <<>> /\ Head(todo)[1] = "inputs" /\ Onward
          /\ UNCHANGED <<tree, history>> /\ FilesThere
      BY <1>12, <2>1 DEF FindInputs, Running, InputsPresent
    <3>2. Head(todo)[1] \in {"inputs", "validate", "boot"} /\ Head(todo)[1] # "boot"
      BY <3>1
    <3> QED BY <3>1, <3>2, LookStep
  <2>2. CASE ~InputsPresent(Arg) BY <1>12, <2>2, EndStep DEF FindInputs, Refuse
  <2> QED BY <2>1, <2>2
<1>13. CASE AssemblyFails BY <1>13, EndStep DEF AssemblyFails, Refuse
<1>14. CASE Validate
  <2>1. /\ todo # <<>> /\ Head(todo)[1] = "validate" /\ Onward
        /\ UNCHANGED <<tree, history>>
    BY <1>14 DEF Validate, Running
  <2>2. /\ Head(todo)[1] \in {"inputs", "validate", "boot"}
        /\ Head(todo)[1] # "boot" /\ Head(todo)[1] # "inputs"
    BY <2>1
  <2> QED BY <2>1, <2>2, LookStep
<1>15. CASE Boots BY <1>15, BootStep
<1>16. CASE RemoveTree BY <1>16, RemoveStep
<1>17. ASSUME NEW b \in Builds, CreateImage(b) PROVE WorkInv' BY <1>17, CreateStep
<1>18. ASSUME NEW b \in Builds, StageFiles(b) PROVE WorkInv' BY <1>18, StageStep
<1>19. ASSUME NEW b \in Builds, InstallBios(b) PROVE WorkInv' BY <1>19, InstallStep
<1>20. CASE UserChanges BY <1>20, UserStep
<1>21. CASE UNCHANGED vars
  <2>1. /\ host' = host /\ ready' = ready /\ file' = file /\ marker' = marker
        /\ elf' = elf /\ image' = image /\ name' = name /\ todo' = todo
        /\ verdict' = verdict /\ scars' = scars /\ unbuilt' = unbuilt
    BY <1>21 DEF vars, command, history
  <2>2. Left' = Left BY <2>1 DEF Left
  <2>3. /\ WorkTypes /\ LoadersInv /\ BootstrapInv /\ PassInv /\ CheckInv /\ Promises
    BY DEF WorkInv
  <2>4. WorkTypes' BY <2>1, <2>2, <2>3 DEF WorkTypes
  <2>5. LoadersInv' BY <2>1, <2>2, <2>3 DEF LoadersInv, Marked, Materializing, Ahead
  <2>6. BootstrapInv' BY <2>1, <2>2, <2>3 DEF BootstrapInv
  <2>7. PassInv' BY <2>1, <2>2, <2>3 DEF PassInv
  <2>8. CheckInv' BY <2>1, <2>2, <2>3 DEF CheckInv, FilesThere, LimineTool, IsFile
  <2>9. Promises'
    BY <2>1, <2>3 DEF Promises, BootstrapMeansReady, PassMeansCurrent,
      FailedCheckExplained, IsFile
  <2> QED BY <2>4, <2>5, <2>6, <2>7, <2>8, <2>9 DEF WorkInv
<1> QED
  BY <1>1, <1>2, <1>3, <1>4, <1>5, <1>6, <1>7, <1>8, <1>9, <1>10, <1>11, <1>12,
     <1>13, <1>14, <1>15, <1>16, <1>17, <1>18, <1>19, <1>20, <1>21 DEF Next

(* What the commands leave, after any history of commands, cuts and        *)
(* changes by the user, for any list of payloads and of versions.          *)
THEOREM CommandsKeepWord == Spec => []WorkInv
BY WorkInvInit, WorkInvNext, PTL DEF Spec

(* A bootstrap that ends well leaves the pinned payloads whole, and the    *)
(* firmware of the installed QEMU (bootstrap.rs ensure_limine,             *)
(* stage_firmware).                                                        *)
THEOREM BootstrapIsReady == Spec => []BootstrapMeansReady
<1>1. WorkInv => BootstrapMeansReady BY DEF WorkInv, Promises
<1> QED BY <1>1, CommandsKeepWord, PTL

(* A check or a demo that passes booted a finished, whole image with the   *)
(* kernels of the sources as they are now; a run that passes booted what   *)
(* its firmware needs, a finished image on x86_64 and at least the staged  *)
(* files on aarch64, with a whole loader (check.rs run, runner.rs run,     *)
(* image.rs assemble).                                                     *)
THEOREM PassIsCurrent == Spec => []PassMeansCurrent
<1>1. WorkInv => PassMeansCurrent BY DEF WorkInv, Promises
<1> QED BY <1>1, CommandsKeepWord, PTL

(* A check that does not boot has one of the known reasons (bootstrap.rs   *)
(* ensure_limine, image.rs assemble).                                      *)
THEOREM NoBootIsExplained == Spec => []FailedCheckExplained
<1>1. WorkInv => FailedCheckExplained BY DEF WorkInv, Promises
<1> QED BY <1>1, CommandsKeepWord, PTL
-----------------------------------------------------------------------------
(***************************************************************************)
(* SmokeDriver.  A marker that was printed stays in the log, and keys may  *)
(* be lost, or typed twice and read late.  What keeps the order is that    *)
(* the keys that open or close an application stand in one segment of the  *)
(* script each, and that the guest takes them segment after segment.       *)
(***************************************************************************)
(* The steps of the script in eight segments: a word that opens an         *)
(* application is typed in one of them only, and Escape, which closes it,  *)
(* only in later ones.                                                     *)
Segment(i) ==
  CASE i <= 5 -> i
    [] i > 5 /\ arch = "x64" -> IF i <= 8 THEN 6 ELSE IF i = 9 THEN 7 ELSE 8
    [] OTHER -> IF i = 6 THEN 6 ELSE IF i = 7 THEN 7 ELSE 8

(* What the steps of a segment type; any word may be garbled on its way.   *)
KeysOf(segment) ==
  {Garbled} \cup
  CASE segment = 1 -> {"gui", "ret"}
    [] segment = 3 -> {"monitor", "ret"}
    [] segment = 5 -> {"keyboard", "ret"}
    [] segment = 6 -> {"a", "b", "right", "ret"}
    [] segment = 8 -> {"help", "xyz", "uptime", "halt", "ret"}
    [] OTHER -> {"esc"}

AllKeys == Words \cup {"ret", "esc", "right", "a", "b", Garbled}

(* The last segment of which anything has been sent. *)
Sent == IF typed THEN Segment(step) ELSE Segment(step - 1)

(* The segments that open and close an application. *)
Opens(a) == CASE a = "gui" -> 1 [] a = "monitor" -> 3 [] OTHER -> 5
Closes(a) == CASE a = "gui" -> 2 [] a = "monitor" -> 4 [] OTHER -> 7

(* Keys on their way, each of a segment, and the segments in order. *)
InOrder(q, from, upto) ==
  \E s \in [1..Len(q) -> from..upto] :
    /\ \A i \in 1..Len(q) : q[i] \in KeysOf(s[i])
    /\ \A i, j \in 1..Len(q) : i <= j => s[i] <= s[j]

(* What the guest has done when the last key it took was of segment n:    *)
(* what reads the keys, what stands on its line, which markers it has put  *)
(* on the wire.                                                            *)
Place(n, reader, typing, markers) ==
  /\ reader \in Applications => typing = <<>>
  /\ \A a \in Applications :
       /\ reader = a \/ a \in ToSet(typing) => n >= Opens(a)
       /\ FrameMarker(a) \in markers => reader = a \/ n >= Closes(a)
       /\ ExitMarker(a) \in markers =>
            n >= Closes(a) /\ reader # a /\ a \notin ToSet(typing)

Reached(n) == InOrder(keys, n, Sent) /\ Place(n, app, line, ToSet(out))

MarkerSet ==
  {"BOOT OK", "FRAMEBUFFER OK", "HALT", "Hello from Ferric-K!", "SLINT OK",
   "GUI EXIT OK", "MONITOR OK", "MONITOR EXIT OK", "KEYBOARD OK",
   "KEYBOARD TEXT ab", "KEYBOARD SEL 0 1", "KEYBOARD TEXT ab1",
   "KEYBOARD EXIT OK", "power off", "unknown command", "Uptime:"}

(* The inductive invariant. *)
SmokeInv ==
  /\ keys \in Seq(AllKeys) /\ sending \in Seq(AllKeys) /\ line \in Seq(AllKeys)
  /\ out \in Seq(MarkerSet)
  /\ step \in 1..Len(Script) /\ typed \in BOOLEAN
  /\ app \in Applications \cup {"boot", "shell", "off"}
  /\ logged \in 0..Len(out)
  /\ app = "boot" => out = <<>>
  /\ \A i \in 1..step - 1 : Script[i].marker \in ToSet(out)
  /\ sending # <<>> => typed
  /\ \A i \in 1..Len(sending) : sending[i] \in KeysOf(Sent)
  /\ Alive => \E n \in 0..Sent : Reached(n)
-----------------------------------------------------------------------------
(* The script, step by step. *)
LEMMA Joined ==
  ASSUME NEW S, NEW p \in Seq(S), NEW q \in Seq(S)
  PROVE  /\ p \o q \in Seq(S)
         /\ Len(p \o q) = Len(p) + Len(q)
         /\ \A i \in 1..Len(p) : (p \o q)[i] = p[i]
         /\ \A i \in 1..Len(q) : (p \o q)[Len(p) + i] = q[i]
OBVIOUS

LEMMA Lengths == Len(Opening) = 6 /\ Len(Tapping) = 3 /\ Len(Closing) = 4
BY DEF Opening, Tapping, Closing

LEMMA Listed ==
  /\ Opening = [i \in 1..6 |-> Opening[i]]
  /\ Tapping = [i \in 1..3 |-> Tapping[i]]
  /\ Closing = [i \in 1..4 |-> Closing[i]]
BY DEF Opening, Tapping, Closing

(* ScriptSteps 1 to 6 are Opening; the rest is Between and Closing. *)
Shortcut == Await("KEYBOARD TEXT ab", <<"esc">>)
Between == IF arch = "x64" THEN Tapping ELSE <<Shortcut>>

LEMMA ScriptIs ==
  LET n == IF arch = "x64" THEN 3 ELSE 1
  IN  /\ Len(Script) = 10 + n
      /\ \A i \in 1..6 : Script[i] = Opening[i]
      /\ \A i \in 1..n : Script[6 + i] = Between[i]
      /\ \A i \in 1..4 : Script[6 + n + i] = Closing[i]
<1> DEFINE n == IF arch = "x64" THEN 3 ELSE 1
           S == {Opening[i] : i \in 1..6} \cup {Tapping[i] : i \in 1..3}
                  \cup {Closing[i] : i \in 1..4} \cup {Shortcut}
<1>1. /\ Opening \in Seq(S) /\ Tapping \in Seq(S) /\ Closing \in Seq(S)
      /\ <<Shortcut>> \in Seq(S) /\ Len(<<Shortcut>>) = 1
  <2>1. /\ \A i \in 1..6 : Opening[i] \in S
        /\ \A i \in 1..3 : Tapping[i] \in S
        /\ \A i \in 1..4 : Closing[i] \in S
        /\ Shortcut \in S
    OBVIOUS
  <2> HIDE DEF S
  <2> QED BY <2>1, Listed
<1> HIDE DEF S
<1>2. Between \in Seq(S) /\ Len(Between) = n BY <1>1, Lengths DEF Between
<1>3. Script = (Opening \o Between) \o Closing
  BY DEF Script, X64_SCRIPT, ARM64_SCRIPT, Between, Shortcut
<1> DEFINE F == Opening \o Between
<1>0. n \in {1, 3} OBVIOUS
<1> HIDE DEF n
<1>4. /\ F \in Seq(S) /\ Len(F) = 6 + n
      /\ \A i \in 1..6 : F[i] = Opening[i]
      /\ \A i \in 1..n : F[6 + i] = Between[i]
  <2>1. Opening \o Between \in Seq(S)
        /\ Len(Opening \o Between) = Len(Opening) + Len(Between)
        /\ (\A i \in 1..Len(Opening) : (Opening \o Between)[i] = Opening[i])
        /\ (\A i \in 1..Len(Between) :
              (Opening \o Between)[Len(Opening) + i] = Between[i])
    BY <1>1, <1>2, Joined
  <2> QED BY <1>2, <2>1, Lengths
<1> HIDE DEF F
<1>5. Len(F \o Closing) = Len(F) + 4
      /\ (\A i \in 1..Len(F) : (F \o Closing)[i] = F[i])
      /\ (\A i \in 1..4 : (F \o Closing)[Len(F) + i] = Closing[i])
  <2>1. Len(F \o Closing) = Len(F) + Len(Closing)
        /\ (\A i \in 1..Len(F) : (F \o Closing)[i] = F[i])
        /\ (\A i \in 1..Len(Closing) :
              (F \o Closing)[Len(F) + i] = Closing[i])
    <3>1. F \in Seq(S) /\ Closing \in Seq(S) BY <1>1, <1>4
    <3> QED BY <3>1, Joined
  <2> QED BY <2>1, Lengths
<1>6. Script = F \o Closing BY <1>3 DEF F
<1>7. /\ Len(Script) = 10 + n
      /\ \A i \in 1..6 + n : Script[i] = F[i]
      /\ \A i \in 1..4 : Script[6 + n + i] = Closing[i]
  BY SMTT(60), <1>0, <1>4, <1>5, <1>6
<1>8. \A i \in 1..6 : Script[i] = Opening[i] BY SMTT(60), <1>0, <1>4, <1>7
<1>9. \A i \in 1..n : Script[6 + i] = Between[i] BY <1>0, <1>4, <1>7
<1> QED BY <1>7, <1>8, <1>9 DEF n

(* The same, with each step in its place. *)
LEMMA ScriptSteps ==
  /\ \A i \in 1..6 : Script[i] = Opening[i]
  /\ arch = "x64" =>
       /\ Len(Script) = 13
       /\ Script[7] = Tapping[1] /\ Script[8] = Tapping[2]
       /\ Script[9] = Tapping[3]
       /\ Script[10] = Closing[1] /\ Script[11] = Closing[2]
       /\ Script[12] = Closing[3] /\ Script[13] = Closing[4]
  /\ arch # "x64" =>
       /\ Len(Script) = 11
       /\ Script[7] = Shortcut
       /\ Script[8] = Closing[1] /\ Script[9] = Closing[2]
       /\ Script[10] = Closing[3] /\ Script[11] = Closing[4]
<1>1. CASE arch = "x64"
  <2>1. /\ Len(Script) = 13
        /\ \A i \in 1..6 : Script[i] = Opening[i]
        /\ \A i \in 1..3 : Script[6 + i] = Tapping[i]
        /\ \A i \in 1..4 : Script[9 + i] = Closing[i]
    BY <1>1, ScriptIs DEF Between
  <2>2. /\ Script[6 + 1] = Tapping[1] /\ Script[6 + 2] = Tapping[2]
        /\ Script[6 + 3] = Tapping[3]
        /\ Script[9 + 1] = Closing[1] /\ Script[9 + 2] = Closing[2]
        /\ Script[9 + 3] = Closing[3] /\ Script[9 + 4] = Closing[4]
    BY <2>1
  <2> QED BY <1>1, <2>1, <2>2
<1>2. CASE arch # "x64"
  <2>1. /\ Len(Script) = 11
        /\ \A i \in 1..6 : Script[i] = Opening[i]
        /\ Script[6 + 1] = Between[1]
        /\ \A i \in 1..4 : Script[7 + i] = Closing[i]
    BY <1>2, ScriptIs
  <2>2. Between[1] = Shortcut BY <1>2 DEF Between
  <2>3. /\ Script[7 + 1] = Closing[1] /\ Script[7 + 2] = Closing[2]
        /\ Script[7 + 3] = Closing[3] /\ Script[7 + 4] = Closing[4]
    BY <2>1
  <2> QED BY <1>2, <2>1, <2>2, <2>3
<1> QED BY <1>1, <1>2

LEMMA Markers ==
  /\ Opening[1].marker = "Hello from Ferric-K!"
  /\ Opening[2].marker = "SLINT OK"
  /\ Opening[3].marker = "GUI EXIT OK"
  /\ Opening[4].marker = "MONITOR OK"
  /\ Opening[5].marker = "MONITOR EXIT OK"
  /\ Opening[6].marker = "KEYBOARD OK"
  /\ Tapping[1].marker = "KEYBOARD TEXT ab"
  /\ Tapping[2].marker = "KEYBOARD SEL 0 1"
  /\ Tapping[3].marker = "KEYBOARD TEXT ab1"
  /\ Shortcut.marker = "KEYBOARD TEXT ab"
  /\ Closing[1].marker = "KEYBOARD EXIT OK"
  /\ Closing[2].marker = "power off"
  /\ Closing[3].marker = "unknown command"
  /\ Closing[4].marker = "Uptime:"
BY DEF Opening, Tapping, Closing, Shortcut, Await

(* What is typed in a step. *)
Types(s, segment) ==
  /\ s.type \in Seq(AllKeys)
  /\ \A i \in 1..Len(s.type) : s.type[i] \in KeysOf(segment)

LEMMA Typing ==
  /\ Types(Opening[1], 1) /\ Types(Opening[2], 2) /\ Types(Opening[3], 3)
  /\ Types(Opening[4], 4) /\ Types(Opening[5], 5) /\ Types(Opening[6], 6)
  /\ Types(Tapping[1], 6) /\ Types(Tapping[2], 6) /\ Types(Tapping[3], 7)
  /\ Types(Shortcut, 7)
  /\ Types(Closing[1], 8) /\ Types(Closing[2], 8) /\ Types(Closing[3], 8)
  /\ Types(Closing[4], 8)
<1>1. ASSUME NEW s, NEW k \in AllKeys, NEW l \in AllKeys, NEW n,
             s.type = <<k, l>>, k \in KeysOf(n), l \in KeysOf(n)
      PROVE  Types(s, n)
  BY <1>1 DEF Types
<1>2. ASSUME NEW s, NEW k \in AllKeys, NEW n,
             s.type = <<k>>, k \in KeysOf(n)
      PROVE  Types(s, n)
  BY <1>2 DEF Types
<1>3. /\ Opening[1].type = <<"gui", "ret">>
      /\ Opening[2].type = <<"esc">>
      /\ Opening[3].type = <<"monitor", "ret">>
      /\ Opening[4].type = <<"esc">>
      /\ Opening[5].type = <<"keyboard", "ret">>
      /\ Opening[6].type = <<"a", "b">>
  BY DEF Opening, Await, Command
<1>4. /\ Tapping[1].type = <<"right">>
      /\ Tapping[2].type = <<"ret">>
      /\ Tapping[3].type = <<"esc">>
      /\ Shortcut.type = <<"esc">>
  BY DEF Tapping, Shortcut, Await
<1>5. /\ Closing[1].type = <<"help", "ret">>
      /\ Closing[2].type = <<"xyz", "ret">>
      /\ Closing[3].type = <<"uptime", "ret">>
      /\ Closing[4].type = <<"halt", "ret">>
  BY DEF Closing, Await, Command
<1>6. /\ "gui" \in KeysOf(1) /\ "ret" \in KeysOf(1) /\ "esc" \in KeysOf(2)
      /\ "monitor" \in KeysOf(3) /\ "ret" \in KeysOf(3) /\ "esc" \in KeysOf(4)
      /\ "keyboard" \in KeysOf(5) /\ "ret" \in KeysOf(5)
      /\ "a" \in KeysOf(6) /\ "b" \in KeysOf(6) /\ "right" \in KeysOf(6)
      /\ "ret" \in KeysOf(6) /\ "esc" \in KeysOf(7)
      /\ "help" \in KeysOf(8) /\ "xyz" \in KeysOf(8) /\ "uptime" \in KeysOf(8)
      /\ "halt" \in KeysOf(8) /\ "ret" \in KeysOf(8)
  BY DEF KeysOf
<1>7. {"gui", "monitor", "keyboard", "help", "xyz", "uptime", "halt", "ret",
       "esc", "right", "a", "b"} \subseteq AllKeys
  BY DEF AllKeys, Words
<1>8. Types(Opening[1], 1) BY <1>1, <1>3, <1>6, <1>7
<1>9. Types(Opening[2], 2) BY <1>2, <1>3, <1>6, <1>7
<1>10. Types(Opening[3], 3) BY <1>1, <1>3, <1>6, <1>7
<1>11. Types(Opening[4], 4) BY <1>2, <1>3, <1>6, <1>7
<1>12. Types(Opening[5], 5) BY <1>1, <1>3, <1>6, <1>7
<1>13. Types(Opening[6], 6) BY <1>1, <1>3, <1>6, <1>7
<1>14. Types(Tapping[1], 6) BY <1>2, <1>4, <1>6, <1>7
<1>15. Types(Tapping[2], 6) BY <1>2, <1>4, <1>6, <1>7
<1>16. Types(Tapping[3], 7) BY <1>2, <1>4, <1>6, <1>7
<1>17. Types(Shortcut, 7) BY <1>2, <1>4, <1>6, <1>7
<1>18. Types(Closing[1], 8) BY <1>1, <1>5, <1>6, <1>7
<1>19. Types(Closing[2], 8) BY <1>1, <1>5, <1>6, <1>7
<1>20. Types(Closing[3], 8) BY ZenonT(60), <1>1, <1>5, <1>6, <1>7
<1>21. Types(Closing[4], 8) BY <1>1, <1>5, <1>6, <1>7
<1> QED BY <1>8, <1>9, <1>10, <1>11, <1>12, <1>13, <1>14, <1>15, <1>16, <1>17,
           <1>18, <1>19, <1>20, <1>21
-----------------------------------------------------------------------------
(* Keys and markers in a row. *)
LEMMA TakeOne ==
  ASSUME NEW S, NEW q \in Seq(S), q # <<>>, NEW n, NEW u, InOrder(q, n, u),
         n \in Nat, u \in Nat
  PROVE  \E m \in n..u : Head(q) \in KeysOf(m) /\ InOrder(Tail(q), m, u)
<1>1. PICK s \in [1..Len(q) -> n..u] :
        /\ \A i \in 1..Len(q) : q[i] \in KeysOf(s[i])
        /\ \A i, j \in 1..Len(q) : i <= j => s[i] <= s[j]
  BY DEF InOrder
<1>2. /\ Len(q) \in Nat /\ Len(q) >= 1 /\ Head(q) = q[1]
      /\ Tail(q) \in Seq(S) /\ Len(Tail(q)) = Len(q) - 1
      /\ \A i \in 1..Len(Tail(q)) : Tail(q)[i] = q[i + 1]
  BY HeadTailProperties
<1> DEFINE l == Len(Tail(q))
           t == [i \in 1..l |-> s[i + 1]]
<1>3. \A i \in 1..l : i + 1 \in 1..Len(q) BY <1>2
<1>4. 1 \in 1..Len(q) BY <1>2
<1>5. s[1] \in n..u BY <1>1, <1>4
<1>6. \A i \in 1..l : s[i + 1] \in n..u /\ s[1] <= s[i + 1]
  <2> SUFFICES ASSUME NEW i \in 1..l
               PROVE  s[i + 1] \in n..u /\ s[1] <= s[i + 1]
    OBVIOUS
  <2>1. i + 1 \in 1..Len(q) /\ 1 <= i + 1 BY <1>2, <1>3
  <2> QED BY <1>1, <1>4, <2>1
<1>7. t \in [1..l -> s[1]..u] BY <1>5, <1>6
<1>8. \A i \in 1..l : Tail(q)[i] \in KeysOf(t[i]) BY <1>1, <1>2, <1>3
<1>9. ASSUME NEW i \in 1..l, NEW j \in 1..l, i <= j PROVE t[i] <= t[j]
  <2>1. i + 1 \in 1..Len(q) /\ j + 1 \in 1..Len(q) /\ i + 1 <= j + 1
    BY <1>2, <1>3, <1>9
  <2> QED BY <1>1, <2>1
<1> HIDE DEF t
<1>10. InOrder(Tail(q), s[1], u) BY <1>7, <1>8, <1>9 DEF InOrder
<1> QED BY <1>1, <1>2, <1>4, <1>5, <1>10

LEMMA PutOne ==
  ASSUME NEW S, NEW q \in Seq(S), NEW k \in S, NEW n \in Nat, NEW u \in Nat,
         n <= u, InOrder(q, n, u), k \in KeysOf(u)
  PROVE  InOrder(Append(q, k), n, u)
<1>1. PICK s \in [1..Len(q) -> n..u] :
        /\ \A i \in 1..Len(q) : q[i] \in KeysOf(s[i])
        /\ \A i, j \in 1..Len(q) : i <= j => s[i] <= s[j]
  BY DEF InOrder
<1> DEFINE l == Len(q)
           p == Append(q, k)
           t == [i \in 1..l + 1 |-> IF i = l + 1 THEN u ELSE s[i]]
<1>2. /\ l \in Nat /\ Len(p) = l + 1 /\ p[l + 1] = k
      /\ \A i \in 1..l : p[i] = q[i]
  BY AppendProperties
<1>3. \A i \in 1..l + 1 : i = l + 1 \/ i \in 1..l BY <1>2
<1>4. t[l + 1] = u /\ \A i \in 1..l : t[i] = s[i] /\ s[i] \in n..u
  BY <1>1, <1>2
<1>5. t \in [1..l + 1 -> n..u] BY <1>3, <1>4
<1> HIDE DEF t, p
<1>6. \A i \in 1..l + 1 : p[i] \in KeysOf(t[i]) BY <1>1, <1>2, <1>3, <1>4
<1>7. ASSUME NEW i \in 1..l + 1, NEW j \in 1..l + 1, i <= j
      PROVE  t[i] <= t[j]
  <2>1. CASE j = l + 1 BY <1>5, <2>1, <1>4
  <2>2. CASE j \in 1..l
    <3>1. i \in 1..l BY <1>2, <1>7, <2>2
    <3> QED BY <1>1, <1>4, <1>7, <2>2, <3>1
  <2> QED BY <1>3, <2>1, <2>2
<1>8. InOrder(p, n, u) BY <1>2, <1>5, <1>6, <1>7 DEF InOrder
<1> QED BY <1>8 DEF p

LEMMA Wider ==
  ASSUME NEW q, NEW n \in Nat, NEW u \in Nat, NEW v \in Nat, u <= v,
         InOrder(q, n, u)
  PROVE  InOrder(q, n, v)
<1>1. PICK s \in [1..Len(q) -> n..u] :
        /\ \A i \in 1..Len(q) : q[i] \in KeysOf(s[i])
        /\ \A i, j \in 1..Len(q) : i <= j => s[i] <= s[j]
  BY DEF InOrder
<1>2. s \in [1..Len(q) -> n..v]
  <2>1. n..u \subseteq n..v OBVIOUS
  <2> QED BY <1>1, <2>1
<1> QED BY <1>1, <1>2 DEF InOrder

LEMMA Members ==
  /\ ToSet(<<>>) = {}
  /\ \A a : ToSet(<<a>>) = {a}
  /\ \A a, b, c : ToSet(<<a, b, c>>) = {a, b, c}
<1>1. ToSet(<<>>) = {}
  <2>1. DOMAIN <<>> = {} OBVIOUS
  <2> QED BY <2>1 DEF ToSet
<1>2. \A a : ToSet(<<a>>) = {a} BY DEF ToSet
<1>3. \A a, b, c : ToSet(<<a, b, c>>) = {a, b, c} BY DEF ToSet
<1> QED BY <1>1, <1>2, <1>3

LEMMA MembersAre ==
  ASSUME NEW S, NEW q \in Seq(S) PROVE ToSet(q) = {q[i] : i \in 1..Len(q)}
<1>1. DOMAIN q = 1..Len(q) OBVIOUS
<1> QED BY <1>1, Zenon DEF ToSet

LEMMA MembersJoined ==
  ASSUME NEW S, NEW p \in Seq(S), NEW q \in Seq(S)
  PROVE  /\ p \o q \in Seq(S) /\ Len(p \o q) >= Len(p)
         /\ ToSet(p \o q) = ToSet(p) \cup ToSet(q)
<1>1. /\ p \o q \in Seq(S) /\ Len(p \o q) = Len(p) + Len(q)
      /\ \A i \in 1..Len(p) : (p \o q)[i] = p[i]
      /\ \A i \in 1..Len(q) : (p \o q)[Len(p) + i] = q[i]
  BY Joined
<1>2. Len(p) \in Nat /\ Len(q) \in Nat OBVIOUS
<1>3. /\ ToSet(p) = {p[i] : i \in 1..Len(p)}
      /\ ToSet(q) = {q[i] : i \in 1..Len(q)}
      /\ ToSet(p \o q) = {(p \o q)[i] : i \in 1..Len(p \o q)}
  BY <1>1, MembersAre, ZenonT(60)
<1>4. ASSUME NEW i \in 1..Len(p \o q) PROVE (p \o q)[i] \in ToSet(p) \cup ToSet(q)
  <2>1. CASE i \in 1..Len(p) BY <1>1, <1>3, <2>1
  <2>2. CASE i \notin 1..Len(p)
    <3>1. i - Len(p) \in 1..Len(q) /\ i = Len(p) + (i - Len(p))
      BY <1>1, <1>2, <2>2
    <3>2. (p \o q)[i] = q[i - Len(p)] BY <1>1, <3>1
    <3> QED BY <1>3, <3>1, <3>2
  <2> QED BY <2>1, <2>2
<1>5. ASSUME NEW i \in 1..Len(p) PROVE p[i] \in ToSet(p \o q)
  <2>1. i \in 1..Len(p \o q) /\ (p \o q)[i] = p[i] BY <1>1, <1>2
  <2> QED BY <1>3, <2>1
<1>6. ASSUME NEW i \in 1..Len(q) PROVE q[i] \in ToSet(p \o q)
  <2>1. Len(p) + i \in 1..Len(p \o q) /\ (p \o q)[Len(p) + i] = q[i]
    BY <1>1, <1>2
  <2> QED BY <1>3, <2>1
<1>7. ToSet(p \o q) \subseteq ToSet(p) \cup ToSet(q) BY <1>3, <1>4
<1>8. ToSet(p) \subseteq ToSet(p \o q) BY <1>3, <1>5
<1>9. ToSet(q) \subseteq ToSet(p \o q) BY <1>3, <1>6
<1>10. Len(p \o q) >= Len(p) BY <1>1, <1>2
<1> QED BY <1>1, <1>7, <1>8, <1>9, <1>10

LEMMA MembersAppended ==
  ASSUME NEW S, NEW q \in Seq(S), NEW k \in S
  PROVE  Append(q, k) \in Seq(S) /\ ToSet(Append(q, k)) = ToSet(q) \cup {k}
<1>1. <<k>> \in Seq(S) /\ Append(q, k) = q \o <<k>> OBVIOUS
<1> QED BY SMTT(60), <1>1, MembersJoined, Members

(* A list of markers that opens and closes no application. *)
Plain(q) ==
  /\ q \in Seq(MarkerSet)
  /\ \A a \in Applications : FrameMarker(a) \notin ToSet(q) /\ ExitMarker(a) \notin ToSet(q)

LEMMA PlainMarkers ==
  /\ Plain(<<>>)
  /\ Plain(<<"BOOT OK", "FRAMEBUFFER OK", "Hello from Ferric-K!">>)
  /\ \A m \in {"HALT", "power off", "Uptime:", "unknown command", "KEYBOARD SEL 0 1",
               "KEYBOARD TEXT ab", "KEYBOARD TEXT ab1"} : Plain(<<m>>)
<1> DEFINE N == {"BOOT OK", "FRAMEBUFFER OK", "Hello from Ferric-K!",
                 "HALT", "power off", "Uptime:", "unknown command", "KEYBOARD SEL 0 1",
                 "KEYBOARD TEXT ab", "KEYBOARD TEXT ab1"}
<1>1. N \subseteq MarkerSet BY DEF MarkerSet
<1>2. \A a \in Applications : FrameMarker(a) \notin N /\ ExitMarker(a) \notin N
  BY DEF Applications, FrameMarker, ExitMarker
<1>3. /\ {"HALT", "power off", "Uptime:", "unknown command", "KEYBOARD SEL 0 1",
          "KEYBOARD TEXT ab", "KEYBOARD TEXT ab1"} \subseteq N
      /\ "BOOT OK" \in N /\ "FRAMEBUFFER OK" \in N /\ "Hello from Ferric-K!" \in N
  OBVIOUS
<1> HIDE DEF N
<1>4. ASSUME NEW m \in N PROVE Plain(<<m>>)
  <2>1. <<m>> \in Seq(MarkerSet) BY <1>1
  <2> QED BY <1>2, <2>1, Members DEF Plain
<1>5. Plain(<<>>)
  <2>1. <<>> \in Seq(MarkerSet) OBVIOUS
  <2> QED BY <2>1, Members DEF Plain
<1>6. ASSUME NEW a \in N, NEW b \in N, NEW c \in N PROVE Plain(<<a, b, c>>)
  <2>1. <<a, b, c>> \in Seq(MarkerSet) BY <1>1
  <2>2. ToSet(<<a, b, c>>) = {a, b, c} BY Members
  <2> QED BY <1>2, <2>1, <2>2 DEF Plain
<1> QED BY <1>3, <1>4, <1>5, <1>6
-----------------------------------------------------------------------------
(* The segments. *)
LEMMA Segments ==
  /\ \A i \in 0..Len(Script) : Segment(i) \in 0..8
  /\ \A i, j \in 0..Len(Script) : i <= j => Segment(i) <= Segment(j)
  /\ Segment(0) = 0 /\ \A i \in 1..6 : Segment(i - 1) = i - 1
<1>1. CASE arch = "x64"
  <2>1. Len(Script) = 13 BY <1>1, ScriptSteps
  <2>2. \A i \in 0..13 :
          Segment(i) = IF i <= 5 THEN i ELSE IF i <= 8 THEN 6
                       ELSE IF i = 9 THEN 7 ELSE 8
    BY <1>1 DEF Segment
  <2> QED BY <2>1, <2>2
<1>2. CASE arch # "x64"
  <2>1. Len(Script) = 11 BY <1>2, ScriptSteps
  <2>2. \A i \in 0..11 :
          Segment(i) = IF i <= 5 THEN i ELSE IF i = 6 THEN 6
                       ELSE IF i = 7 THEN 7 ELSE 8
    BY <1>2 DEF Segment
  <2> QED BY <2>1, <2>2
<1> QED BY <1>1, <1>2

LEMMA TypesOf == \A i \in 1..Len(Script) : Types(Script[i], Segment(i))
<1>0. \A i \in 1..6 : Script[i] = Opening[i] BY ScriptSteps
<1>1. \A i \in 1..6 : Segment(i) = i BY DEF Segment
<1>2. \A i \in 1..6 : Types(Opening[i], i) BY Typing
<1>3. \A i \in 1..6 : Types(Script[i], Segment(i)) BY <1>0, <1>1, <1>2
<1>4. CASE arch = "x64"
  <2>1. /\ Segment(7) = 6 /\ Segment(8) = 6 /\ Segment(9) = 7 /\ Segment(10) = 8
        /\ Segment(11) = 8 /\ Segment(12) = 8 /\ Segment(13) = 8
    BY <1>4 DEF Segment
  <2>2. /\ Types(Script[7], 6) /\ Types(Script[8], 6) /\ Types(Script[9], 7)
        /\ Types(Script[10], 8) /\ Types(Script[11], 8)
        /\ Types(Script[12], 8) /\ Types(Script[13], 8)
    BY <1>4, ScriptSteps, Typing
  <2>3. Len(Script) = 13 BY <1>4, ScriptSteps
  <2> QED BY <1>3, <2>1, <2>2, <2>3
<1>5. CASE arch # "x64"
  <2>1. /\ Segment(7) = 7 /\ Segment(8) = 8 /\ Segment(9) = 8 /\ Segment(10) = 8
        /\ Segment(11) = 8
    BY <1>5 DEF Segment
  <2>2. /\ Types(Script[7], 7) /\ Types(Script[8], 8) /\ Types(Script[9], 8)
        /\ Types(Script[10], 8) /\ Types(Script[11], 8)
    BY <1>5, ScriptSteps, Typing
  <2>3. Len(Script) = 11 BY <1>5, ScriptSteps
  <2> QED BY <1>3, <2>1, <2>2, <2>3
<1> QED BY <1>4, <1>5

(* Only Escape closes, and only its word opens, an application. *)
LEMMA KeysInTheirSegments ==
  /\ \A a \in Applications, n \in Nat :
       /\ a \in KeysOf(n) => n = Opens(a)
       /\ "esc" \in KeysOf(n) /\ n <= 8 /\ n >= Opens(a) => n >= Closes(a)
  /\ \A n : Garbled \in KeysOf(n)
  /\ \A a \in Applications : Opens(a) \in 1..5 /\ Closes(a) > Opens(a) /\ Closes(a) \in 1..7
<1>1. \A n : Garbled \in KeysOf(n) BY DEF KeysOf
<1>2. \A a \in Applications : Opens(a) \in 1..5 /\ Closes(a) > Opens(a) /\ Closes(a) \in 1..7
  BY DEF Applications, Opens, Closes
<1>3. ASSUME NEW a \in Applications, NEW n \in Nat, a \in KeysOf(n)
      PROVE  n = Opens(a)
  BY <1>3 DEF Applications, KeysOf, Opens, Garbled
<1>4. ASSUME NEW a \in Applications, NEW n \in Nat, "esc" \in KeysOf(n), n <= 8,
             n >= Opens(a)
      PROVE  n >= Closes(a)
  <2>1. n \notin {1, 3, 5, 6, 8} BY <1>4 DEF KeysOf, Garbled
  <2>2. n \in {2, 4, 7} BY <1>2, <1>4, <2>1
  <2> QED BY <1>4, <2>2 DEF Applications, Opens, Closes
<1> QED BY <1>1, <1>2, <1>3, <1>4
-----------------------------------------------------------------------------
(* Where the guest is, step by step. *)
LEMMA PlaceLater ==
  ASSUME NEW n \in Nat, NEW m \in Nat, n <= m, NEW r, NEW l, NEW w, Place(n, r, l, w)
  PROVE  Place(m, r, l, w)
BY KeysInTheirSegments DEF Place

LEMMA PlaceTold ==
  ASSUME NEW n, NEW r, NEW l, NEW w, NEW q, Plain(q), Place(n, r, l, w)
  PROVE  Place(n, r, l, w \cup ToSet(q))
BY DEF Place, Plain

LEMMA PlaceCleared ==
  ASSUME NEW n, NEW r, NEW s, NEW l, NEW k, NEW w, Place(n, r, l, w),
         r \notin Applications, s \notin Applications, ToSet(k) \subseteq ToSet(l)
  PROVE  Place(n, s, k, w)
BY DEF Place

LEMMA PlaceTyped ==
  ASSUME NEW n \in Nat, NEW l \in Seq(AllKeys), NEW k \in AllKeys, NEW w,
         k \in KeysOf(n), Place(n, "shell", l, w)
  PROVE  Place(n, "shell", Append(l, k), w)
<1>1. ToSet(Append(l, k)) = ToSet(l) \cup {k} BY MembersAppended
<1>2. "shell" \notin Applications BY DEF Applications
<1> SUFFICES ASSUME NEW a \in Applications
             PROVE  /\ a \in ToSet(Append(l, k)) => n >= Opens(a)
                    /\ FrameMarker(a) \in w => n >= Closes(a)
                    /\ ExitMarker(a) \in w =>
                         n >= Closes(a) /\ a \notin ToSet(Append(l, k))
  BY <1>2 DEF Place
<1>3. /\ a \in ToSet(l) => n >= Opens(a)
      /\ FrameMarker(a) \in w => n >= Closes(a)
      /\ ExitMarker(a) \in w => n >= Closes(a) /\ a \notin ToSet(l)
  BY <1>2 DEF Place
<1>4. /\ a = k => n = Opens(a)
      /\ Opens(a) \in Nat /\ Closes(a) \in Nat /\ Closes(a) > Opens(a)
  BY KeysInTheirSegments
<1>5. ~(n = Opens(a) /\ n >= Closes(a)) BY <1>4
<1>6. n = Opens(a) => n >= Opens(a) BY <1>4
<1> QED BY <1>1, <1>3, <1>4, <1>5, <1>6

LEMMA PlaceOpened ==
  ASSUME NEW n, NEW a \in Applications, NEW l, NEW w, ToSet(l) = {a},
         Place(n, "shell", l, w)
  PROVE  Place(n, a, <<>>, w)
<1>1. ToSet(<<>>) = {} BY Members
<1>2. "shell" \notin Applications BY DEF Applications
<1> QED BY <1>1, <1>2 DEF Place

LEMMA PlaceClosed ==
  ASSUME NEW n \in Nat, n <= 8, "esc" \in KeysOf(n), NEW a \in Applications, NEW l,
         NEW w, Place(n, a, l, w)
  PROVE  Place(n, "shell", l, w \cup {ExitMarker(a)})
<1>1. ToSet(<<>>) = {} BY Members
<1>2. "shell" \notin Applications BY DEF Applications
<1>3. l = <<>> /\ n >= Opens(a) BY DEF Place
<1>4. n >= Closes(a) BY <1>3, KeysInTheirSegments
<1>5. \A b \in Applications : /\ FrameMarker(b) # ExitMarker(a)
                              /\ ExitMarker(b) = ExitMarker(a) => b = a
  BY DEF Applications, FrameMarker, ExitMarker
<1> QED BY <1>1, <1>2, <1>3, <1>4, <1>5 DEF Place

LEMMA PlaceShown ==
  ASSUME NEW n, NEW a \in Applications, NEW l, NEW w, Place(n, a, l, w)
  PROVE  Place(n, a, l, w \cup {FrameMarker(a)})
<1>1. \A b \in Applications : /\ ExitMarker(b) # FrameMarker(a)
                              /\ FrameMarker(b) = FrameMarker(a) => b = a
  BY DEF Applications, FrameMarker, ExitMarker
<1> QED BY <1>1 DEF Place
-----------------------------------------------------------------------------
(* Which application a step is for, and what its marker says. *)
LastTap == IF arch = "x64" THEN 9 ELSE 7

LEMMA Homes ==
  /\ \A i \in {1, 3, 5} : Home(i) = "shell"
  /\ Home(2) = "gui" /\ Home(4) = "monitor"
  /\ \A i \in 6..LastTap : Home(i) = "keyboard"
  /\ \A i \in LastTap + 1..Len(Script) : Home(i) = "shell"
  /\ Script[2].marker = FrameMarker("gui") /\ Script[3].marker = ExitMarker("gui")
  /\ Script[4].marker = FrameMarker("monitor")
  /\ Script[5].marker = ExitMarker("monitor")
  /\ Script[6].marker = FrameMarker("keyboard")
  /\ Script[LastTap + 1].marker = ExitMarker("keyboard")
  /\ \A i \in 1..LastTap : Segment(i - 1) <= 6
  /\ LastTap + 1 \in 1..Len(Script) /\ LastTap \in {7, 9}
<1>0. \A i \in 1..6 : Script[i] = Opening[i] BY ScriptSteps
<1>1. /\ Script[1].marker = "Hello from Ferric-K!" /\ Script[2].marker = "SLINT OK"
      /\ Script[3].marker = "GUI EXIT OK" /\ Script[4].marker = "MONITOR OK"
      /\ Script[5].marker = "MONITOR EXIT OK" /\ Script[6].marker = "KEYBOARD OK"
  <2>1. /\ Script[1] = Opening[1] /\ Script[2] = Opening[2] /\ Script[3] = Opening[3]
        /\ Script[4] = Opening[4] /\ Script[5] = Opening[5] /\ Script[6] = Opening[6]
    BY <1>0
  <2> QED BY ZenonT(60), <2>1, Markers
<1>2. /\ Home(1) = "shell" /\ Home(2) = "gui" /\ Home(3) = "shell"
      /\ Home(4) = "monitor" /\ Home(5) = "shell" /\ Home(6) = "keyboard"
  BY <1>1 DEF Home
<1>3. /\ FrameMarker("gui") = "SLINT OK" /\ FrameMarker("monitor") = "MONITOR OK"
      /\ FrameMarker("keyboard") = "KEYBOARD OK"
      /\ ExitMarker("gui") = "GUI EXIT OK" /\ ExitMarker("monitor") = "MONITOR EXIT OK"
      /\ ExitMarker("keyboard") = "KEYBOARD EXIT OK"
  BY DEF FrameMarker, ExitMarker
<1>4. CASE arch = "x64"
  <2>1. LastTap = 9 /\ Len(Script) = 13 BY <1>4, ScriptSteps DEF LastTap
  <2>2. /\ Script[7].marker = "KEYBOARD TEXT ab" /\ Script[8].marker = "KEYBOARD SEL 0 1"
        /\ Script[9].marker = "KEYBOARD TEXT ab1"
        /\ Script[10].marker = "KEYBOARD EXIT OK" /\ Script[11].marker = "power off"
        /\ Script[12].marker = "unknown command" /\ Script[13].marker = "Uptime:"
    BY ZenonT(60), <1>4, ScriptSteps, Markers
  <2>3. /\ Home(7) = "keyboard" /\ Home(8) = "keyboard" /\ Home(9) = "keyboard"
        /\ Home(10) = "shell" /\ Home(11) = "shell" /\ Home(12) = "shell"
        /\ Home(13) = "shell"
    BY <2>2 DEF Home
  <2>4. \A i \in 1..9 : Segment(i - 1) <= 6 BY <1>4 DEF Segment
  <2>5. \A i \in 6..LastTap : Home(i) = "keyboard"
    <3>1. \A i \in 6..LastTap : i \in {6, 7, 8, 9} BY <2>1
    <3>2. \A i \in {6, 7, 8, 9} : Home(i) = "keyboard" BY <1>2, <2>3
    <3> QED BY <3>1, <3>2
  <2>6. \A i \in LastTap + 1..Len(Script) : Home(i) = "shell"
    <3>1. \A i \in LastTap + 1..Len(Script) : i \in {10, 11, 12, 13} BY <2>1
    <3>2. \A i \in {10, 11, 12, 13} : Home(i) = "shell" BY <2>3
    <3> QED BY <3>1, <3>2
  <2>7. Script[LastTap + 1].marker = ExitMarker("keyboard")
    <3>1. LastTap + 1 = 10 BY <2>1
    <3>2. Script[10].marker = ExitMarker("keyboard") BY <1>3, <2>2
    <3> QED BY <3>1, <3>2
  <2>8. LastTap + 1 \in 1..Len(Script) /\ LastTap \in {7, 9} BY <2>1
  <2> QED BY ZenonT(60), <1>1, <1>2, <1>3, <2>1, <2>4, <2>5, <2>6, <2>7, <2>8
<1>5. CASE arch # "x64"
  <2>1. LastTap = 7 /\ Len(Script) = 11 BY <1>5, ScriptSteps DEF LastTap
  <2>2. /\ Script[7].marker = "KEYBOARD TEXT ab"
        /\ Script[8].marker = "KEYBOARD EXIT OK" /\ Script[9].marker = "power off"
        /\ Script[10].marker = "unknown command" /\ Script[11].marker = "Uptime:"
    BY ZenonT(60), <1>5, ScriptSteps, Markers
  <2>3. /\ Home(7) = "keyboard" /\ Home(8) = "shell" /\ Home(9) = "shell"
        /\ Home(10) = "shell" /\ Home(11) = "shell"
    BY <2>2 DEF Home
  <2>4. \A i \in 1..7 : Segment(i - 1) <= 6 BY <1>5 DEF Segment
  <2>5. \A i \in 6..LastTap : Home(i) = "keyboard"
    <3>1. \A i \in 6..LastTap : i \in {6, 7} BY <2>1
    <3>2. \A i \in {6, 7} : Home(i) = "keyboard" BY <1>2, <2>3
    <3> QED BY <3>1, <3>2
  <2>6. \A i \in LastTap + 1..Len(Script) : Home(i) = "shell"
    <3>1. \A i \in LastTap + 1..Len(Script) : i \in {8, 9, 10, 11} BY <2>1
    <3>2. \A i \in {8, 9, 10, 11} : Home(i) = "shell" BY <2>3
    <3> QED BY <3>1, <3>2
  <2>7. Script[LastTap + 1].marker = ExitMarker("keyboard")
    <3>1. LastTap + 1 = 8 BY <2>1
    <3>2. Script[8].marker = ExitMarker("keyboard") BY <1>3, <2>2
    <3> QED BY <3>1, <3>2
  <2>8. LastTap + 1 \in 1..Len(Script) /\ LastTap \in {7, 9} BY <2>1
  <2> QED BY ZenonT(60), <1>1, <1>2, <1>3, <2>1, <2>4, <2>5, <2>6, <2>7, <2>8
<1> QED BY <1>4, <1>5

(* What the invariant says when a step is about to be typed. *)
LEMMA AtHome == SmokeInv => TypedIntoItsApplication
<1> SUFFICES ASSUME SmokeInv, Polling, Awaited, ~typed, Alive
             PROVE  app = Home(step)
  BY DEF TypedIntoItsApplication
<1> USE DEF SmokeInv
<1>1. Script[step].marker \in ToSet(out)
  <2>1. PICK i \in 1..logged : out[i] = Script[step].marker
    BY DEF Awaited, log_has_marker, Told
  <2>2. i \in 1..Len(out) OBVIOUS
  <2> QED BY SMTT(60), <2>1, <2>2 DEF ToSet
<1>2. \A i \in 1..step : Script[i].marker \in ToSet(out)
  <2>1. \A i \in 1..step : i = step \/ i \in 1..step - 1 OBVIOUS
  <2> QED BY <1>1, <2>1
<1>3. app # "boot"
  <2>1. ToSet(<<>>) = {} BY Members
  <2> QED BY <1>1, <2>1
<1>4. app \in Applications \cup {"shell"} BY <1>3 DEF Alive
<1>5. Sent = Segment(step - 1) BY DEF Sent
<1>6. step - 1 \in 0..Len(Script) /\ Sent \in 0..8
  <2>1. step - 1 \in 0..Len(Script) OBVIOUS
  <2> QED BY <1>5, <2>1, Segments
<1>7. PICK n \in 0..Sent : Place(n, app, line, ToSet(out)) BY DEF Reached
<1>8. /\ \A a \in Applications : app = a => n >= Opens(a)
      /\ \A a \in Applications : FrameMarker(a) \in ToSet(out) => app = a \/ n >= Closes(a)
      /\ \A a \in Applications : ExitMarker(a) \in ToSet(out) => app # a
  BY <1>7 DEF Place
<1>9. /\ Opens("gui") = 1 /\ Opens("monitor") = 3 /\ Opens("keyboard") = 5
      /\ Closes("gui") = 2 /\ Closes("monitor") = 4 /\ Closes("keyboard") = 7
      /\ Applications = {"gui", "monitor", "keyboard"}
  BY DEF Opens, Closes, Applications
<1>10. n \in Nat /\ n <= Segment(step - 1) /\ Segment(step - 1) \in Nat
  BY SMTT(60), <1>5, <1>6
<1> HIDE DEF SmokeInv
<1>11. step \in Nat /\ 1 <= step /\ step <= Len(Script) /\ Len(Script) \in Nat
  BY ScriptSteps DEF SmokeInv
<1>12. CASE step <= 6
  <2>1. step \in 1..6 /\ n <= step - 1 BY <1>10, <1>11, <1>12, Segments
  <2>2. CASE step = 1
    <3>1. app \notin Applications BY <1>8, <1>9, <1>10, <2>1, <2>2
    <3> QED BY <1>4, <2>2, <3>1, Homes
  <2>3. CASE step = 2
    <3>1. FrameMarker("gui") \in ToSet(out) BY <1>2, <1>11, <2>3, Homes
    <3>2. app = "gui" BY <1>8, <1>9, <1>10, <2>1, <2>3, <3>1
    <3> QED BY <2>3, <3>2, Homes
  <2>4. CASE step = 3
    <3>1. ExitMarker("gui") \in ToSet(out) BY <1>2, <1>11, <2>4, Homes
    <3>2. app \notin Applications BY <1>8, <1>9, <1>10, <2>1, <2>4, <3>1
    <3> QED BY <1>4, <2>4, <3>2, Homes
  <2>5. CASE step = 4
    <3>1. FrameMarker("monitor") \in ToSet(out) BY <1>2, <1>11, <2>5, Homes
    <3>2. app = "monitor" BY <1>8, <1>9, <1>10, <2>1, <2>5, <3>1
    <3> QED BY <2>5, <3>2, Homes
  <2>6. CASE step = 5
    <3>1. ExitMarker("gui") \in ToSet(out)
      <4>1. 3 \in 1..step BY <2>6
      <4> QED BY <1>2, <4>1, Homes
    <3>2. ExitMarker("monitor") \in ToSet(out) BY <1>2, <1>11, <2>6, Homes
    <3>3. app \notin Applications BY <1>8, <1>9, <1>10, <2>1, <2>6, <3>1, <3>2
    <3> QED BY <1>4, <2>6, <3>3, Homes
  <2>7. CASE step = 6
    <3>1. FrameMarker("keyboard") \in ToSet(out) BY <1>2, <1>11, <2>7, Homes
    <3>2. app = "keyboard" BY <1>8, <1>9, <1>10, <2>1, <2>7, <3>1
    <3>3. 6 \in 6..LastTap BY Homes
    <3> QED BY <2>7, <3>2, <3>3, Homes
  <2> QED BY <2>1, <2>2, <2>3, <2>4, <2>5, <2>6, <2>7
<1>13. CASE 6 < step /\ step <= LastTap
  <2>0. LastTap \in Nat BY Homes
  <2>1. step \in 1..LastTap /\ step \in 6..LastTap BY <1>11, <1>13, <2>0
  <2>2. n <= 6
    <3>1. Segment(step - 1) <= 6 BY <2>1, Homes
    <3> QED BY <1>10, <3>1
  <2>3. 6 \in 1..step BY <1>11, <1>13
  <2>4. FrameMarker("keyboard") \in ToSet(out) BY <1>2, <2>3, Homes
  <2>5. app = "keyboard" BY <1>8, <1>9, <1>10, <2>2, <2>4
  <2> QED BY <2>1, <2>5, Homes
<1>14. CASE LastTap < step
  <2>0. LastTap \in {7, 9} BY Homes
  <2>1. step \in LastTap + 1..Len(Script) BY <1>11, <1>14, <2>0
  <2>2. 3 \in 1..step /\ 5 \in 1..step /\ LastTap + 1 \in 1..step
    BY <1>11, <1>14, <2>0
  <2>3. /\ ExitMarker("gui") \in ToSet(out) /\ ExitMarker("monitor") \in ToSet(out)
        /\ ExitMarker("keyboard") \in ToSet(out)
    BY SMTT(60), <1>2, <2>2, Homes
  <2>4. app \notin Applications BY <1>8, <1>9, <2>3
  <2> QED BY <1>4, <2>1, <2>4, Homes
<1>15. LastTap \in Nat BY Homes
<1> QED BY <1>11, <1>12, <1>13, <1>14, <1>15
-----------------------------------------------------------------------------
(* A step of the guest: the driver is as it was. *)
GuestProgress ==
  /\ keys' \in Seq(AllKeys) /\ line' \in Seq(AllKeys)
  /\ app' \in Applications \cup {"shell", "off"}
  /\ app' # "off" =>
       \E m \in 0..Sent :
         InOrder(keys', m, Sent) /\ Place(m, app', line', ToSet(out'))

Logging ==
  /\ out' \in Seq(MarkerSet) /\ logged' \in 0..Len(out')
  /\ ToSet(out) \subseteq ToSet(out')

LEMMA SentInRange == SmokeInv => Sent \in 0..8
<1> SUFFICES ASSUME SmokeInv PROVE Sent \in 0..8
  OBVIOUS
<1>1. step \in 1..Len(Script) BY DEF SmokeInv
<1>2. step \in 0..Len(Script) /\ step - 1 \in 0..Len(Script) BY <1>1
<1> QED BY <1>2, Segments DEF Sent

LEMMA GuestStep ==
  ASSUME SmokeInv, UNCHANGED <<arch, driver>>, GuestProgress, Logging
  PROVE  SmokeInv'
<1>0. /\ arch' = arch /\ step' = step /\ typed' = typed /\ sending' = sending
  BY DEF driver
<1>1. Script' = Script BY <1>0 DEF Script
<1>2. Sent' = Sent BY <1>0 DEF Sent, Segment
<1>3. /\ keys' \in Seq(AllKeys) /\ sending' \in Seq(AllKeys) /\ line' \in Seq(AllKeys)
      /\ out' \in Seq(MarkerSet)
      /\ step' \in 1..Len(Script') /\ typed' \in BOOLEAN
      /\ app' \in Applications \cup {"boot", "shell", "off"}
      /\ logged' \in 0..Len(out')
  BY <1>0, <1>1 DEF SmokeInv, GuestProgress, Logging
<1>4. app' # "boot" BY DEF GuestProgress, Applications
<1>5. \A i \in 1..step' - 1 : Script'[i].marker \in ToSet(out')
  BY <1>0, <1>1 DEF SmokeInv, Logging
<1>6. /\ sending' # <<>> => typed'
      /\ \A i \in 1..Len(sending') : sending'[i] \in KeysOf(Sent')
  BY <1>0, <1>2 DEF SmokeInv
<1>7. Alive' => \E n \in 0..Sent' : Reached(n)'
  BY <1>2 DEF Alive, GuestProgress, Reached
<1> QED BY <1>3, <1>4, <1>5, <1>6, <1>7 DEF SmokeInv

LEMMA Emitted ==
  ASSUME SmokeInv, NEW q \in Seq(MarkerSet), Emit(q)
  PROVE  Logging /\ ToSet(out') = ToSet(out) \cup ToSet(q)
<1>1. out \in Seq(MarkerSet) /\ logged \in 0..Len(out) BY DEF SmokeInv
<1>2. /\ out' \in Seq(MarkerSet) /\ Len(out') >= Len(out)
      /\ ToSet(out') = ToSet(out) \cup ToSet(q)
  BY <1>1, MembersJoined DEF Emit
<1>3. Len(out) \in Nat /\ Len(out') \in Nat BY <1>1, <1>2
<1>4. logged' \in 0..Len(out') BY <1>1, <1>2, <1>3 DEF Emit
<1> QED BY <1>2, <1>4 DEF Logging

LEMMA Unheard == SmokeInv /\ Silent => Logging
BY DEF SmokeInv, Silent, Logging

(* The next key, and where it leaves the guest before it does anything. *)
LEMMA KeyTaken ==
  ASSUME SmokeInv, Arrives, Alive
  PROVE  /\ Key \in AllKeys /\ keys' \in Seq(AllKeys)
         /\ \E m \in 0..Sent : /\ Key \in KeysOf(m) /\ InOrder(keys', m, Sent)
                               /\ Place(m, app, line, ToSet(out))
<1>1. keys \in Seq(AllKeys) /\ keys # <<>> /\ keys' = Tail(keys)
  BY DEF SmokeInv, Arrives
<1>2. Head(keys) \in AllKeys /\ Tail(keys) \in Seq(AllKeys)
  BY <1>1, HeadTailProperties
<1>3. Sent \in 0..8 BY SentInRange
<1>4. PICK n \in 0..Sent : InOrder(keys, n, Sent) /\ Place(n, app, line, ToSet(out))
  BY DEF SmokeInv, Reached
<1>5. n \in Nat /\ Sent \in Nat BY <1>3
<1>6. PICK m \in n..Sent : Head(keys) \in KeysOf(m) /\ InOrder(Tail(keys), m, Sent)
  BY <1>1, <1>4, <1>5, TakeOne
<1>7. m \in Nat /\ n <= m /\ m \in 0..Sent BY <1>3, <1>5
<1>8. Place(m, app, line, ToSet(out)) BY <1>4, <1>5, <1>7, PlaceLater
<1> QED BY <1>1, <1>2, <1>6, <1>7, <1>8 DEF Key

LEMMA NoKeyTaken ==
  ASSUME SmokeInv, Alive, keys' = keys
  PROVE  /\ keys' \in Seq(AllKeys)
         /\ \E m \in 0..Sent : InOrder(keys', m, Sent) /\ Place(m, app, line, ToSet(out))
BY DEF SmokeInv, Reached

(* What a line does: it opens an application, or has an answer. *)
LEMMA LineCommands ==
  ASSUME RunCommand
  PROVE  /\ line' = <<>>
         /\ \/ \E a \in Applications : line = <<a>> /\ app' = a /\ Silent
            \/ \E q : Plain(q) /\ Emit(q) /\ app' \in {app, "off"}
<1>1. CASE line = <<>> /\ Reply(<<>>) BY <1>1, PlainMarkers DEF RunCommand, Reply
<1>2. CASE /\ line \in {<<a>> : a \in Applications}
           /\ Open(line[1]) /\ Silent /\ UNCHANGED code
  <2>1. PICK a \in Applications : line = <<a>> BY <1>2
  <2>2. line[1] = a BY <2>1
  <2> QED BY <1>2, <2>1, <2>2 DEF RunCommand, Open
<1>3. CASE Reply(<<"power off">>) BY <1>3, PlainMarkers DEF RunCommand, Reply
<1>4. CASE Reply(<<"Uptime:">>) BY <1>4, PlainMarkers DEF RunCommand, Reply
<1>5. CASE /\ Emit(<<"HALT">>)
           /\ app' = "off" /\ code' = "halt"
           /\ UNCHANGED <<framed, field, shown, sel, tap>>
  BY <1>5, PlainMarkers DEF RunCommand
<1>6. CASE Reply(<<"unknown command">>) BY <1>6, PlainMarkers DEF RunCommand, Reply
<1> QED BY <1>1, <1>2, <1>3, <1>4, <1>5, <1>6 DEF RunCommand
-----------------------------------------------------------------------------
(* The steps of the guest. *)
LEMMA NotOff == \A a \in Applications \cup {"boot", "shell"} : a # "off"
BY DEF Applications

LEMMA GuestBootStep == SmokeInv /\ GuestBoots => SmokeInv'
<1> SUFFICES ASSUME SmokeInv, GuestBoots PROVE SmokeInv'
  OBVIOUS
<1> DEFINE banner == <<"BOOT OK", "FRAMEBUFFER OK", "Hello from Ferric-K!">>
<1>1. Plain(banner) BY PlainMarkers
<1>2. banner \in Seq(MarkerSet) BY <1>1 DEF Plain
<1>3. Emit(banner) BY DEF GuestBoots
<1> HIDE DEF banner
<1>4. Logging /\ ToSet(out') = ToSet(out) \cup ToSet(banner) BY <1>2, <1>3, Emitted
<1>5. /\ app = "boot" /\ app' = "shell" /\ keys' = keys /\ line' = line
      /\ UNCHANGED <<arch, driver>>
  BY DEF GuestBoots
<1>6. Alive BY <1>5 DEF Alive
<1>7. PICK m \in 0..Sent : InOrder(keys', m, Sent) /\ Place(m, app, line, ToSet(out))
  BY <1>5, <1>6, NoKeyTaken
<1>8. Place(m, "boot", line, ToSet(out')) BY <1>1, <1>4, <1>5, <1>7, PlaceTold
<1>9. "boot" \notin Applications /\ "shell" \notin Applications BY DEF Applications
<1>10. Place(m, "shell", line, ToSet(out')) BY <1>8, <1>9, PlaceCleared
<1>11. GuestProgress
  BY <1>5, <1>7, <1>10 DEF SmokeInv, GuestProgress
<1> QED BY <1>4, <1>5, <1>11, GuestStep

LEMMA FaultStep == SmokeInv /\ GuestFaults => SmokeInv'
<1> SUFFICES ASSUME SmokeInv, GuestFaults PROVE SmokeInv'
  OBVIOUS
<1>1. Logging BY Unheard DEF GuestFaults, Silent
<1>2. GuestProgress BY DEF SmokeInv, GuestFaults, GuestProgress
<1> QED BY <1>1, <1>2, GuestStep DEF GuestFaults

LEMMA ShellStep == SmokeInv /\ ShellKey => SmokeInv'
<1> SUFFICES ASSUME SmokeInv, ShellKey PROVE SmokeInv'
  OBVIOUS
<1>1. app = "shell" /\ Alive /\ "shell" \notin Applications /\ UNCHANGED <<arch, driver>>
  BY DEF ShellKey, Alive, Applications
<1>2. PICK m \in 0..Sent : /\ Key \in KeysOf(m) /\ InOrder(keys', m, Sent)
                           /\ Place(m, "shell", line, ToSet(out))
  BY <1>1, KeyTaken DEF ShellKey
<1>3. /\ Key \in AllKeys /\ keys' \in Seq(AllKeys) /\ line \in Seq(AllKeys)
      /\ <<>> \in Seq(AllKeys)
  BY <1>1, KeyTaken DEF ShellKey, SmokeInv
<1>4. Sent \in 0..8 /\ m \in Nat
  <2>1. Sent \in 0..8 BY SentInRange
  <2> QED BY <2>1
<1>5. SUFFICES GuestProgress /\ Logging
  BY <1>1, GuestStep
<1>6. CASE RunCommand
  <2>1. line' = <<>> /\ line' \in Seq(AllKeys) BY <1>3, <1>6, LineCommands
  <2>2. ASSUME NEW a \in Applications, line = <<a>>, app' = a, Silent
        PROVE  GuestProgress /\ Logging
    <3>1. ToSet(line) = {a} BY <2>2, Members
    <3>2. Place(m, a, <<>>, ToSet(out)) BY <1>2, <3>1, PlaceOpened
    <3>3. out' = out BY <2>2 DEF Silent
    <3>4. Place(m, app', line', ToSet(out')) BY <2>1, <2>2, <3>2, <3>3
    <3> QED BY <1>2, <1>3, <2>1, <2>2, <3>4, Unheard DEF GuestProgress
  <2>3. ASSUME NEW q, Plain(q), Emit(q), app' \in {app, "off"}
        PROVE  GuestProgress /\ Logging
    <3>1. Logging /\ ToSet(out') = ToSet(out) \cup ToSet(q)
      BY <2>3, Emitted DEF Plain
    <3>2. Place(m, "shell", line, ToSet(out')) BY <1>2, <2>3, <3>1, PlaceTold
    <3>3. ToSet(<<>>) \subseteq ToSet(line) BY Members
    <3>4. Place(m, "shell", <<>>, ToSet(out')) BY <1>1, <3>2, <3>3, PlaceCleared
    <3>5. app' # "off" => Place(m, app', line', ToSet(out')) BY <1>1, <2>1, <2>3, <3>4
    <3>6. app' \in Applications \cup {"shell", "off"} BY <1>1, <2>3
    <3> QED BY <1>2, <1>3, <2>1, <3>1, <3>5, <3>6 DEF GuestProgress
  <2> QED BY <1>6, <2>2, <2>3, LineCommands
<1>7. CASE /\ line' = Append(line, Key)
           /\ Silent /\ UNCHANGED <<app, field, shown, sel, tap, framed, code>>
  <2>1. Place(m, "shell", Append(line, Key), ToSet(out)) BY <1>2, <1>3, <1>4, PlaceTyped
  <2>2. out' = out /\ app' = "shell" /\ line' \in Seq(AllKeys)
    BY <1>1, <1>3, <1>7, MembersAppended DEF Silent
  <2>3. Place(m, app', line', ToSet(out')) BY <1>7, <2>1, <2>2
  <2> QED BY <1>2, <1>3, <1>7, <2>2, <2>3, Unheard DEF GuestProgress
<1>8. CASE Silent /\ UNCHANGED <<guest, code>>
  <2>1. out' = out /\ app' = "shell" /\ line' = line BY <1>1, <1>8 DEF Silent, guest
  <2>2. Place(m, app', line', ToSet(out')) BY <1>2, <2>1
  <2> QED BY <1>2, <1>3, <1>8, <2>1, <2>2, Unheard DEF GuestProgress
<1> QED BY <1>6, <1>7, <1>8 DEF ShellKey

LEMMA EscapeStep == SmokeInv /\ ApplicationEscape => SmokeInv'
<1> SUFFICES ASSUME SmokeInv, ApplicationEscape PROVE SmokeInv'
  OBVIOUS
<1>1. /\ app \in Applications /\ app' = "shell" /\ line' = line /\ Key = "esc"
      /\ UNCHANGED <<arch, driver>>
  BY DEF ApplicationEscape
<1>2. Alive BY <1>1, NotOff DEF Alive
<1>3. PICK m \in 0..Sent : /\ "esc" \in KeysOf(m) /\ InOrder(keys', m, Sent)
                           /\ Place(m, app, line, ToSet(out))
  BY <1>1, <1>2, KeyTaken DEF ApplicationEscape
<1>4. keys' \in Seq(AllKeys) BY <1>2, KeyTaken DEF ApplicationEscape
<1>5. m \in Nat /\ m <= 8
  <2>1. Sent \in 0..8 BY SentInRange
  <2> QED BY <2>1
<1>6. <<ExitMarker(app)>> \in Seq(MarkerSet)
  <2>1. ExitMarker(app) \in MarkerSet BY <1>1 DEF Applications, ExitMarker, MarkerSet
  <2> QED BY <2>1
<1>7. Logging /\ ToSet(out') = ToSet(out) \cup {ExitMarker(app)}
  BY <1>6, Emitted, Members DEF ApplicationEscape
<1>8. Place(m, "shell", line, ToSet(out')) BY <1>1, <1>3, <1>5, <1>7, PlaceClosed
<1>9. GuestProgress BY <1>1, <1>3, <1>4, <1>8 DEF SmokeInv, GuestProgress
<1> QED BY <1>1, <1>7, <1>9, GuestStep

LEMMA IgnoredStep == SmokeInv /\ ApplicationKey => SmokeInv'
<1> SUFFICES ASSUME SmokeInv, ApplicationKey PROVE SmokeInv'
  OBVIOUS
<1>1. /\ app \in Applications /\ app' = app /\ line' = line /\ Silent
      /\ UNCHANGED <<arch, driver>>
  BY DEF ApplicationKey, Applications, guest, Silent
<1>2. Alive BY <1>1, NotOff DEF Alive
<1>3. /\ keys' \in Seq(AllKeys)
      /\ \E m \in 0..Sent : InOrder(keys', m, Sent) /\ Place(m, app, line, ToSet(out))
  BY <1>2, KeyTaken DEF ApplicationKey
<1>4. GuestProgress BY <1>1, <1>3 DEF SmokeInv, GuestProgress, Silent
<1> QED BY <1>1, <1>4, GuestStep, Unheard

LEMMA KeyboardStep == SmokeInv /\ KeyboardKey => SmokeInv'
<1> SUFFICES ASSUME SmokeInv, KeyboardKey PROVE SmokeInv'
  OBVIOUS
<1>1. /\ app \in Applications /\ app' = app /\ line' = line /\ UNCHANGED <<arch, driver>>
  BY DEF KeyboardKey, Applications
<1>2. Alive BY <1>1, NotOff DEF Alive
<1>3. keys' \in Seq(AllKeys) BY <1>2, KeyTaken DEF KeyboardKey
<1>4. PICK m \in 0..Sent : InOrder(keys', m, Sent) /\ Place(m, app, line, ToSet(out))
  BY <1>2, KeyTaken DEF KeyboardKey
<1>5. CASE Silent
  <2>1. GuestProgress BY <1>1, <1>3, <1>4, <1>5 DEF SmokeInv, GuestProgress, Silent
  <2> QED BY <1>1, <1>5, <2>1, GuestStep, Unheard
<1>6. CASE Emit(IF sel' = 1 THEN <<"KEYBOARD SEL 0 1">> ELSE <<>>)
  <2>1. PICK q : Plain(q) /\ Emit(q) BY <1>6, PlainMarkers
  <2>2. Logging /\ ToSet(out') = ToSet(out) \cup ToSet(q) BY <2>1, Emitted DEF Plain
  <2>3. Place(m, app, line, ToSet(out')) BY <1>4, <2>1, <2>2, PlaceTold
  <2>4. GuestProgress BY <1>1, <1>3, <1>4, <2>3 DEF SmokeInv, GuestProgress
  <2> QED BY <1>1, <2>2, <2>4, GuestStep
<1> QED BY <1>5, <1>6 DEF KeyboardKey

LEMMA PassStep == SmokeInv /\ ApplicationPass => SmokeInv'
<1> SUFFICES ASSUME SmokeInv, ApplicationPass PROVE SmokeInv'
  OBVIOUS
<1>1. /\ app \in Applications /\ app' = app /\ line' = line /\ keys' = keys
      /\ UNCHANGED <<arch, driver>>
  BY DEF ApplicationPass
<1>2. Alive BY <1>1, NotOff DEF Alive
<1>3. keys' \in Seq(AllKeys) BY <1>1, <1>2, NoKeyTaken
<1>4. PICK m \in 0..Sent : InOrder(keys', m, Sent) /\ Place(m, app, line, ToSet(out))
  BY <1>1, <1>2, NoKeyTaken
<1> DEFINE q == IF field' # shown THEN TextMarkers(field') ELSE <<>>
<1>5. Plain(q) BY PlainMarkers DEF TextMarkers
<1>6. FirstFrame = <<>> \/ FirstFrame = <<FrameMarker(app)>> BY DEF FirstFrame
<1>7. /\ FirstFrame \in Seq(MarkerSet)
      /\ ToSet(FirstFrame) = {} \/ ToSet(FirstFrame) = {FrameMarker(app)}
  <2>1. FrameMarker(app) \in MarkerSet BY <1>1 DEF Applications, FrameMarker, MarkerSet
  <2>2. CASE FirstFrame = <<>>
    <3>1. <<>> \in Seq(MarkerSet) OBVIOUS
    <3> QED BY <2>2, <3>1, Members
  <2>3. CASE FirstFrame = <<FrameMarker(app)>>
    <3>1. <<FrameMarker(app)>> \in Seq(MarkerSet) BY <2>1
    <3> QED BY <2>3, <3>1, Members
  <2> QED BY <1>6, <2>2, <2>3
<1>8. Emit(q \o FirstFrame) BY DEF ApplicationPass
<1> HIDE DEF q
<1>9. q \in Seq(MarkerSet) BY <1>5 DEF Plain
<1>10. /\ q \o FirstFrame \in Seq(MarkerSet)
       /\ ToSet(q \o FirstFrame) = ToSet(q) \cup ToSet(FirstFrame)
  BY <1>7, <1>9, MembersJoined
<1>11. Logging /\ ToSet(out') = (ToSet(out) \cup ToSet(q)) \cup ToSet(FirstFrame)
  BY <1>8, <1>10, Emitted
<1>12. Place(m, app, line, ToSet(out) \cup ToSet(q)) BY <1>4, <1>5, PlaceTold
<1>13. Place(m, app, line, ToSet(out'))
  <2>1. CASE ToSet(FirstFrame) = {} BY <1>11, <1>12, <2>1
  <2>2. CASE ToSet(FirstFrame) = {FrameMarker(app)}
    BY <1>1, <1>11, <1>12, <2>2, PlaceShown
  <2> QED BY <1>7, <2>1, <2>2
<1>14. GuestProgress BY <1>1, <1>3, <1>4, <1>13 DEF SmokeInv, GuestProgress
<1> QED BY <1>1, <1>11, <1>14, GuestStep
-----------------------------------------------------------------------------
(* The steps of the driver, and of the reader of its log: what the guest   *)
(* has put on the wire stays.                                              *)
DriverProgress ==
  /\ keys' \in Seq(AllKeys) /\ sending' \in Seq(AllKeys)
  /\ step' \in 1..Len(Script) /\ typed' \in BOOLEAN /\ logged' \in 0..Len(out)
  /\ app' \in {app, "off"}
  /\ \A i \in 1..step' - 1 : Script[i].marker \in ToSet(out)
  /\ sending' # <<>> => typed'
  /\ \A i \in 1..Len(sending') : sending'[i] \in KeysOf(Sent')
  /\ Sent' \in 0..8 /\ Sent <= Sent'
  /\ app' # "off" => \A n \in 0..Sent : InOrder(keys, n, Sent) => InOrder(keys', n, Sent')

LEMMA DriverStep ==
  ASSUME SmokeInv, UNCHANGED <<arch, line, out>>, DriverProgress
  PROVE  SmokeInv'
<1>1. Script' = Script BY DEF Script
<1>2. /\ keys' \in Seq(AllKeys) /\ sending' \in Seq(AllKeys) /\ line' \in Seq(AllKeys)
      /\ out' \in Seq(MarkerSet)
      /\ step' \in 1..Len(Script') /\ typed' \in BOOLEAN
      /\ app' \in Applications \cup {"boot", "shell", "off"}
      /\ logged' \in 0..Len(out')
      /\ app' = "boot" => out' = <<>>
      /\ sending' # <<>> => typed'
      /\ \A i \in 1..Len(sending') : sending'[i] \in KeysOf(Sent')
  BY <1>1 DEF SmokeInv, DriverProgress
<1>3. \A i \in 1..step' - 1 : Script'[i].marker \in ToSet(out')
  BY <1>1 DEF DriverProgress
<1>4. ASSUME Alive' PROVE \E n \in 0..Sent' : Reached(n)'
  <2>1. app' = app /\ app' # "off" BY <1>4 DEF Alive, DriverProgress
  <2>2. PICK n \in 0..Sent : InOrder(keys, n, Sent) /\ Place(n, app, line, ToSet(out))
    BY <2>1 DEF SmokeInv, Alive, Reached
  <2>3. InOrder(keys', n, Sent') BY <2>1, <2>2 DEF DriverProgress
  <2>4. n \in 0..Sent'
    <3>1. Sent \in 0..8 BY SentInRange
    <3> QED BY <3>1 DEF DriverProgress
  <2>5. Place(n, app', line', ToSet(out')) BY <2>1, <2>2
  <2> QED BY <2>3, <2>4, <2>5 DEF Reached
<1> QED BY <1>2, <1>3, <1>4 DEF SmokeInv

(* Most steps send nothing and learn nothing. *)
LEMMA StillDriver ==
  ASSUME SmokeInv, UNCHANGED <<arch, step, typed, sending, keys, line, out>>,
         app' \in {app, "off"}, logged' \in 0..Len(out)
  PROVE  SmokeInv'
<1>1. Sent' = Sent BY DEF Sent, Segment
<1>2. Sent \in 0..8 /\ Sent <= Sent
  <2>1. Sent \in 0..8 BY SentInRange
  <2> QED BY <2>1
<1>3. \A n \in 0..Sent : InOrder(keys, n, Sent) => InOrder(keys', n, Sent') BY <1>1
<1>4. DriverProgress BY <1>1, <1>2, <1>3 DEF SmokeInv, DriverProgress
<1> QED BY <1>4, DriverStep

LEMMA TypeStep == SmokeInv /\ TypeCommand => SmokeInv'
<1> SUFFICES ASSUME SmokeInv, TypeCommand PROVE SmokeInv'
  OBVIOUS
<1>1. /\ sending' = Script[step].type /\ typed' = TRUE /\ ~typed
      /\ UNCHANGED <<arch, step, keys, guest, out, logged>>
  BY DEF TypeCommand
<1>2. step \in 1..Len(Script) /\ step \in 0..Len(Script) /\ step - 1 \in 0..Len(Script)
      /\ step - 1 <= step
  <2>1. step \in 1..Len(Script) BY DEF SmokeInv
  <2> QED BY <2>1
<1>3. Sent = Segment(step - 1) /\ Sent' = Segment(step)
  BY <1>1 DEF Sent, Segment
<1>4. Sent \in 0..8 /\ Sent' \in 0..8 /\ Sent <= Sent' BY <1>2, <1>3, Segments
<1>5. Types(Script[step], Sent') BY <1>2, <1>3, TypesOf
<1>6. /\ sending' \in Seq(AllKeys)
      /\ \A i \in 1..Len(sending') : sending'[i] \in KeysOf(Sent')
  BY <1>1, <1>5 DEF Types
<1>7. \A n \in 0..Sent : InOrder(keys, n, Sent) => InOrder(keys, n, Sent')
  BY <1>4, Wider
<1>8. DriverProgress BY <1>1, <1>2, <1>4, <1>6, <1>7 DEF SmokeInv, DriverProgress, guest
<1> QED BY <1>1, <1>8, DriverStep DEF guest

LEMMA RetypeStep == SmokeInv /\ Retype => SmokeInv'
<1> SUFFICES ASSUME SmokeInv, Retype PROVE SmokeInv'
  OBVIOUS
<1>1. /\ sending' = Script[step].type /\ typed /\ typed' = typed
      /\ UNCHANGED <<arch, step, keys, guest, out, logged>>
  BY DEF Retype
<1>2. step \in 1..Len(Script) BY DEF SmokeInv
<1>3. Sent = Segment(step) /\ Sent' = Sent BY <1>1 DEF Sent, Segment
<1>4. Sent \in 0..8 /\ Sent <= Sent
  <2>1. Sent \in 0..8 BY SentInRange
  <2> QED BY <2>1
<1>5. Types(Script[step], Sent') BY <1>2, <1>3, TypesOf
<1>6. /\ sending' \in Seq(AllKeys)
      /\ \A i \in 1..Len(sending') : sending'[i] \in KeysOf(Sent')
  BY <1>1, <1>5 DEF Types
<1>7. DriverProgress BY <1>1, <1>3, <1>4, <1>6 DEF SmokeInv, DriverProgress, guest
<1> QED BY <1>1, <1>7, DriverStep DEF guest

LEMMA AdvanceStep == SmokeInv /\ Advance => SmokeInv'
<1> SUFFICES ASSUME SmokeInv, Advance PROVE SmokeInv'
  OBVIOUS
<1>1. /\ step' = step + 1 /\ typed /\ typed' = FALSE /\ sending = <<>> /\ sending' = <<>>
      /\ step < Len(Script) /\ Awaited
      /\ UNCHANGED <<arch, keys, guest, out, logged>>
  BY DEF Advance, Answered, Polling
<1>2. step \in 1..Len(Script) /\ step + 1 \in 1..Len(Script) /\ (step + 1) - 1 = step
  <2>1. step \in 1..Len(Script) BY DEF SmokeInv
  <2> QED BY <1>1, <2>1
<1>3. Sent = Segment(step) BY <1>1 DEF Sent
<1>4. Sent' = Segment(step)
  <2>1. Sent' = Segment(step - 1)' BY <1>1 DEF Sent, Segment
  <2>2. step' - 1 = step BY <1>1, <1>2
  <2> QED BY <1>1, <2>1, <2>2 DEF Segment
<1>5. Sent \in 0..8 /\ Sent <= Sent /\ Sent' = Sent
  <2>1. Sent \in 0..8 BY SentInRange
  <2> QED BY <1>3, <1>4, <2>1
<1>6. Script[step].marker \in ToSet(out)
  <2>1. PICK i \in 1..logged : out[i] = Script[step].marker
    BY <1>1 DEF Awaited, log_has_marker, Told
  <2>2. i \in 1..Len(out) BY DEF SmokeInv
  <2> QED BY <2>1, <2>2 DEF ToSet
<1>7. \A i \in 1..step' - 1 : Script[i].marker \in ToSet(out)
  <2>1. \A i \in 1..step' - 1 : i = step \/ i \in 1..step - 1 BY <1>1, <1>2
  <2> QED BY <1>6, <2>1 DEF SmokeInv
<1>8. \A n \in 0..Sent : InOrder(keys, n, Sent) => InOrder(keys', n, Sent') BY <1>1, <1>5
<1>9. /\ sending' \in Seq(AllKeys)
      /\ \A i \in 1..Len(sending') : sending'[i] \in KeysOf(Sent')
  BY <1>1
<1>10. DriverProgress
  BY <1>1, <1>2, <1>5, <1>7, <1>8, <1>9 DEF SmokeInv, DriverProgress, guest
<1> QED BY <1>1, <1>10, DriverStep DEF guest

LEMMA SendStep == SmokeInv /\ SendKey => SmokeInv'
<1> SUFFICES ASSUME SmokeInv, SendKey PROVE SmokeInv'
  OBVIOUS
<1>1. /\ sending # <<>> /\ sending' = Tail(sending)
      /\ UNCHANGED <<arch, step, typed, guest, out, logged>>
  BY DEF SendKey
<1>2. keys \in Seq(AllKeys) /\ sending \in Seq(AllKeys) /\ typed
  BY <1>1 DEF SmokeInv
<1>3. /\ Len(sending) \in Nat /\ Len(sending) >= 1 /\ Head(sending) = sending[1]
      /\ Head(sending) \in AllKeys
      /\ Tail(sending) \in Seq(AllKeys) /\ Len(Tail(sending)) = Len(sending) - 1
      /\ \A i \in 1..Len(Tail(sending)) : Tail(sending)[i] = sending[i + 1]
  BY <1>1, <1>2, HeadTailProperties
<1>4. Sent' = Sent BY <1>1 DEF Sent, Segment
<1>5. Sent \in 0..8 /\ Sent <= Sent
  <2>1. Sent \in 0..8 BY SentInRange
  <2> QED BY <2>1
<1>6. Head(sending) \in KeysOf(Sent)
  <2>1. 1 \in 1..Len(sending) BY <1>3
  <2> QED BY <1>3, <2>1 DEF SmokeInv
<1>7. \A i \in 1..Len(sending') : sending'[i] \in KeysOf(Sent')
  <2>1. \A i \in 1..Len(Tail(sending)) : i + 1 \in 1..Len(sending) BY <1>3
  <2> QED BY <1>1, <1>3, <1>4, <2>1 DEF SmokeInv
<1>8. \E k \in AllKeys : /\ k \in KeysOf(Sent)
                         /\ keys' = keys \/ keys' = Append(keys, k)
  <2>1. CASE keys' = Append(keys, Head(sending)) BY <1>3, <1>6, <2>1
  <2>2. CASE keys' = keys \o Lost(Head(sending))
    <3>1. Garbled \in AllKeys /\ Garbled \in KeysOf(Sent)
      BY KeysInTheirSegments DEF AllKeys
    <3>2. CASE Lost(Head(sending)) = <<Garbled>>
      <4>1. keys \o <<Garbled>> = Append(keys, Garbled) BY <1>2, <3>1
      <4> QED BY <2>2, <3>1, <3>2, <4>1
    <3>3. CASE Lost(Head(sending)) = <<>>
      <4>1. keys' = keys BY <1>2, <2>2, <3>3
      <4> QED BY <3>1, <4>1
    <3> QED BY <3>2, <3>3 DEF Lost
  <2> QED BY <2>1, <2>2 DEF SendKey
<1>9. PICK k \in AllKeys : /\ k \in KeysOf(Sent)
                           /\ keys' = keys \/ keys' = Append(keys, k)
  BY <1>8
<1>10. keys' \in Seq(AllKeys) BY <1>2, <1>9
<1>11. ASSUME NEW n \in 0..Sent, InOrder(keys, n, Sent)
       PROVE  InOrder(keys', n, Sent')
  <2>1. n \in Nat /\ Sent \in Nat /\ n <= Sent BY <1>5
  <2>2. InOrder(Append(keys, k), n, Sent) BY <1>2, <1>9, <1>11, <2>1, PutOne
  <2> QED BY <1>4, <1>9, <1>11, <2>2
<1>12. DriverProgress
  BY <1>1, <1>2, <1>3, <1>4, <1>5, <1>7, <1>10, <1>11 DEF SmokeInv, DriverProgress, guest
<1> QED BY <1>1, <1>12, DriverStep DEF guest

LEMMA QuietStep ==
  ASSUME SmokeInv,
         \/ ReaderCopies \/ Connect \/ SendFails \/ NoticeExit \/ Deadline
         \/ UNCHANGED smokeVars
  PROVE  SmokeInv'
<1>1. logged \in 0..Len(out) /\ Len(out) \in Nat BY DEF SmokeInv
<1>2. CASE ReaderCopies
  <2>1. logged' \in 0..Len(out) BY <1>1, <1>2 DEF ReaderCopies
  <2> QED BY <1>2, <2>1, StillDriver DEF ReaderCopies, guest, driver
<1>3. CASE Connect BY <1>1, <1>3, StillDriver DEF Connect, guest
<1>4. CASE SendFails BY <1>1, <1>4, StillDriver DEF SendFails, guest
<1>5. CASE NoticeExit BY <1>1, <1>5, StillDriver DEF NoticeExit, guest
<1>6. CASE Deadline BY <1>1, <1>6, StillDriver DEF Deadline, TimedOut
<1>7. CASE UNCHANGED smokeVars
  BY <1>1, <1>7, StillDriver DEF smokeVars, guest, driver
<1> QED BY <1>2, <1>3, <1>4, <1>5, <1>6, <1>7

LEMMA SmokeStart == SmokeInit => SmokeInv
<1> SUFFICES ASSUME SmokeInit PROVE SmokeInv
  OBVIOUS
<1>1. /\ keys = <<>> /\ sending = <<>> /\ line = <<>> /\ out = <<>> /\ step = 1
      /\ typed = FALSE /\ app = "boot" /\ logged = 0
  BY DEF SmokeInit
<1>2. /\ <<>> \in Seq(AllKeys) /\ <<>> \in Seq(MarkerSet) /\ Len(<<>>) = 0
  OBVIOUS
<1>3. step \in 1..Len(Script)
  <2>1. Len(Script) \in {11, 13} BY ScriptSteps
  <2> QED BY <1>1, <2>1
<1>4. Sent = 0
  <2>1. Sent = Segment(1 - 1) BY <1>1 DEF Sent
  <2> QED BY <2>1, Segments
<1>5. InOrder(<<>>, 0, 0)
  <2> DEFINE none == [i \in 1..0 |-> 0]
  <2>1. none \in [1..0 -> 0..0] /\ \A i \in 1..0 : FALSE OBVIOUS
  <2> HIDE DEF none
  <2> QED BY <1>2, <2>1 DEF InOrder
<1>6. Place(0, "boot", <<>>, ToSet(<<>>)) BY Members DEF Place, Applications
<1>7. Reached(0) BY <1>1, <1>4, <1>5, <1>6 DEF Reached
<1>8. \E n \in 0..Sent : Reached(n)
  <2>1. 0 \in 0..Sent BY <1>4
  <2> QED BY <1>7, <2>1
<1>9. /\ \A i \in 1..step - 1 : Script[i].marker \in ToSet(out)
      /\ \A i \in 1..Len(sending) : sending[i] \in KeysOf(Sent)
  BY <1>1, <1>2
<1>10. /\ keys \in Seq(AllKeys) /\ sending \in Seq(AllKeys) /\ line \in Seq(AllKeys)
       /\ out \in Seq(MarkerSet) /\ logged \in 0..Len(out)
  BY <1>1, <1>2
<1> QED BY <1>1, <1>3, <1>8, <1>9, <1>10 DEF SmokeInv

LEMMA SmokeStep == SmokeInv /\ [SmokeNext]_smokeVars => SmokeInv'
BY GuestBootStep, FaultStep, ShellStep, EscapeStep, IgnoredStep, KeyboardStep, PassStep,
   TypeStep, RetypeStep, AdvanceStep, SendStep, QuietStep
   DEF SmokeNext, GuestNext, DriverNext

(* Whenever the driver is about to type a step for the first time, the     *)
(* application that step is for is the one that reads the keys, whatever   *)
(* was lost or typed twice before, and however often (runner.rs            *)
(* run_with_injection, log_has_marker).                                    *)
THEOREM StepsFindTheirApplication == SmokeSpec => []TypedIntoItsApplication
<1>1. SmokeInit => SmokeInv BY SmokeStart
<1>2. SmokeInv /\ [SmokeNext]_smokeVars => SmokeInv' BY SmokeStep
<1>3. SmokeInv => TypedIntoItsApplication BY AtHome
<1> QED BY <1>1, <1>2, <1>3, PTL DEF SmokeSpec
-----------------------------------------------------------------------------
(***************************************************************************)
(* Why the smoke test ends as it does.  As long as nothing has gone wrong  *)
(* that could explain a timeout (Blameless), what the guest reads is known *)
(* key by key: what stands at the prompt, in an application, in the field  *)
(* of the on-screen keyboard.  Each step that was typed in full has its    *)
(* answer underway (Enough); so when nothing is left to be done the answer *)
(* is there, and it is not the deadline that strikes.                      *)
(***************************************************************************)
(* The step that closes an application. *)
Shut(a) == CASE a = "gui" -> 2 [] a = "monitor" -> 4 [] OTHER -> LastTap

Due == Script[step].type
Said == ToSet(out)
AB == <<"a", "b">>
Taps == {"KEYBOARD TEXT ab", "KEYBOARD SEL 0 1", "KEYBOARD TEXT ab1"}

Missed == Mishaps("lost") # {}

(* Nothing has happened of what explains a timeout. *)
Blameless ==
  /\ \A m \in Mishaps("lost") : ~FragileToLoss(m[2])
  /\ \A m \in Mishaps("hasty") : ~FragileToHaste(m[2])
  /\ ~Cardinality(Mishaps("lost")) > 1

(* What is left to send, and what the log says, whatever has been lost.    *)
Rest(q, type) == q = <<>> \/ q = type \/ q = Tail(type)

Basics ==
  /\ attempts \in Nat /\ sending \in Seq(AllKeys)
  /\ IF typed THEN attempts >= 1 /\ Rest(sending, Due) ELSE sending = <<>>
  /\ app = "boot" => ~typed /\ step = 1 /\ keys = <<>> /\ line = <<>>
  /\ Alive /\ app # "boot" =>
       {"BOOT OK", "FRAMEBUFFER OK", "Hello from Ferric-K!"} \subseteq Said
  /\ step > 1 \/ typed => Script[step].marker \in Said

Frames ==
  /\ \A a \in Applications :
       /\ app = a /\ framed => FrameMarker(a) \in Said
       /\ FrameMarker(a) \in Said => app \in {a, "off"} \/ ExitMarker(a) \in Said
  /\ app \in {"gui", "monitor"} => field = <<>> /\ shown = <<>> /\ tap = None
  /\ \A m \in Taps :
       m \in Said => app \in {"keyboard", "off"} \/ ExitMarker("keyboard") \in Said

(* Every lost key is its own mishap: it was typed before the ones that are *)
(* still to be sent, in an earlier step or an earlier attempt, or in this. *)
Dated(m, i, done, n, left) ==
  /\ m[2] \in 1..i /\ m[3] \in Nat
  /\ m[2] = i => done /\ (m[3] < 10 * n \/ (10 * n + left < m[3] /\ m[3] <= 10 * n + 2))

Fresh ==
  /\ IsFiniteSet(mishaps)
  /\ \A m \in Mishaps("lost") : Dated(m, step, typed, attempts, Len(sending))

(* The guest is told to halt in the last step only. *)
HaltLast ==
  /\ step < Len(Script) /\ Alive =>
       \A q \in {line, keys, sending} : "halt" \notin ToSet(q)
  /\ code = "halt" => SmokeMarkers \subseteq Said

(* What the shell is about to read. *)
Stream == line \o keys
Stops == {"ret", "esc"}

NoStop(q) == \A i \in 1..Len(q) : q[i] \notin Stops
OnlyEsc(q) == ToSet(q) \subseteq {"esc"}
EscLast(q) == \A i, j \in 1..Len(q) : i < j /\ q[i] = "esc" => q[j] = "esc"
EscFirst(q) == \A i, j \in 1..Len(q) : i < j /\ q[j] = "esc" => q[i] = "esc"
RetLast(q) == \A i \in 1..Len(q) : q[i] = "ret" => i = Len(q)

(* Nothing is begun; a line holds just one word; somewhere it is entered. *)
Fits(q, i, w) == q[i] = w /\ (i = 1 \/ q[i - 1] \in Stops)
Ended(q) == q = <<>> \/ q[Len(q)] \in Stops
Halfway(q, w) == q # <<>> /\ Fits(q, Len(q), w)
Asks(q, w) == \E i \in 1..Len(q) - 1 : Fits(q, i, w) /\ q[i + 1] = "ret"

Tidy == IF sending = <<"ret">> THEN Halfway(Stream, Due[1]) ELSE Ended(Stream)

Window ==
  app \in Applications =>
    /\ EscLast(keys)
    /\ "esc" \in ToSet(keys) => typed /\ Due = <<"esc">>

Fifth ==
  IF typed THEN RetLast(keys) /\ ("ret" \in ToSet(keys) => sending = <<>>)
  ELSE OnlyEsc(keys)

Prompt ==
  app = "shell" =>
    /\ NoStop(line) /\ "right" \notin ToSet(keys) /\ EscFirst(Stream)
    /\ typed /\ Due = <<"esc">> => OnlyEsc(Stream)
    /\ step = 5 => Fifth
    /\ ~Missed => Tidy

(* The on-screen keyboard: opened, "ab" typed into it, moved, tapped. *)
Opened ==
  /\ keys = <<>> /\ sending = <<>>
  /\ field = <<>> /\ shown = <<>> /\ sel = 0 /\ tap = None
  /\ Taps \cap Said = {}

Text(f, k, s) ==
  \/ f = <<>> /\ k = <<>> /\ s = AB
  \/ f = <<>> /\ k = <<"a">> /\ s = <<"b">>
  \/ f = <<>> /\ k = AB /\ s = <<>>
  \/ f = <<"a">> /\ k = <<>> /\ s = <<"b">>
  \/ f = <<"a">> /\ k = <<"b">> /\ s = <<>>
  \/ f = AB /\ k = <<>> /\ s = <<>>

Lettered ==
  /\ app = "keyboard" /\ sel = 0 /\ tap = None
  /\ IF typed THEN Text(field, keys, sending)
     ELSE field = <<>> /\ keys = <<>>
  /\ shown \in {<<>>, <<"a">>, AB}
  /\ IF "KEYBOARD TEXT ab" \in Said THEN shown = AB /\ field = AB ELSE shown # AB
  /\ "KEYBOARD SEL 0 1" \notin Said /\ "KEYBOARD TEXT ab1" \notin Said

Moved ==
  /\ app = "keyboard" /\ field = AB /\ shown = AB /\ tap = None
  /\ "KEYBOARD TEXT ab1" \notin Said
  /\ IF "KEYBOARD SEL 0 1" \in Said
     THEN typed /\ sel = 1 /\ keys = <<>> /\ sending = <<>>
     ELSE /\ sel = 0
          /\ keys = <<>> \/ (typed /\ keys = <<"right">> /\ sending = <<>>)

TapShown(t) == IsPrefix(<<"a", "b", "1">>, t)

Tapped ==
  /\ app = "keyboard" /\ sel = 1 /\ tap \in {None, "1"} /\ field = shown
  /\ ToSet(keys) \subseteq {"ret"}
  /\ field \in Seq({"a", "b", "1"})
  /\ field = AB \/ (TapShown(field) /\ "KEYBOARD TEXT ab1" \in Said)

OnKeys ==
  /\ step = 5 /\ app = "keyboard" => Opened
  /\ step = 6 => Lettered
  /\ Due = <<"right">> => Moved
  /\ Due = <<"ret">> => Tapped

(* The answer to what was typed is on the wire, or on its way to it. *)
Answer == step < Len(Script) /\ Script[step + 1].marker \in Said

Underway ==
  \/ Answer
  \/ \E w \in Words : Due = Command(w) /\ (app = w \/ (app = "shell" /\ Asks(Stream, w)))
  \/ Due = <<"esc">> /\ app \in Applications /\ "esc" \in ToSet(keys)
  \/ Due = <<"right">> /\ "right" \in ToSet(keys)
  \/ Due = <<"ret">> /\ ("ret" \in ToSet(keys) \/ tap # None)

(* How often the step has been typed in full. *)
Completed == IF sending = <<>> THEN attempts ELSE attempts - 1

(* A typed step has its answer underway, unless it was not typed in full,  *)
(* or a key was lost: that spoils one typing, and if it was the Enter of a *)
(* word at the prompt another one, which ends the line that was spoilt.    *)
Enough ==
  typed /\ Due # AB =>
    \/ Underway
    \/ Completed = 0
    \/ Completed = 1 /\ Missed
    \/ /\ Completed = 2 /\ Missed
       /\ app = "shell" /\ (\E w \in Words : Due = Command(w)) /\ Tidy

Going == Window /\ Prompt /\ OnKeys /\ Enough

(* How the driver has ended. *)
Ending ==
  /\ status = "timeout" => ~Blameless
  /\ status = "rejected" => code = "fault"
  /\ code = "killed" => Returned
  /\ app = "off" => code \in {"halt", "fault", "killed"}
  /\ Returned /\ Alive => status = "transport"

OutcomeInv ==
  /\ Basics /\ Frames /\ Fresh /\ HaltLast /\ Ending
  /\ Blameless /\ Alive => Going
-----------------------------------------------------------------------------
(* The kinds of steps: what is typed, and the marker that answers.         *)
Reaction(word) ==
  CASE word = "help" -> "power off" [] word = "xyz" -> "unknown command"
    [] word = "uptime" -> "Uptime:"

AnsweredBy(i, m) == i < Len(Script) /\ Script[i + 1].marker = m

OpeningStep(i, a) ==
  /\ a \in Applications /\ i = Opens(a) /\ Script[i].type = Command(a)
  /\ AnsweredBy(i, FrameMarker(a))
ClosingStep(i, a) ==
  /\ a \in Applications /\ i = Shut(a) /\ Script[i].type = <<"esc">>
  /\ AnsweredBy(i, ExitMarker(a))
AskingStep(i, w) ==
  /\ w \in {"help", "xyz", "uptime"} /\ i > LastTap /\ Script[i].type = Command(w)
  /\ AnsweredBy(i, Reaction(w))
HaltingStep(i) == i = Len(Script) /\ i > LastTap /\ Script[i].type = Command("halt")
TextStep(i) == i = 6 /\ Script[i].type = AB /\ AnsweredBy(i, "KEYBOARD TEXT ab")
MoveStep(i) ==
  /\ i = 7 /\ LastTap = 9 /\ Script[i].type = <<"right">>
  /\ AnsweredBy(i, "KEYBOARD SEL 0 1")
TapStep(i) ==
  /\ i = 8 /\ LastTap = 9 /\ Script[i].type = <<"ret">>
  /\ AnsweredBy(i, "KEYBOARD TEXT ab1")

Kind(i) ==
  \/ \E a : OpeningStep(i, a) \/ ClosingStep(i, a)
  \/ \E w : AskingStep(i, w)
  \/ HaltingStep(i) \/ TextStep(i) \/ MoveStep(i) \/ TapStep(i)

LEMMA TypedThings ==
  /\ Opening[1].type = Command("gui")
  /\ Opening[2].type = <<"esc">>
  /\ Opening[3].type = Command("monitor")
  /\ Opening[4].type = <<"esc">>
  /\ Opening[5].type = Command("keyboard")
  /\ Opening[6].type = AB
  /\ Tapping[1].type = <<"right">>
  /\ Tapping[2].type = <<"ret">>
  /\ Tapping[3].type = <<"esc">>
  /\ Shortcut.type = <<"esc">>
  /\ Closing[1].type = Command("help")
  /\ Closing[2].type = Command("xyz")
  /\ Closing[3].type = Command("uptime")
  /\ Closing[4].type = Command("halt")
BY DEF Opening, Tapping, Closing, Shortcut, Await, AB

LEMMA AppMarkers ==
  /\ Applications = {"gui", "monitor", "keyboard"}
  /\ FrameMarker("gui") = "SLINT OK" /\ FrameMarker("monitor") = "MONITOR OK"
  /\ FrameMarker("keyboard") = "KEYBOARD OK"
  /\ ExitMarker("gui") = "GUI EXIT OK" /\ ExitMarker("monitor") = "MONITOR EXIT OK"
  /\ ExitMarker("keyboard") = "KEYBOARD EXIT OK"
  /\ Opens("gui") = 1 /\ Opens("monitor") = 3 /\ Opens("keyboard") = 5
  /\ Closes("gui") = 2 /\ Closes("monitor") = 4 /\ Closes("keyboard") = 7
  /\ Shut("gui") = 2 /\ Shut("monitor") = 4 /\ Shut("keyboard") = LastTap
BY DEF Applications, FrameMarker, ExitMarker, Opens, Closes, Shut

LEMMA NextIs ==
  \A i, j \in Nat : \A m :
    j = i + 1 /\ j <= Len(Script) /\ Script[j].marker = m => AnsweredBy(i, m)
<1> SUFFICES ASSUME NEW i \in Nat, NEW j \in Nat, NEW m,
                    j = i + 1, j <= Len(Script), Script[j].marker = m
             PROVE  AnsweredBy(i, m)
  OBVIOUS
<1>1. Len(Script) \in Nat BY ScriptSteps
<1>2. i < Len(Script) BY <1>1
<1> QED BY <1>2 DEF AnsweredBy

LEMMA Kinds == \A i \in 1..Len(Script) : Kind(i)
<1>1. /\ Script[1] = Opening[1] /\ Script[2] = Opening[2] /\ Script[3] = Opening[3]
      /\ Script[4] = Opening[4] /\ Script[5] = Opening[5] /\ Script[6] = Opening[6]
  BY ScriptSteps
<1>2. /\ 2 <= Len(Script) /\ 3 <= Len(Script) /\ 4 <= Len(Script)
      /\ 5 <= Len(Script) /\ 6 <= Len(Script)
  <2>1. Len(Script) = 13 \/ Len(Script) = 11 BY ScriptSteps
  <2>2. \A n : n = 13 \/ n = 11 => 2 <= n /\ 3 <= n /\ 4 <= n /\ 5 <= n /\ 6 <= n
    OBVIOUS
  <2> QED BY <2>1, <2>2
<1>3. Kind(1) /\ Kind(2) /\ Kind(3) /\ Kind(4) /\ Kind(5)
  <2>1. OpeningStep(1, "gui")
    <3>1. AnsweredBy(1, "SLINT OK")
      <4>1. Script[2].marker = "SLINT OK" BY <1>1, Markers
      <4>2. 1 \in Nat /\ 2 \in Nat /\ 2 = 1 + 1 /\ 2 <= Len(Script)
        BY <1>2
      <4> QED BY <4>1, <4>2, NextIs
    <3> QED BY <1>1, <3>1, AppMarkers, TypedThings DEF OpeningStep
  <2>2. ClosingStep(2, "gui")
    <3>1. AnsweredBy(2, "GUI EXIT OK")
      <4>1. Script[3].marker = "GUI EXIT OK" BY <1>1, Markers
      <4>2. 2 \in Nat /\ 3 \in Nat /\ 3 = 2 + 1 /\ 3 <= Len(Script)
        BY <1>2
      <4> QED BY <4>1, <4>2, NextIs
    <3> QED BY <1>1, <3>1, AppMarkers, TypedThings DEF ClosingStep
  <2>3. OpeningStep(3, "monitor")
    <3>1. AnsweredBy(3, "MONITOR OK")
      <4>1. Script[4].marker = "MONITOR OK" BY <1>1, Markers
      <4>2. 3 \in Nat /\ 4 \in Nat /\ 4 = 3 + 1 /\ 4 <= Len(Script)
        BY <1>2
      <4> QED BY <4>1, <4>2, NextIs
    <3> QED BY <1>1, <3>1, AppMarkers, TypedThings DEF OpeningStep
  <2>4. ClosingStep(4, "monitor")
    <3>1. AnsweredBy(4, "MONITOR EXIT OK")
      <4>1. Script[5].marker = "MONITOR EXIT OK" BY <1>1, Markers
      <4>2. 4 \in Nat /\ 5 \in Nat /\ 5 = 4 + 1 /\ 5 <= Len(Script)
        BY <1>2
      <4> QED BY <4>1, <4>2, NextIs
    <3> QED BY <1>1, <3>1, AppMarkers, TypedThings DEF ClosingStep
  <2>5. OpeningStep(5, "keyboard")
    <3>1. AnsweredBy(5, "KEYBOARD OK")
      <4>1. Script[6].marker = "KEYBOARD OK" BY <1>1, Markers
      <4>2. 5 \in Nat /\ 6 \in Nat /\ 6 = 5 + 1 /\ 6 <= Len(Script)
        BY <1>2
      <4> QED BY <4>1, <4>2, NextIs
    <3> QED BY <1>1, <3>1, AppMarkers, TypedThings DEF OpeningStep
  <2> QED BY <2>1, <2>2, <2>3, <2>4, <2>5 DEF Kind
<1>4. /\ Reaction("help") = "power off" /\ Reaction("xyz") = "unknown command"
      /\ Reaction("uptime") = "Uptime:"
  BY DEF Reaction
<1>5. CASE arch = "x64"
  <2>1. /\ Len(Script) = 13 /\ LastTap = 9
        /\ Script[7] = Tapping[1] /\ Script[8] = Tapping[2] /\ Script[9] = Tapping[3]
        /\ Script[10] = Closing[1] /\ Script[11] = Closing[2]
        /\ Script[12] = Closing[3] /\ Script[13] = Closing[4]
    BY <1>5, ScriptSteps DEF LastTap
  <2>2. TextStep(6)
    <3>1. AnsweredBy(6, "KEYBOARD TEXT ab")
      <4>1. Script[7].marker = "KEYBOARD TEXT ab" BY <2>1, Markers
      <4>2. 6 \in Nat /\ 7 \in Nat /\ 7 = 6 + 1 /\ 7 <= Len(Script)
        BY <2>1
      <4> QED BY <4>1, <4>2, NextIs
    <3> QED BY <1>1, <3>1, TypedThings DEF TextStep
  <2>3. MoveStep(7)
    <3>1. AnsweredBy(7, "KEYBOARD SEL 0 1")
      <4>1. Script[8].marker = "KEYBOARD SEL 0 1" BY <2>1, Markers
      <4>2. 7 \in Nat /\ 8 \in Nat /\ 8 = 7 + 1 /\ 8 <= Len(Script)
        BY <2>1
      <4> QED BY <4>1, <4>2, NextIs
    <3> QED BY <2>1, <3>1, TypedThings DEF MoveStep
  <2>4. TapStep(8)
    <3>1. AnsweredBy(8, "KEYBOARD TEXT ab1")
      <4>1. Script[9].marker = "KEYBOARD TEXT ab1" BY <2>1, Markers
      <4>2. 8 \in Nat /\ 9 \in Nat /\ 9 = 8 + 1 /\ 9 <= Len(Script)
        BY <2>1
      <4> QED BY <4>1, <4>2, NextIs
    <3> QED BY <2>1, <3>1, TypedThings DEF TapStep
  <2>5. ClosingStep(9, "keyboard")
    <3>1. AnsweredBy(9, "KEYBOARD EXIT OK")
      <4>1. Script[10].marker = "KEYBOARD EXIT OK" BY <2>1, Markers
      <4>2. 9 \in Nat /\ 10 \in Nat /\ 10 = 9 + 1 /\ 10 <= Len(Script)
        BY <2>1
      <4> QED BY <4>1, <4>2, NextIs
    <3> QED BY <2>1, <3>1, AppMarkers, TypedThings DEF ClosingStep
  <2>6. AskingStep(10, "help")
    <3>1. AnsweredBy(10, "power off")
      <4>1. Script[11].marker = "power off" BY <2>1, Markers
      <4>2. 10 \in Nat /\ 11 \in Nat /\ 11 = 10 + 1 /\ 11 <= Len(Script)
        BY <2>1
      <4> QED BY <4>1, <4>2, NextIs
    <3>2. 10 > LastTap BY <2>1
    <3>3. AnsweredBy(10, Reaction("help")) BY <1>4, <3>1
    <3>4. Script[10].type = Command("help") BY <2>1, TypedThings
    <3> QED BY <3>2, <3>3, <3>4 DEF AskingStep
  <2>7. AskingStep(11, "xyz")
    <3>1. AnsweredBy(11, "unknown command")
      <4>1. Script[12].marker = "unknown command" BY <2>1, Markers
      <4>2. 11 \in Nat /\ 12 \in Nat /\ 12 = 11 + 1 /\ 12 <= Len(Script)
        BY <2>1
      <4> QED BY <4>1, <4>2, NextIs
    <3>2. 11 > LastTap BY <2>1
    <3>3. AnsweredBy(11, Reaction("xyz")) BY <1>4, <3>1
    <3>4. Script[11].type = Command("xyz") BY <2>1, TypedThings
    <3> QED BY <3>2, <3>3, <3>4 DEF AskingStep
  <2>8. AskingStep(12, "uptime")
    <3>1. AnsweredBy(12, "Uptime:")
      <4>1. Script[13].marker = "Uptime:" BY <2>1, Markers
      <4>2. 12 \in Nat /\ 13 \in Nat /\ 13 = 12 + 1 /\ 13 <= Len(Script)
        BY <2>1
      <4> QED BY <4>1, <4>2, NextIs
    <3>2. 12 > LastTap BY <2>1
    <3>3. AnsweredBy(12, Reaction("uptime")) BY <1>4, <3>1
    <3>4. Script[12].type = Command("uptime") BY <2>1, TypedThings
    <3> QED BY <3>2, <3>3, <3>4 DEF AskingStep
  <2>9. HaltingStep(13) BY <2>1, TypedThings DEF HaltingStep
  <2>10. /\ Kind(6) /\ Kind(7) /\ Kind(8) /\ Kind(9) /\ Kind(10) /\ Kind(11)
         /\ Kind(12) /\ Kind(13)
    BY <2>2, <2>3, <2>4, <2>5, <2>6, <2>7, <2>8, <2>9 DEF Kind
  <2>11. \A i \in 1..13 : i \in {1, 2, 3, 4, 5, 6, 7, 8, 9, 10, 11, 12, 13} OBVIOUS
  <2> QED BY <1>3, <2>1, <2>10, <2>11
<1>6. CASE arch # "x64"
  <2>1. /\ Len(Script) = 11 /\ LastTap = 7 /\ Script[7] = Shortcut
        /\ Script[8] = Closing[1] /\ Script[9] = Closing[2]
        /\ Script[10] = Closing[3] /\ Script[11] = Closing[4]
    BY <1>6, ScriptSteps DEF LastTap
  <2>2. TextStep(6)
    <3>1. AnsweredBy(6, "KEYBOARD TEXT ab")
      <4>1. Script[7].marker = "KEYBOARD TEXT ab" BY <2>1, Markers
      <4>2. 6 \in Nat /\ 7 \in Nat /\ 7 = 6 + 1 /\ 7 <= Len(Script)
        BY <2>1
      <4> QED BY <4>1, <4>2, NextIs
    <3> QED BY <1>1, <3>1, TypedThings DEF TextStep
  <2>5. ClosingStep(7, "keyboard")
    <3>1. AnsweredBy(7, "KEYBOARD EXIT OK")
      <4>1. Script[8].marker = "KEYBOARD EXIT OK" BY <2>1, Markers
      <4>2. 7 \in Nat /\ 8 \in Nat /\ 8 = 7 + 1 /\ 8 <= Len(Script)
        BY <2>1
      <4> QED BY <4>1, <4>2, NextIs
    <3> QED BY <2>1, <3>1, AppMarkers, TypedThings DEF ClosingStep
  <2>6. AskingStep(8, "help")
    <3>1. AnsweredBy(8, "power off")
      <4>1. Script[9].marker = "power off" BY <2>1, Markers
      <4>2. 8 \in Nat /\ 9 \in Nat /\ 9 = 8 + 1 /\ 9 <= Len(Script)
        BY <2>1
      <4> QED BY <4>1, <4>2, NextIs
    <3>2. 8 > LastTap BY <2>1
    <3>3. AnsweredBy(8, Reaction("help")) BY <1>4, <3>1
    <3>4. Script[8].type = Command("help") BY <2>1, TypedThings
    <3> QED BY <3>2, <3>3, <3>4 DEF AskingStep
  <2>7. AskingStep(9, "xyz")
    <3>1. AnsweredBy(9, "unknown command")
      <4>1. Script[10].marker = "unknown command" BY <2>1, Markers
      <4>2. 9 \in Nat /\ 10 \in Nat /\ 10 = 9 + 1 /\ 10 <= Len(Script)
        BY <2>1
      <4> QED BY <4>1, <4>2, NextIs
    <3>2. 9 > LastTap BY <2>1
    <3>3. AnsweredBy(9, Reaction("xyz")) BY <1>4, <3>1
    <3>4. Script[9].type = Command("xyz") BY <2>1, TypedThings
    <3> QED BY <3>2, <3>3, <3>4 DEF AskingStep
  <2>8. AskingStep(10, "uptime")
    <3>1. AnsweredBy(10, "Uptime:")
      <4>1. Script[11].marker = "Uptime:" BY <2>1, Markers
      <4>2. 10 \in Nat /\ 11 \in Nat /\ 11 = 10 + 1 /\ 11 <= Len(Script)
        BY <2>1
      <4> QED BY <4>1, <4>2, NextIs
    <3>2. 10 > LastTap BY <2>1
    <3>3. AnsweredBy(10, Reaction("uptime")) BY <1>4, <3>1
    <3>4. Script[10].type = Command("uptime") BY <2>1, TypedThings
    <3> QED BY <3>2, <3>3, <3>4 DEF AskingStep
  <2>9. HaltingStep(11) BY <2>1, TypedThings DEF HaltingStep
  <2>10. /\ Kind(6) /\ Kind(7) /\ Kind(8) /\ Kind(9) /\ Kind(10) /\ Kind(11)
    BY <2>2, <2>5, <2>6, <2>7, <2>8, <2>9 DEF Kind
  <2>11. \A i \in 1..11 : i \in {1, 2, 3, 4, 5, 6, 7, 8, 9, 10, 11} OBVIOUS
  <2> QED BY <1>3, <2>1, <2>10, <2>11
<1> QED BY <1>5, <1>6

(* What is typed, taken apart. *)
LEMMA WordsTyped ==
  ASSUME NEW w \in Words
  PROVE  /\ Command(w) \in Seq(AllKeys) /\ Command(w) # <<>> /\ Len(Command(w)) = 2
         /\ Head(Command(w)) = w /\ Command(w)[1] = w /\ Tail(Command(w)) = <<"ret">>
         /\ Command(w) # <<"ret">> /\ Command(w) # <<"esc">>
         /\ Command(w) # <<"right">> /\ Command(w) # AB
         /\ \A v : Command(v) = Command(w) => v = w
         /\ ToSet(Command(w)) = {w, "ret"}
<1>1. w \in AllKeys /\ "ret" \in AllKeys /\ w # "a" BY DEF AllKeys, Words
<1>2. Command(w) = <<w, "ret">> BY DEF Command
<1>3. \A v : Command(v) = <<v, "ret">> BY DEF Command
<1>4. Command(w) # <<"ret">> /\ Command(w) # <<"esc">> /\ Command(w) # <<"right">>
  BY <1>2
<1>5. Command(w) # AB
  <2>1. <<w, "ret">>[1] = w /\ AB[1] = "a" BY DEF AB
  <2> QED BY <1>1, <1>2, <2>1
<1>6. \A v : Command(v) = Command(w) => v = w
  <2>1. \A v : <<v, "ret">>[1] = v OBVIOUS
  <2> QED BY <1>3, <2>1
<1>7. ToSet(<<w, "ret">>) = {w, "ret"} BY DEF ToSet
<1>8. /\ <<w, "ret">> \in Seq(AllKeys) /\ <<w, "ret">> # <<>> /\ Len(<<w, "ret">>) = 2
      /\ Head(<<w, "ret">>) = w /\ <<w, "ret">>[1] = w /\ Tail(<<w, "ret">>) = <<"ret">>
  BY <1>1
<1> QED BY <1>2, <1>4, <1>5, <1>6, <1>7, <1>8

LEMMA KeysTyped ==
  /\ \A k \in AllKeys : /\ <<k>> \in Seq(AllKeys) /\ <<k>> # <<>> /\ Len(<<k>>) = 1
                        /\ Head(<<k>>) = k /\ Tail(<<k>>) = <<>> /\ ToSet(<<k>>) = {k}
  /\ AB \in Seq(AllKeys) /\ AB # <<>> /\ Len(AB) = 2 /\ Head(AB) = "a"
  /\ Tail(AB) = <<"b">> /\ ToSet(AB) = {"a", "b"}
  /\ {"ret", "esc", "right", "a", "b", Garbled} \subseteq AllKeys
  /\ <<"right">> # <<"esc">> /\ <<"right">> # <<"ret">> /\ <<"esc">> # <<"ret">>
  /\ \A k : AB # <<k>>
<1>1. {"ret", "esc", "right", "a", "b", Garbled} \subseteq AllKeys BY DEF AllKeys
<1>2. \A k \in AllKeys : ToSet(<<k>>) = {k} BY Members
<1>3. ToSet(<<"a", "b">>) = {"a", "b"} BY DEF ToSet
<1>4. /\ <<"a", "b">> \in Seq(AllKeys) /\ <<"a", "b">> # <<>> /\ Len(<<"a", "b">>) = 2
      /\ Head(<<"a", "b">>) = "a" /\ Tail(<<"a", "b">>) = <<"b">>
  BY <1>1
<1>5. \A k \in AllKeys : /\ <<k>> \in Seq(AllKeys) /\ <<k>> # <<>> /\ Len(<<k>>) = 1
                         /\ Head(<<k>>) = k /\ Tail(<<k>>) = <<>>
  OBVIOUS
<1>6. <<"right">> # <<"esc">> /\ <<"right">> # <<"ret">> /\ <<"esc">> # <<"ret">>
  OBVIOUS
<1>7. \A k : <<"a", "b">> # <<k>> OBVIOUS
<1> QED BY <1>1, <1>2, <1>3, <1>4, <1>5, <1>6, <1>7 DEF AB
-----------------------------------------------------------------------------
(* What the script and the log say of where the guest is.                  *)
Known == SmokeInv /\ Basics /\ Frames

Within(a) ==
  /\ Opens(a) <= step /\ step <= Shut(a) /\ (step = Opens(a) => typed)
  /\ ExitMarker(a) \notin Said /\ line = <<>>

LEMMA Heard ==
  ASSUME Known
  PROVE  /\ step \in Nat /\ step >= 1 /\ step <= Len(Script) /\ Len(Script) \in {11, 13}
         /\ \A i \in 1..step : i > 1 \/ typed => Script[i].marker \in Said
<1>1. step \in 1..Len(Script) /\ Len(Script) \in {11, 13}
  BY ScriptSteps DEF Known, SmokeInv
<1>2. \A i \in 1..step - 1 : Script[i].marker \in Said BY DEF Known, SmokeInv, Said
<1>3. step > 1 \/ typed => Script[step].marker \in Said BY DEF Known, Basics
<1>4. \A i \in 1..step : i = step \/ i \in 1..step - 1 BY <1>1
<1> QED BY <1>1, <1>2, <1>3, <1>4

LEMMA OpenShut ==
  \A a \in Applications :
    /\ Opens(a) \in {1, 3, 5} /\ Shut(a) \in {2, 4, 7, 9} /\ Opens(a) < Shut(a)
    /\ Shut(a) + 1 <= Len(Script)
    /\ Script[Opens(a) + 1].marker = FrameMarker(a)
    /\ Script[Shut(a) + 1].marker = ExitMarker(a)
    /\ \A b \in Applications :
         /\ Opens(a) = Opens(b) \/ Shut(a) = Shut(b) => a = b
         /\ Opens(a) # Shut(b)
         /\ Opens(b) <= Opens(a) /\ Opens(a) <= Shut(b) => a = b
         /\ Opens(b) <= Shut(a) /\ Shut(a) <= Shut(b) => a = b
<1>1. LastTap \in {7, 9} /\ LastTap + 1 \in 1..Len(Script) BY Homes
<1>2. 3 <= Len(Script) /\ 5 <= Len(Script) /\ LastTap + 1 <= Len(Script)
  <2>1. Len(Script) = 13 \/ Len(Script) = 11 BY ScriptSteps
  <2>2. \A n : n = 13 \/ n = 11 => 3 <= n /\ 5 <= n OBVIOUS
  <2>3. LastTap + 1 <= Len(Script) BY <1>1
  <2> QED BY <2>1, <2>2, <2>3
<1>3. /\ Script[2].marker = FrameMarker("gui") /\ Script[3].marker = ExitMarker("gui")
      /\ Script[4].marker = FrameMarker("monitor")
      /\ Script[5].marker = ExitMarker("monitor")
      /\ Script[6].marker = FrameMarker("keyboard")
      /\ Script[LastTap + 1].marker = ExitMarker("keyboard")
  BY Homes
<1>4. ASSUME NEW a \in Applications
      PROVE  /\ Opens(a) \in {1, 3, 5} /\ Shut(a) \in {2, 4, 7, 9} /\ Opens(a) < Shut(a)
             /\ Shut(a) + 1 <= Len(Script)
  <2>1. a = "gui" \/ a = "monitor" \/ a = "keyboard" BY AppMarkers
  <2>2. CASE a = "gui"
    <3>1. Opens(a) = 1 /\ Shut(a) = 2 BY ONLY <2>2, AppMarkers
    <3>2. 2 + 1 = 3 OBVIOUS
    <3> QED BY <1>2, <3>1, <3>2
  <2>3. CASE a = "monitor"
    <3>1. Opens(a) = 3 /\ Shut(a) = 4 BY ONLY <2>3, AppMarkers
    <3>2. 4 + 1 = 5 OBVIOUS
    <3> QED BY <1>2, <3>1, <3>2
  <2>4. CASE a = "keyboard"
    <3>1. Opens(a) = 5 /\ Shut(a) = LastTap BY ONLY <2>4, AppMarkers
    <3> QED BY <1>1, <1>2, <3>1
  <2> QED BY <2>1, <2>2, <2>3, <2>4
<1>5. ASSUME NEW a \in Applications
      PROVE  /\ Script[Opens(a) + 1].marker = FrameMarker(a)
             /\ Script[Shut(a) + 1].marker = ExitMarker(a)
  <2>1. a = "gui" \/ a = "monitor" \/ a = "keyboard" BY AppMarkers
  <2>2. CASE a = "gui"
    <3>1. Opens(a) = 1 /\ Shut(a) = 2 BY ONLY <2>2, AppMarkers
    <3>2. Opens(a) + 1 = 2 /\ Shut(a) + 1 = 3 BY <3>1
    <3> QED BY <1>3, <2>2, <3>2
  <2>3. CASE a = "monitor"
    <3>1. Opens(a) = 3 /\ Shut(a) = 4 BY ONLY <2>3, AppMarkers
    <3>2. Opens(a) + 1 = 4 /\ Shut(a) + 1 = 5 BY <3>1
    <3> QED BY <1>3, <2>3, <3>2
  <2>4. CASE a = "keyboard"
    <3>1. Opens(a) = 5 /\ Shut(a) = LastTap BY ONLY <2>4, AppMarkers
    <3>2. Opens(a) + 1 = 6 BY <3>1
    <3> QED BY <1>3, <2>4, <3>1, <3>2
  <2> QED BY <2>1, <2>2, <2>3, <2>4
<1>6. ASSUME NEW a \in Applications, NEW b \in Applications
      PROVE  /\ Opens(a) = Opens(b) \/ Shut(a) = Shut(b) => a = b
             /\ Opens(a) # Shut(b)
             /\ Opens(b) <= Opens(a) /\ Opens(a) <= Shut(b) => a = b
             /\ Opens(b) <= Shut(a) /\ Shut(a) <= Shut(b) => a = b
  <2> DEFINE n == LastTap
  <2>1. n = 7 \/ n = 9 BY <1>1
  <2>2. /\ Opens("gui") = 1 /\ Opens("monitor") = 3 /\ Opens("keyboard") = 5
        /\ Shut("gui") = 2 /\ Shut("monitor") = 4 /\ Shut("keyboard") = n
    BY AppMarkers
  <2>3. a \in {"gui", "monitor", "keyboard"} /\ b \in {"gui", "monitor", "keyboard"}
    BY AppMarkers
  <2> HIDE DEF n
  <2> QED BY ONLY <2>1, <2>2, <2>3
<1> QED BY <1>4, <1>5, <1>6

LEMMA Where ==
  ASSUME Known, NEW a \in Applications, app = a
  PROVE  Within(a)
<1>1. Alive BY NotOff DEF Alive
<1>2. PICK n \in 0..Sent : Place(n, app, line, ToSet(out))
  BY <1>1 DEF Known, SmokeInv, Reached
<1>3. Sent \in 0..8 BY SentInRange DEF Known
<1>4. n \in Nat /\ n <= Sent /\ Sent \in Nat BY <1>3
<1>5. n >= Opens(a) /\ ExitMarker(a) \notin Said /\ line = <<>>
  BY <1>2 DEF Place, Said
<1>6. Opens(a) \in {1, 3, 5} /\ Shut(a) \in {2, 4, 7, 9} /\ Shut(a) + 1 <= Len(Script)
      /\ Script[Shut(a) + 1].marker = ExitMarker(a)
  BY OpenShut
<1>7. step \in Nat /\ step >= 1 /\ step <= Len(Script) /\ Len(Script) \in {11, 13}
      /\ (\A i \in 1..step : i > 1 \/ typed => Script[i].marker \in Said)
  BY Heard
<1>8. step <= Shut(a)
  <2> SUFFICES ASSUME ~(step <= Shut(a)) PROVE FALSE
    OBVIOUS
  <2>1. Shut(a) + 1 \in 1..step /\ Shut(a) + 1 > 1 BY SMTT(60), <1>6, <1>7
  <2>2. Script[Shut(a) + 1].marker \in Said BY <1>7, <2>1
  <2> QED BY <1>5, <1>6, <2>2
<1>9. Segment(Opens(a) - 1) = Opens(a) - 1
  <2>1. Opens(a) \in 1..6 BY <1>6
  <2> QED BY <2>1, Segments
<1>10. step \in 0..Len(Script) /\ step - 1 \in 0..Len(Script)
       /\ Opens(a) - 1 \in 0..Len(Script)
  <2> DEFINE len == Len(Script)
             o == Opens(a)
  <2>1. /\ step \in Nat /\ step >= 1 /\ step <= len /\ len \in {11, 13} /\ o \in {1, 3, 5}
    BY <1>6, <1>7
  <2> HIDE DEF len, o
  <2>2. step \in 0..len /\ step - 1 \in 0..len /\ o - 1 \in 0..len BY ONLY <2>1
  <2> QED BY <2>2 DEF len, o
<1>11. \A i \in 0..Len(Script) : i <= Opens(a) - 1 => Segment(i) <= Opens(a) - 1
  BY <1>9, <1>10, Segments
<1>12. ~(Sent <= Opens(a) - 1) BY <1>4, <1>5, <1>6
<1>13. Opens(a) <= step
  <2> SUFFICES ASSUME ~(Opens(a) <= step) PROVE FALSE
    OBVIOUS
  <2>1. step <= Opens(a) - 1 /\ step - 1 <= Opens(a) - 1 BY <1>6, <1>7
  <2> QED BY <1>10, <1>11, <1>12, <2>1 DEF Sent
<1>14. ASSUME step = Opens(a) PROVE typed
  <2> SUFFICES ASSUME ~typed PROVE FALSE
    OBVIOUS
  <2>1. step - 1 <= Opens(a) - 1 BY <1>6, <1>14
  <2> QED BY <1>10, <1>11, <1>12, <2>1 DEF Sent
<1> QED BY <1>5, <1>8, <1>13, <1>14 DEF Within

(* From its first frame to the Escape of the last tap, the on-screen       *)
(* keyboard reads the keys.                                                *)
LEMMA AtTheKeyboard ==
  ASSUME Known, Alive, 6 <= step, step <= LastTap, step = LastTap => ~typed
  PROVE  app = "keyboard"
<1> SUFFICES ASSUME app # "keyboard" PROVE FALSE
  OBVIOUS
<1>1. PICK n \in 0..Sent : Place(n, app, line, ToSet(out))
  BY DEF Known, SmokeInv, Reached
<1>2. Sent \in 0..8 BY SentInRange DEF Known
<1>3. step \in Nat /\ step <= Len(Script)
      /\ (\A i \in 1..step : i > 1 \/ typed => Script[i].marker \in Said)
  BY Heard
<1>4. "keyboard" \in Applications /\ Closes("keyboard") = 7 BY AppMarkers
<1>5. FrameMarker("keyboard") \in Said
  <2>1. 6 \in 1..step BY <1>3
  <2> QED BY <1>3, <2>1, Homes
<1>6. ExitMarker("keyboard") \in Said BY <1>4, <1>5 DEF Known, Frames, Alive
<1>7. n >= 7 BY <1>1, <1>4, <1>6 DEF Place, Said
<1>8. LastTap \in {7, 9} /\ (\A i \in 1..LastTap : Segment(i - 1) <= 6) BY Homes
<1>9. Sent <= 6
  <2>1. CASE typed
    <3>1. step + 1 \in 1..LastTap /\ (step + 1) - 1 = step BY <1>3, <1>8, <2>1
    <3> QED BY <1>8, <2>1, <3>1 DEF Sent
  <2>2. CASE ~typed
    <3>1. step \in 1..LastTap BY <1>3, <1>8
    <3> QED BY <1>8, <2>2, <3>1 DEF Sent
  <2> QED BY <2>1, <2>2
<1> QED BY <1>2, <1>7, <1>9

(* In the step that closes it, an application that does not run any more   *)
(* has said so.                                                            *)
LEMMA Closed ==
  ASSUME Known, Alive, NEW a, ClosingStep(step, a), app # a
  PROVE  Answer
<1>1. a \in Applications /\ step = Shut(a) /\ AnsweredBy(step, ExitMarker(a))
  BY DEF ClosingStep
<1>2. /\ Opens(a) \in {1, 3, 5} /\ Shut(a) \in {2, 4, 7, 9} /\ Opens(a) < Shut(a)
      /\ Script[Opens(a) + 1].marker = FrameMarker(a)
  BY <1>1, OpenShut
<1>3. Opens(a) + 1 \in 1..step /\ Opens(a) + 1 > 1 BY <1>1, <1>2
<1>4. FrameMarker(a) \in Said BY <1>2, <1>3, Heard
<1>5. ExitMarker(a) \in Said BY <1>1, <1>4 DEF Known, Frames, Alive
<1> QED BY <1>1, <1>5 DEF Answer, AnsweredBy

(* A word opens the application of its own step only. *)
LEMMA OwnWord ==
  ASSUME Known, NEW w \in Words, Due = Command(w), NEW a \in Applications, app = a
  PROVE  w = a /\ OpeningStep(step, a) /\ typed
<1>1. Within(a) BY Where
<1>2. step \in 1..Len(Script) BY DEF Known, SmokeInv
<1>3. Kind(step) BY <1>2, Kinds
<1>4. Due = Script[step].type BY DEF Due
<1>5. LastTap \in {7, 9} BY Homes
<1>6. /\ Opens(a) \in {1, 3, 5} /\ Shut(a) \in {2, 4, 7, 9}
  BY OpenShut
<1>7. Shut(a) <= LastTap
  <2>1. a = "gui" \/ a = "monitor" \/ a = "keyboard" BY AppMarkers
  <2>2. Shut(a) = 2 \/ Shut(a) = 4 \/ Shut(a) = LastTap BY ONLY <2>1, AppMarkers
  <2> QED BY <1>5, <2>2
<1>8. Command(w) # AB /\ Command(w) # <<"esc">> /\ Command(w) # <<"right">>
      /\ Command(w) # <<"ret">>
  BY WordsTyped
<1>9. ~TextStep(step) /\ ~MoveStep(step) /\ ~TapStep(step)
      /\ \A b : ~ClosingStep(step, b)
  BY <1>4, <1>8 DEF TextStep, MoveStep, TapStep, ClosingStep
<1>10. ~(step > LastTap) BY <1>1, <1>2, <1>5, <1>6, <1>7 DEF Within
<1>11. ~HaltingStep(step) /\ \A v : ~AskingStep(step, v)
  BY <1>10 DEF HaltingStep, AskingStep
<1>12. PICK b : OpeningStep(step, b) BY <1>3, <1>9, <1>11 DEF Kind
<1>13. b \in Applications /\ step = Opens(b) /\ Due = Command(b)
  BY <1>4, <1>12 DEF OpeningStep
<1>14. a = b BY <1>1, <1>13, OpenShut DEF Within
<1>15. w = b
  <2>1. b \in Words BY <1>13 DEF Applications, Words
  <2> QED BY <1>13, <2>1, WordsTyped
<1> QED BY <1>1, <1>12, <1>13, <1>14, <1>15 DEF Within
-----------------------------------------------------------------------------
(* Lists of keys that grow at the end and shrink at the front.             *)
Dropped(p, q, n) ==
  /\ n \in Nat /\ 1 <= n /\ n <= Len(q) /\ Len(p) = Len(q) - n
  /\ \A i \in 1..Len(p) : p[i] = q[i + n]

Grown(p, q, k) ==
  /\ Len(p) = Len(q) + 1 /\ p[Len(q) + 1] = k
  /\ \A i \in 1..Len(q) : p[i] = q[i]

LEMMA InList ==
  ASSUME NEW q \in Seq(AllKeys)
  PROVE  /\ Len(q) \in Nat /\ (q = <<>> <=> Len(q) = 0)
         /\ \A k : k \in ToSet(q) <=> \E i \in 1..Len(q) : q[i] = k
         /\ \A i \in 1..Len(q) : q[i] \in AllKeys
<1>1. Len(q) \in Nat /\ (q = <<>> <=> Len(q) = 0) /\ DOMAIN q = 1..Len(q) OBVIOUS
<1>2. \A i \in 1..Len(q) : q[i] \in AllKeys OBVIOUS
<1>3. ToSet(q) = {q[i] : i \in 1..Len(q)} BY <1>1 DEF ToSet
<1> QED BY <1>1, <1>2, <1>3

LEMMA Grows ==
  ASSUME NEW q \in Seq(AllKeys), NEW k \in AllKeys
  PROVE  /\ Append(q, k) \in Seq(AllKeys) /\ Grown(Append(q, k), q, k)
         /\ ToSet(Append(q, k)) = ToSet(q) \cup {k}
BY MembersAppended DEF Grown

LEMMA TailDrops ==
  ASSUME NEW q \in Seq(AllKeys), q # <<>>
  PROVE  /\ Tail(q) \in Seq(AllKeys) /\ Head(q) \in AllKeys /\ Head(q) = q[1]
         /\ Dropped(Tail(q), q, 1)
         /\ ToSet(q) = {Head(q)} \cup ToSet(Tail(q))
<1>1. /\ Len(q) \in Nat /\ Len(q) >= 1 /\ Head(q) = q[1] /\ Head(q) \in AllKeys
      /\ Tail(q) \in Seq(AllKeys) /\ Len(Tail(q)) = Len(q) - 1
      /\ \A i \in 1..Len(Tail(q)) : Tail(q)[i] = q[i + 1]
  BY HeadTailProperties
<1>2. Dropped(Tail(q), q, 1) BY <1>1 DEF Dropped
<1>3. ASSUME NEW k \in ToSet(q) PROVE k = Head(q) \/ k \in ToSet(Tail(q))
  <2>1. PICK i \in 1..Len(q) : q[i] = k BY InList
  <2>2. CASE i = 1 BY <1>1, <2>1, <2>2
  <2>3. CASE i # 1
    <3>1. i - 1 \in 1..Len(Tail(q)) /\ (i - 1) + 1 = i BY <1>1, <2>3
    <3>2. Tail(q)[i - 1] = k BY <1>1, <2>1, <3>1
    <3> QED BY <1>1, <3>1, <3>2, InList
  <2> QED BY <2>2, <2>3
<1>4. ASSUME NEW k \in ToSet(Tail(q)) PROVE k \in ToSet(q)
  <2>1. PICK i \in 1..Len(Tail(q)) : Tail(q)[i] = k BY ZenonT(60), <1>1, InList
  <2>2. i + 1 \in 1..Len(q) /\ q[i + 1] = k BY <1>1, <2>1
  <2> QED BY <2>2, InList
<1>5. Head(q) \in ToSet(q)
  <2>1. 1 \in 1..Len(q) BY <1>1
  <2> QED BY <1>1, <2>1, InList
<1> QED BY <1>1, <1>2, <1>3, <1>4, <1>5

(* A key of the line and the keys after it are still the same stream; one  *)
(* that is sent comes last; one that ends the line leaves only what was    *)
(* behind it.                                                              *)
LEMMA StreamSent ==
  ASSUME NEW l \in Seq(AllKeys), NEW q \in Seq(AllKeys), NEW k \in AllKeys
  PROVE  l \o Append(q, k) = Append(l \o q, k)
OBVIOUS

LEMMA StreamRead ==
  ASSUME NEW l \in Seq(AllKeys), NEW q \in Seq(AllKeys), q # <<>>
  PROVE  Append(l, Head(q)) \o Tail(q) = l \o q
<1>1. Head(q) \in AllKeys /\ Tail(q) \in Seq(AllKeys) /\ q = <<Head(q)>> \o Tail(q)
  OBVIOUS
<1>2. Append(l, Head(q)) = l \o <<Head(q)>> BY <1>1
<1>3. \A x, y, z \in Seq(AllKeys) : (x \o y) \o z = x \o (y \o z) BY SMTT(60)
<1>4. <<Head(q)>> \in Seq(AllKeys) BY <1>1
<1>5. (l \o <<Head(q)>>) \o Tail(q) = l \o (<<Head(q)>> \o Tail(q)) BY SMTT(60), <1>1, <1>3, <1>4
<1> QED BY <1>1, <1>2, <1>5

LEMMA StreamLine ==
  ASSUME NEW l \in Seq(AllKeys), NEW q \in Seq(AllKeys), q # <<>>
  PROVE  /\ l \o q \in Seq(AllKeys)
         /\ Dropped(Tail(q), l \o q, Len(l) + 1) /\ (l \o q)[Len(l) + 1] = Head(q)
         /\ \A i \in 1..Len(l) : (l \o q)[i] = l[i]
<1>1. /\ l \o q \in Seq(AllKeys)
      /\ Len(l \o q) = Len(l) + Len(q)
      /\ \A i \in 1..Len(l) : (l \o q)[i] = l[i]
      /\ \A i \in 1..Len(q) : (l \o q)[Len(l) + i] = q[i]
  BY Joined
<1>2. Len(l) \in Nat /\ Len(q) \in Nat /\ Len(q) >= 1 BY InList
<1>3. Head(q) = q[1] /\ Len(Tail(q)) = Len(q) - 1
      /\ \A i \in 1..Len(Tail(q)) : Tail(q)[i] = q[i + 1]
  BY HeadTailProperties
<1>4. (l \o q)[Len(l) + 1] = Head(q) BY <1>1, <1>2, <1>3
<1>5. ASSUME NEW i \in 1..Len(Tail(q)) PROVE Tail(q)[i] = (l \o q)[i + (Len(l) + 1)]
  <2>1. i + 1 \in 1..Len(q) /\ i + (Len(l) + 1) = Len(l) + (i + 1) BY <1>2, <1>3
  <2> QED BY <1>1, <1>3, <2>1
<1>6. Dropped(Tail(q), l \o q, Len(l) + 1)
  BY <1>1, <1>2, <1>3, <1>5 DEF Dropped
<1> QED BY <1>1, <1>4, <1>6

LEMMA NothingOnLine ==
  ASSUME NEW q \in Seq(AllKeys) PROVE <<>> \o q = q
OBVIOUS

(* What a list of keys keeps when it shrinks. *)
LEMMA DropOrders ==
  ASSUME NEW p \in Seq(AllKeys), NEW q \in Seq(AllKeys), NEW n, Dropped(p, q, n)
  PROVE  /\ EscFirst(q) => EscFirst(p)
         /\ EscLast(q) => EscLast(p)
         /\ RetLast(q) => RetLast(p)
         /\ ToSet(p) \subseteq ToSet(q)
<1>1. /\ n \in Nat /\ 1 <= n /\ n <= Len(q) /\ Len(p) = Len(q) - n
      /\ Len(p) \in Nat /\ Len(q) \in Nat
      /\ \A i \in 1..Len(p) : p[i] = q[i + n]
  BY InList DEF Dropped
<1>2. \A i \in 1..Len(p) : i + n \in 1..Len(q) BY <1>1
<1>3. \A i, j \in 1..Len(p) : i < j => i + n < j + n BY <1>1
<1>4. EscFirst(q) => EscFirst(p) BY <1>1, <1>2, <1>3 DEF EscFirst
<1>5. EscLast(q) => EscLast(p) BY <1>1, <1>2, <1>3 DEF EscLast
<1>6. ASSUME RetLast(q), NEW i \in 1..Len(p), p[i] = "ret" PROVE i = Len(p)
  <2>1. q[i + n] = "ret" /\ i + n \in 1..Len(q) BY <1>1, <1>2, <1>6
  <2>2. i + n = Len(q) BY <1>6, <2>1 DEF RetLast
  <2>3. Len(p) = Len(q) - n /\ n \in Nat /\ Len(q) \in Nat /\ i \in Int BY <1>1
  <2> QED BY ONLY <2>2, <2>3
<1>7. ASSUME NEW k \in ToSet(p) PROVE k \in ToSet(q)
  <2>1. PICK i \in 1..Len(p) : p[i] = k BY InList
  <2>2. q[i + n] = k /\ i + n \in 1..Len(q) BY <1>1, <1>2, <2>1
  <2> QED BY <2>2, InList
<1> QED BY <1>4, <1>5, <1>6, <1>7 DEF RetLast

LEMMA DropTidy ==
  ASSUME NEW p \in Seq(AllKeys), NEW q \in Seq(AllKeys), NEW n, Dropped(p, q, n),
         q[n] \in Stops
  PROVE  /\ Ended(q) => Ended(p)
         /\ \A w : w \notin Stops /\ Halfway(q, w) => Halfway(p, w)
<1>1. /\ n \in Nat /\ 1 <= n /\ n <= Len(q) /\ Len(p) = Len(q) - n
      /\ Len(p) \in Nat /\ Len(q) \in Nat /\ (p = <<>> <=> Len(p) = 0)
      /\ \A i \in 1..Len(p) : p[i] = q[i + n]
  BY InList DEF Dropped
<1>2. ASSUME Len(p) # 0 PROVE Len(p) \in 1..Len(p) /\ Len(p) + n = Len(q)
                              /\ p[Len(p)] = q[Len(q)] /\ q # <<>>
  <2>1. Len(p) \in 1..Len(p) /\ Len(p) + n = Len(q) /\ Len(q) # 0 BY <1>1, <1>2
  <2> QED BY <1>1, <2>1, InList
<1>3. Ended(q) => Ended(p) BY <1>1, <1>2 DEF Ended
<1>4. ASSUME NEW w, w \notin Stops, Halfway(q, w) PROVE Halfway(p, w)
  <2>1. q[Len(q)] = w /\ (Len(q) = 1 \/ q[Len(q) - 1] \in Stops) BY <1>4 DEF Halfway, Fits
  <2>2. Len(p) # 0
    <3> SUFFICES ASSUME Len(p) = 0 PROVE FALSE
      OBVIOUS
    <3>1. n = Len(q) BY <1>1
    <3> QED BY <1>4, <2>1, <3>1
  <2>3. p[Len(p)] = w BY <1>2, <2>1, <2>2
  <2>4. Len(p) = 1 \/ p[Len(p) - 1] \in Stops
    <3> SUFFICES ASSUME Len(p) # 1 PROVE p[Len(p) - 1] \in Stops
      OBVIOUS
    <3>0. /\ n \in Nat /\ 1 <= n /\ Len(p) = Len(q) - n /\ Len(p) \in Nat
          /\ Len(q) \in Nat /\ Len(p) # 0 /\ Len(p) # 1
      BY <1>1, <2>2
    <3>1. Len(p) - 1 \in 1..Len(p) /\ (Len(p) - 1) + n = Len(q) - 1 /\ Len(q) # 1
      BY ONLY SMTT(60), <3>0
    <3>2. p[Len(p) - 1] = q[Len(q) - 1] BY <1>1, <3>1
    <3> QED BY <2>1, <3>1, <3>2
  <2> QED BY <1>1, <2>2, <2>3, <2>4 DEF Halfway, Fits
<1> QED BY <1>3, <1>4

LEMMA DropAsks ==
  ASSUME NEW p \in Seq(AllKeys), NEW q \in Seq(AllKeys), NEW n, Dropped(p, q, n),
         q[n] \in Stops, \A j \in 1..n - 1 : q[j] \notin Stops,
         NEW w, w \notin Stops, Asks(q, w)
  PROVE  Asks(p, w) \/ (n = 2 /\ q[1] = w /\ q[2] = "ret")
<1>1. /\ n \in Nat /\ 1 <= n /\ n <= Len(q) /\ Len(p) = Len(q) - n
      /\ Len(p) \in Nat /\ Len(q) \in Nat
      /\ \A i \in 1..Len(p) : p[i] = q[i + n]
  BY InList DEF Dropped
<1>2. PICK i \in 1..Len(q) - 1 : Fits(q, i, w) /\ q[i + 1] = "ret" BY DEF Asks
<1>3. q[i] = w /\ (i = 1 \/ q[i - 1] \in Stops) BY <1>2 DEF Fits
<1>4. "ret" \in Stops BY DEF Stops
<1>5. i # n BY <1>3
<1>6. CASE i < n
  <2>1. ~(i + 1 \in 1..n - 1) BY <1>2, <1>4
  <2>2. i + 1 = n BY <1>1, <1>6, <2>1
  <2>3. ~(i - 1 \in 1..n - 1) \/ i = 1 BY <1>3
  <2>4. i = 1 BY <1>1, <2>2, <2>3
  <2> QED BY <1>2, <1>3, <2>2, <2>4
<1>7. CASE i > n
  <2>1. /\ i - n \in 1..Len(p) - 1 /\ (i - n) + n = i /\ ((i - n) + 1) + n = i + 1
        /\ i - n \in 1..Len(p) /\ (i - n) + 1 \in 1..Len(p)
    <3>1. /\ n \in Nat /\ 1 <= n /\ Len(p) = Len(q) - n /\ Len(p) \in Nat
          /\ Len(q) \in Nat /\ i \in 1..Len(q) - 1 /\ i > n
      BY <1>1, <1>7
    <3> QED BY ONLY <3>1
  <2>2. p[i - n] = w /\ p[(i - n) + 1] = "ret" BY <1>1, <1>2, <1>3, <2>1
  <2>3. i - n = 1 \/ p[(i - n) - 1] \in Stops
    <3> SUFFICES ASSUME i - n # 1 PROVE p[(i - n) - 1] \in Stops
      OBVIOUS
    <3>1. (i - n) - 1 \in 1..Len(p) /\ ((i - n) - 1) + n = i - 1 /\ i # 1
      BY <1>1, <1>7, <2>1
    <3>2. p[(i - n) - 1] = q[i - 1] BY <1>1, <3>1
    <3> QED BY <1>3, <3>1, <3>2
  <2> QED BY <2>1, <2>2, <2>3 DEF Asks, Fits
<1> QED BY <1>1, <1>5, <1>6, <1>7

(* What it keeps, and what it gains, when it grows. *)
LEMMA GrowOrders ==
  ASSUME NEW p \in Seq(AllKeys), NEW q \in Seq(AllKeys), NEW k, Grown(p, q, k)
  PROVE  /\ EscFirst(q) /\ k # "esc" => EscFirst(p)
         /\ OnlyEsc(q) /\ k = "esc" => OnlyEsc(p) /\ EscFirst(p)
         /\ EscLast(q) /\ ("esc" \notin ToSet(q) \/ k = "esc") => EscLast(p)
         /\ "ret" \notin ToSet(q) => RetLast(p)
         /\ ToSet(p) = ToSet(q) \cup {k}
<1>1. /\ Len(p) = Len(q) + 1 /\ p[Len(p)] = k /\ Len(p) \in Nat /\ Len(q) \in Nat
      /\ \A i \in 1..Len(q) : p[i] = q[i]
      /\ \A i \in 1..Len(p) : i \in 1..Len(q) \/ i = Len(p)
      /\ 1..Len(q) \subseteq 1..Len(p) /\ Len(p) \in 1..Len(p)
      /\ \A i, j \in 1..Len(p) : i < j => i \in 1..Len(q)
  BY InList DEF Grown
<1>2. ToSet(p) = ToSet(q) \cup {k}
  <2>1. \A x : x \in ToSet(p) <=> \E i \in 1..Len(p) : p[i] = x BY InList
  <2>2. \A x : x \in ToSet(q) <=> \E i \in 1..Len(q) : q[i] = x BY InList
  <2>3. ASSUME NEW x, x \in ToSet(p) PROVE x \in ToSet(q) \cup {k}
    <3>1. PICK i \in 1..Len(p) : p[i] = x BY <2>1, <2>3
    <3> QED BY <1>1, <2>2, <3>1
  <2>4. ASSUME NEW x, x \in ToSet(q) PROVE x \in ToSet(p)
    <3>1. PICK i \in 1..Len(q) : q[i] = x BY <2>2, <2>4
    <3> QED BY <1>1, <2>1, <3>1
  <2>5. k \in ToSet(p) BY <1>1, <2>1
  <2> QED BY <2>3, <2>4, <2>5
<1>3. EscFirst(q) /\ k # "esc" => EscFirst(p) BY <1>1 DEF EscFirst
<1>4. ASSUME OnlyEsc(q), k = "esc" PROVE OnlyEsc(p) /\ EscFirst(p)
  <2>1. OnlyEsc(p) BY <1>2, <1>4 DEF OnlyEsc
  <2>2. \A i \in 1..Len(p) : p[i] = "esc" BY <2>1, InList DEF OnlyEsc
  <2> QED BY <2>1, <2>2 DEF EscFirst
<1>5. EscLast(q) /\ k = "esc" => EscLast(p) BY <1>1 DEF EscLast
<1>6. ASSUME "esc" \notin ToSet(q) PROVE EscLast(p)
  <2>1. \A i \in 1..Len(q) : p[i] # "esc" BY <1>1, <1>6, InList
  <2> QED BY <1>1, <2>1 DEF EscLast
<1>7. ASSUME "ret" \notin ToSet(q) PROVE RetLast(p)
  <2>1. \A i \in 1..Len(q) : p[i] # "ret" BY <1>1, <1>7, InList
  <2> QED BY <1>1, <2>1 DEF RetLast
<1> QED BY <1>2, <1>3, <1>4, <1>5, <1>6, <1>7

LEMMA GrowTidy ==
  ASSUME NEW p \in Seq(AllKeys), NEW q \in Seq(AllKeys), NEW k, Grown(p, q, k)
  PROVE  /\ Ended(q) => Halfway(p, k)
         /\ k \in Stops => Ended(p)
         /\ \A w : k = "ret" /\ Halfway(q, w) => Asks(p, w)
         /\ \A w : Asks(q, w) => Asks(p, w)
<1>1. /\ Len(p) = Len(q) + 1 /\ p[Len(p)] = k /\ Len(p) \in Nat /\ Len(q) \in Nat
      /\ \A i \in 1..Len(q) : p[i] = q[i]
      /\ Len(p) # 0 /\ p # <<>> /\ (q = <<>> <=> Len(q) = 0)
  BY InList DEF Grown
<1>2. ASSUME Ended(q) PROVE Halfway(p, k)
  <2>1. CASE q = <<>> BY <1>1, <2>1 DEF Halfway, Fits
  <2>2. CASE q # <<>>
    <3>1. q[Len(q)] \in Stops /\ Len(q) \in 1..Len(q) /\ Len(p) - 1 = Len(q)
      BY <1>1, <1>2, <2>2 DEF Ended
    <3> QED BY <1>1, <3>1 DEF Halfway, Fits
  <2> QED BY <2>1, <2>2
<1>3. k \in Stops => Ended(p) BY <1>1 DEF Ended
<1>4. \A w, i : i \in 1..Len(q) /\ Fits(q, i, w) => Fits(p, i, w)
  <2> SUFFICES ASSUME NEW w, NEW i \in 1..Len(q), Fits(q, i, w) PROVE Fits(p, i, w)
    OBVIOUS
  <2>1. q[i] = w /\ (i = 1 \/ q[i - 1] \in Stops) BY DEF Fits
  <2>2. i = 1 \/ i - 1 \in 1..Len(q) BY <1>1
  <2> QED BY <1>1, <2>1, <2>2 DEF Fits
<1>5. ASSUME NEW w, k = "ret", Halfway(q, w) PROVE Asks(p, w)
  <2>1. Len(q) \in 1..Len(q) /\ Fits(q, Len(q), w) /\ Len(q) \in 1..Len(p) - 1
    BY <1>1, <1>5 DEF Halfway
  <2>2. p[Len(q) + 1] = "ret" BY <1>1, <1>5
  <2> QED BY <1>4, <2>1, <2>2 DEF Asks
<1>6. ASSUME NEW w, Asks(q, w) PROVE Asks(p, w)
  <2>1. PICK i \in 1..Len(q) - 1 : Fits(q, i, w) /\ q[i + 1] = "ret" BY <1>6 DEF Asks
  <2>2. i \in 1..Len(q) /\ i + 1 \in 1..Len(q) /\ i \in 1..Len(p) - 1 BY <1>1
  <2>3. p[i + 1] = "ret" BY <1>1, <2>1, <2>2
  <2> QED BY <1>4, <2>1, <2>2, <2>3 DEF Asks
<1> QED BY <1>2, <1>3, <1>5, <1>6
-----------------------------------------------------------------------------
(* What the steps do, as far as the outcome is concerned.                  *)
LEMMA Fixed ==
  ASSUME arch' = arch
  PROVE  /\ Script' = Script /\ LastTap' = LastTap /\ SmokeMarkers' = SmokeMarkers
         /\ step' = step => Due' = Due
<1>1. Script' = Script BY DEF Script
<1> QED BY <1>1 DEF LastTap, SmokeMarkers, Due

LEMMA Spoken ==
  ASSUME SmokeInv, NEW q \in Seq(MarkerSet), Emit(q)
  PROVE  Said' = Said \cup ToSet(q)
BY Emitted DEF Said

LEMMA Hushed == Silent => Said' = Said
BY DEF Silent, Said

LEMMA Logged ==
  ASSUME SmokeInv, NEW m, log_has_marker(m)
  PROVE  m \in Said
<1>1. PICK i \in 1..logged : out[i] = m BY DEF log_has_marker, Told
<1>2. i \in 1..Len(out) BY DEF SmokeInv
<1> QED BY <1>1, <1>2 DEF SmokeInv, Said, ToSet

LEMMA AllLogged ==
  ASSUME SmokeInv, logged = Len(out), NEW m \in Said
  PROVE  log_has_marker(m)
<1>1. out \in Seq(MarkerSet) /\ DOMAIN out = 1..Len(out) BY DEF SmokeInv
<1>2. PICK i \in 1..Len(out) : out[i] = m BY <1>1 DEF Said, ToSet
<1> QED BY <1>2 DEF log_has_marker, Told

(* The three things a line can do. *)
LineOpens(a) ==
  a \in Applications /\ line = <<a>> /\ Open(a) /\ Said' = Said /\ code' = code
LineHalts ==
  line = <<"halt">> /\ Said' = Said \cup {"HALT"} /\ app' = "off" /\ code' = "halt"
Replies == {"power off", "Uptime:", "unknown command"}
LineReplies ==
  /\ UNCHANGED <<app, framed, field, shown, sel, tap, code>>
  /\ Said \subseteq Said' /\ Said' \subseteq Said \cup Replies
  /\ \A w \in {"help", "xyz", "uptime"} : line = <<w>> => Reaction(w) \in Said'
  /\ line # <<"halt">> /\ \A a \in Applications : line # <<a>>

Fitting(q) ==
  /\ \E m \in Replies : q = <<>> \/ q = <<m>>
  /\ \A w \in {"help", "xyz", "uptime"} : line = <<w>> => q = <<Reaction(w)>>
  /\ line # <<"halt">> /\ \A a \in Applications : line # <<a>>

LEMMA OneWord ==
  /\ \A v, w : <<v>> = <<w>> => v = w
  /\ \A v : <<v>> # <<>>
OBVIOUS

LEMMA LineDoes ==
  ASSUME SmokeInv, RunCommand
  PROVE  line' = <<>> /\ ((\E a : LineOpens(a)) \/ LineHalts \/ LineReplies)
<1>0. /\ \A m \in Replies \cup {"HALT"} : <<m>> \in Seq(MarkerSet) /\ ToSet(<<m>>) = {m}
      /\ <<>> \in Seq(MarkerSet) /\ ToSet(<<>>) = {}
  <2>1. Replies \cup {"HALT"} \subseteq MarkerSet BY DEF Replies, MarkerSet
  <2>2. \A m \in Replies \cup {"HALT"} : <<m>> \in Seq(MarkerSet) BY <2>1
  <2> QED BY <2>2, Members
<1>1. ASSUME NEW q, Fitting(q), Reply(q) PROVE LineReplies
  <2>0. /\ \E m \in Replies : q = <<>> \/ q = <<m>>
        /\ \A w \in {"help", "xyz", "uptime"} : line = <<w>> => q = <<Reaction(w)>>
        /\ line # <<"halt">> /\ \A a \in Applications : line # <<a>>
    BY <1>1 DEF Fitting
  <2>1. q \in Seq(MarkerSet) /\ ToSet(q) \subseteq Replies
    <3>1. PICK m \in Replies : q = <<>> \/ q = <<m>> BY <2>0
    <3>2. CASE q = <<>> BY <1>0, <3>2
    <3>3. CASE q = <<m>> BY <1>0, <3>3
    <3> QED BY <3>1, <3>2, <3>3
  <2>2. Said' = Said \cup ToSet(q) BY <1>1, <2>1, Spoken DEF Reply
  <2>3. ASSUME NEW w \in {"help", "xyz", "uptime"}, line = <<w>>
        PROVE  Reaction(w) \in Said'
    <3>1. q = <<Reaction(w)>> BY <2>0, <2>3
    <3>2. ToSet(q) = {Reaction(w)} BY <3>1, Members
    <3> QED BY <2>2, <3>2
  <2> QED BY <1>1, <2>0, <2>1, <2>2, <2>3 DEF Reply, LineReplies
<1>2. /\ Reaction("help") = "power off" /\ Reaction("xyz") = "unknown command"
      /\ Reaction("uptime") = "Uptime:"
  BY DEF Reaction
<1>3. {"power off", "Uptime:", "unknown command"} \subseteq Replies BY DEF Replies
<1>4. \A a \in Applications : a \notin {"help", "xyz", "uptime", "halt"}
  BY DEF Applications
<1>11. line' = <<>> BY DEF RunCommand
<1>5. CASE line = <<>> /\ Reply(<<>>)
  <2>1. Fitting(<<>>) BY <1>3, <1>5, OneWord DEF Fitting
  <2> QED BY <1>1, <1>5, <1>11, <2>1
<1>6. CASE /\ line \in {<<a>> : a \in Applications}
           /\ Open(line[1]) /\ Silent /\ UNCHANGED code
  <2>1. PICK a \in Applications : line = <<a>> BY <1>6
  <2>2. line[1] = a BY <2>1
  <2> QED BY <1>6, <2>1, <2>2, Hushed DEF RunCommand, LineOpens
<1>7. CASE line = <<"help">> /\ Reply(<<"power off">>)
  <2>1. \A v : line = <<v>> => v = "help" BY ONLY <1>7, OneWord
  <2>2. \A v \in {"help", "xyz", "uptime"} : line = <<v>> => <<"power off">> = <<Reaction(v)>>
    BY <1>2, <2>1
  <2>3. "help" # "halt" /\ "help" \notin Applications BY <1>4
  <2>4. Fitting(<<"power off">>) BY <1>3, <2>1, <2>2, <2>3 DEF Fitting
  <2> QED BY <1>1, <1>7, <1>11, <2>4
<1>8. CASE line = <<"uptime">> /\ Reply(<<"Uptime:">>)
  <2>1. \A v : line = <<v>> => v = "uptime" BY ONLY <1>8, OneWord
  <2>2. \A v \in {"help", "xyz", "uptime"} : line = <<v>> => <<"Uptime:">> = <<Reaction(v)>>
    BY <1>2, <2>1
  <2>3. "uptime" # "halt" /\ "uptime" \notin Applications BY <1>4
  <2>4. Fitting(<<"Uptime:">>) BY <1>3, <2>1, <2>2, <2>3 DEF Fitting
  <2> QED BY <1>1, <1>8, <1>11, <2>4
<1>9. CASE line = <<"halt">> /\ Emit(<<"HALT">>) /\ app' = "off" /\ code' = "halt"
  <2>1. Said' = Said \cup {"HALT"} BY <1>0, <1>9, Spoken
  <2> QED BY <1>9, <2>1 DEF LineHalts, RunCommand
<1>10. CASE /\ line # <<>> /\ line \notin {<<a>> : a \in Applications}
            /\ line # <<"help">> /\ line # <<"uptime">> /\ line # <<"halt">>
            /\ Reply(<<"unknown command">>)
  <2>1. \A v \in {"help", "xyz", "uptime"} : line = <<v>> =>
          <<"unknown command">> = <<Reaction(v)>>
    BY <1>2, <1>10
  <2>2. Fitting(<<"unknown command">>) BY <1>3, <1>10, <2>1 DEF Fitting
  <2> QED BY <1>1, <1>10, <1>11, <2>2
<1> QED BY <1>5, <1>6, <1>7, <1>8, <1>9, <1>10 DEF RunCommand

(* The three things a key does at the prompt. *)
KeyEnters == Key = "ret" /\ RunCommand
KeyTypes ==
  /\ Key \notin {"ret", "esc", "right"}
  /\ line' = Append(line, Key)
  /\ Silent /\ UNCHANGED <<app, field, shown, sel, tap, framed, code>>
KeyPasses == Key \in {"esc", "right"} /\ Silent /\ UNCHANGED <<guest, code>>

LEMMA ShellKeys == ShellKey => KeyEnters \/ KeyTypes \/ KeyPasses
BY DEF ShellKey, KeyEnters, KeyTypes, KeyPasses

(* What a pass of an application shows. *)
LEMMA TextIs ==
  /\ TextMarkers(AB) = <<"KEYBOARD TEXT ab">>
  /\ ~TapShown(AB)
  /\ \A t : TapShown(t) => TextMarkers(t) = <<"KEYBOARD TEXT ab1">>
  /\ \A t : t # AB /\ ~TapShown(t) => TextMarkers(t) = <<>>
<1>1. ~TapShown(AB)
  <2>1. Len(<<"a", "b", "1">>) = 3 /\ Len(<<"a", "b">>) = 2 OBVIOUS
  <2>2. ~(Len(<<"a", "b", "1">>) <= Len(<<"a", "b">>)) BY <2>1
  <2> QED BY <2>2 DEF TapShown, AB, IsPrefix
<1>2. TextMarkers(AB) = <<"KEYBOARD TEXT ab">>
  BY <1>1 DEF TextMarkers, TapShown, AB
<1>3. ASSUME NEW t, TapShown(t) PROVE TextMarkers(t) = <<"KEYBOARD TEXT ab1">>
  <2>1. t # <<"a", "b">> BY <1>1, <1>3 DEF AB
  <2> QED BY <1>3, <2>1 DEF TextMarkers, TapShown
<1>4. ASSUME NEW t, t # AB, ~TapShown(t) PROVE TextMarkers(t) = <<>>
  BY <1>4 DEF TextMarkers, TapShown, AB
<1> QED BY <1>1, <1>2, <1>3, <1>4

PassText == IF field' # shown THEN TextMarkers(field') ELSE <<>>

LEMMA PassShows ==
  ASSUME SmokeInv, ApplicationPass
  PROVE  /\ Said' = Said \cup ToSet(PassText) \cup (IF framed THEN {} ELSE {FrameMarker(app)})
         /\ ToSet(PassText) \subseteq {"KEYBOARD TEXT ab", "KEYBOARD TEXT ab1"}
         /\ Plain(PassText)
<1>1. app \in Applications BY DEF ApplicationPass
<1>2. Plain(PassText) /\ ToSet(PassText) \subseteq {"KEYBOARD TEXT ab", "KEYBOARD TEXT ab1"}
  <2>1. \/ PassText = <<>> \/ PassText = <<"KEYBOARD TEXT ab">>
        \/ PassText = <<"KEYBOARD TEXT ab1">>
    <3>1. \A t : \/ TextMarkers(t) = <<>> \/ TextMarkers(t) = <<"KEYBOARD TEXT ab">>
                 \/ TextMarkers(t) = <<"KEYBOARD TEXT ab1">>
      BY TextIs
    <3> QED BY <3>1 DEF PassText
  <2>2. ToSet(<<>>) = {} /\ \A a : ToSet(<<a>>) = {a} BY Members
  <2> QED BY ZenonT(60), <2>1, <2>2, PlainMarkers
<1>3. FrameMarker(app) \in MarkerSet BY <1>1 DEF Applications, FrameMarker, MarkerSet
<1>4. FirstFrame \in Seq(MarkerSet)
      /\ ToSet(FirstFrame) = IF framed THEN {} ELSE {FrameMarker(app)}
  <2>1. CASE framed
    <3>1. FirstFrame = <<>> /\ <<>> \in Seq(MarkerSet) BY <2>1 DEF FirstFrame
    <3> QED BY <2>1, <3>1, Members
  <2>2. CASE ~framed
    <3>1. FirstFrame = <<FrameMarker(app)>> BY <2>2 DEF FirstFrame
    <3>2. <<FrameMarker(app)>> \in Seq(MarkerSet) BY <1>3
    <3> QED BY <2>2, <3>1, <3>2, Members
  <2> QED BY <2>1, <2>2
<1>5. PassText \in Seq(MarkerSet) BY <1>2 DEF Plain
<1>6. /\ PassText \o FirstFrame \in Seq(MarkerSet)
      /\ ToSet(PassText \o FirstFrame) = ToSet(PassText) \cup ToSet(FirstFrame)
  BY <1>4, <1>5, MembersJoined
<1>7. Emit(PassText \o FirstFrame) BY DEF ApplicationPass, PassText
<1>8. Said' = Said \cup ToSet(PassText \o FirstFrame) BY <1>6, <1>7, Spoken
<1> QED BY <1>2, <1>4, <1>6, <1>8

LEMMA EscapeSays ==
  ASSUME SmokeInv, ApplicationEscape
  PROVE  Said' = Said \cup {ExitMarker(app)}
<1>1. app \in Applications BY DEF ApplicationEscape
<1>2. ExitMarker(app) \in MarkerSet BY <1>1 DEF Applications, ExitMarker, MarkerSet
<1>3. <<ExitMarker(app)>> \in Seq(MarkerSet) BY <1>2
<1> QED BY <1>3, Spoken, Members DEF ApplicationEscape

(* The three things a key does in the window of the keyboard. *)
TapKey ==
  Key = "ret" /\ tap' = TopRow[sel + 1] /\ Said' = Said /\ UNCHANGED <<field, sel>>
MoveKey ==
  /\ Key = "right" /\ sel' = sel + 1 /\ UNCHANGED <<field, tap>>
  /\ Said' = Said \cup (IF sel' = 1 THEN {"KEYBOARD SEL 0 1"} ELSE {})
TextKey ==
  /\ Key \notin {"ret", "right"} /\ field' = Append(field, Key)
  /\ Said' = Said /\ UNCHANGED <<sel, tap>>

LEMMA KeyboardKeys ==
  ASSUME SmokeInv, KeyboardKey
  PROVE  TapKey \/ MoveKey \/ TextKey
<1>1. ASSUME NEW q, q = (IF sel' = 1 THEN <<"KEYBOARD SEL 0 1">> ELSE <<>>), Emit(q)
      PROVE  Said' = Said \cup (IF sel' = 1 THEN {"KEYBOARD SEL 0 1"} ELSE {})
  <2>1. Plain(q) BY <1>1, PlainMarkers
  <2>2. Said' = Said \cup ToSet(q) BY <1>1, <2>1, Spoken DEF Plain
  <2>3. ToSet(<<>>) = {} /\ ToSet(<<"KEYBOARD SEL 0 1">>) = {"KEYBOARD SEL 0 1"} BY Members
  <2> QED BY <1>1, <2>2, <2>3
<1>2. CASE Key = "ret" /\ tap' = TopRow[sel + 1] /\ Silent /\ UNCHANGED <<field, sel>>
  BY <1>2, Hushed DEF TapKey
<1>3. CASE /\ Key = "right" /\ sel' = sel + 1
           /\ Emit(IF sel' = 1 THEN <<"KEYBOARD SEL 0 1">> ELSE <<>>)
           /\ UNCHANGED <<field, tap>>
  BY <1>1, <1>3 DEF MoveKey
<1>4. CASE /\ Key \notin {"ret", "right"} /\ field' = Append(field, Key)
           /\ Silent /\ UNCHANGED <<sel, tap>>
  BY <1>4, Hushed DEF TextKey
<1> QED BY <1>2, <1>3, <1>4 DEF KeyboardKey

LEMMA BootSays ==
  ASSUME SmokeInv, GuestBoots
  PROVE  Said' = Said \cup {"BOOT OK", "FRAMEBUFFER OK", "Hello from Ferric-K!"}
<1> DEFINE banner == <<"BOOT OK", "FRAMEBUFFER OK", "Hello from Ferric-K!">>
<1>1. banner \in Seq(MarkerSet) BY PlainMarkers DEF Plain
<1>2. ToSet(banner) = {"BOOT OK", "FRAMEBUFFER OK", "Hello from Ferric-K!"}
  <2>1. \A a, b, c : ToSet(<<a, b, c>>) = {a, b, c} BY Members
  <2> QED BY <2>1, Zenon
<1>3. Emit(banner) BY DEF GuestBoots
<1> QED BY <1>1, <1>2, <1>3, Spoken

(* The guest only adds to the log, and leaves the driver alone. *)
GuestMoves ==
  /\ UNCHANGED <<arch, status, step, typed, attempts, sending, mishaps>>
  /\ Said \subseteq Said' /\ app' # "boot"

LEMMA GuestActs ==
  ASSUME SmokeInv, GuestBoots \/ GuestFaults \/ ShellKey \/ ApplicationEscape
                     \/ ApplicationKey \/ KeyboardKey \/ ApplicationPass
  PROVE  GuestMoves
<1>1. \A a \in Applications \cup {"shell", "off"} : a # "boot" BY DEF Applications
<1>2. CASE GuestBoots BY <1>2, BootSays DEF GuestMoves, GuestBoots, driver
<1>3. CASE GuestFaults BY <1>3 DEF GuestMoves, GuestFaults, driver, Said
<1>4. CASE ShellKey
  <2>1. UNCHANGED <<arch, status, step, typed, attempts, sending, mishaps>> /\ app = "shell"
    BY <1>4 DEF ShellKey, driver
  <2>2. CASE KeyEnters
    <3>1. (\E a : LineOpens(a)) \/ LineHalts \/ LineReplies BY <2>2, LineDoes DEF KeyEnters
    <3>2. CASE \E a : LineOpens(a) BY <1>1, <2>1, <3>2 DEF LineOpens, Open, GuestMoves
    <3>3. CASE LineHalts BY <2>1, <3>3 DEF LineHalts, GuestMoves
    <3>4. CASE LineReplies BY <2>1, <3>4 DEF LineReplies, GuestMoves
    <3> QED BY <3>1, <3>2, <3>3, <3>4
  <2>3. CASE KeyTypes BY <2>1, <2>3, Hushed DEF KeyTypes, GuestMoves
  <2>4. CASE KeyPasses BY <2>1, <2>4, Hushed DEF KeyPasses, GuestMoves, guest
  <2> QED BY <1>4, <2>2, <2>3, <2>4, ShellKeys
<1>5. CASE ApplicationEscape
  BY <1>5, EscapeSays DEF GuestMoves, ApplicationEscape, driver
<1>6. CASE ApplicationKey
  BY <1>1, <1>6 DEF GuestMoves, ApplicationKey, driver, guest, Said, Applications
<1>7. CASE KeyboardKey
  <2>1. UNCHANGED <<arch, status, step, typed, attempts, sending, mishaps>> /\ app' # "boot"
    BY <1>7 DEF KeyboardKey, driver
  <2>2. Said \subseteq Said' BY <1>7, KeyboardKeys DEF TapKey, MoveKey, TextKey
  <2> QED BY <2>1, <2>2 DEF GuestMoves
<1>8. CASE ApplicationPass
  <2>1. /\ UNCHANGED <<arch, status, step, typed, attempts, sending, mishaps>>
        /\ app' \in Applications
    BY <1>8 DEF ApplicationPass, driver
  <2>2. Said \subseteq Said' BY <1>8, PassShows
  <2> QED BY <1>1, <2>1, <2>2 DEF GuestMoves
<1> QED BY <1>2, <1>3, <1>4, <1>5, <1>6, <1>7, <1>8

(* The driver, and the reader of its log, add nothing to it. *)
DriverMoves == UNCHANGED <<arch, line, out, Said, field, shown, sel, tap, framed>>

LEMMA DriverActs ==
  ASSUME ReaderCopies \/ DriverNext \/ UNCHANGED smokeVars
  PROVE  DriverMoves /\ (app' = app \/ (Deadline /\ app' = "off"))
<1>1. CASE ReaderCopies BY <1>1 DEF ReaderCopies, DriverMoves, guest, Said
<1>2. CASE Connect BY <1>2 DEF Connect, DriverMoves, guest, Said
<1>3. CASE TypeCommand BY <1>3 DEF TypeCommand, DriverMoves, guest, Said
<1>4. CASE Advance BY <1>4 DEF Advance, DriverMoves, guest, Said
<1>5. CASE Retype BY <1>5 DEF Retype, DriverMoves, guest, Said
<1>6. CASE SendKey BY <1>6 DEF SendKey, DriverMoves, guest, Said
<1>7. CASE SendFails BY <1>7 DEF SendFails, DriverMoves, guest, Said
<1>8. CASE NoticeExit BY <1>8 DEF NoticeExit, DriverMoves, guest, Said
<1>9. CASE Deadline
  <2>1. DriverMoves BY <1>9 DEF Deadline, TimedOut, DriverMoves, Said
  <2> QED BY <1>9, <2>1 DEF Deadline
<1>10. CASE UNCHANGED smokeVars BY <1>10 DEF smokeVars, DriverMoves, guest, Said
<1> QED BY <1>1, <1>2, <1>3, <1>4, <1>5, <1>6, <1>7, <1>8, <1>9, <1>10 DEF DriverNext
-----------------------------------------------------------------------------
(* The parts of the invariant that hold whatever is lost.                  *)
LEMMA ShortTypes ==
  ASSUME SmokeInv
  PROVE  /\ Due \in Seq(AllKeys) /\ Due # <<>> /\ Tail(Tail(Due)) = <<>>
         /\ ("halt" \in ToSet(Due) => step = Len(Script))
<1>1. step \in 1..Len(Script) BY DEF SmokeInv
<1>2. Kind(step) BY <1>1, Kinds
<1>3. Due = Script[step].type BY DEF Due
<1>4. ASSUME NEW w \in Words, Due = Command(w)
      PROVE  Due \in Seq(AllKeys) /\ Due # <<>> /\ Tail(Tail(Due)) = <<>>
             /\ ToSet(Due) = {w, "ret"}
  <2>1. "ret" \in AllKeys BY KeysTyped
  <2> QED BY <1>4, <2>1, WordsTyped, KeysTyped
<1>5. ASSUME NEW k \in {"esc", "right", "ret"}, Due = <<k>>
      PROVE  Due \in Seq(AllKeys) /\ Due # <<>> /\ Tail(Tail(Due)) = <<>>
             /\ ToSet(Due) = {k}
  <2>1. k \in AllKeys BY KeysTyped
  <2>2. Tail(<<k>>) = <<>> /\ Tail(<<>>) = <<>> OBVIOUS
  <2> QED BY <1>5, <2>1, <2>2, KeysTyped
<1>6. ASSUME Due = AB
      PROVE  Due \in Seq(AllKeys) /\ Due # <<>> /\ Tail(Tail(Due)) = <<>>
             /\ ToSet(Due) = {"a", "b"}
  <2>1. "b" \in AllKeys BY KeysTyped
  <2> QED BY <1>6, <2>1, KeysTyped
<1>7. CASE \E a : OpeningStep(step, a)
  <2>1. PICK a : OpeningStep(step, a) BY <1>7
  <2>2. a \in Words /\ a # "halt" BY <2>1 DEF OpeningStep, Applications, Words
  <2> QED BY <1>3, <1>4, <2>1, <2>2 DEF OpeningStep
<1>8. CASE \E a : ClosingStep(step, a) BY <1>3, <1>5, <1>8 DEF ClosingStep
<1>9. CASE \E w : AskingStep(step, w)
  <2>1. PICK w : AskingStep(step, w) BY <1>9
  <2>2. w \in Words /\ w # "halt" BY <2>1 DEF AskingStep, Words
  <2> QED BY <1>3, <1>4, <2>1, <2>2 DEF AskingStep
<1>10. CASE HaltingStep(step)
  <2>1. "halt" \in Words BY DEF Words
  <2> QED BY <1>3, <1>4, <1>10, <2>1 DEF HaltingStep
<1>11. CASE TextStep(step) BY <1>3, <1>6, <1>11 DEF TextStep
<1>12. CASE MoveStep(step) BY <1>3, <1>5, <1>12 DEF MoveStep
<1>13. CASE TapStep(step) BY <1>3, <1>5, <1>13 DEF TapStep
<1> QED BY <1>2, <1>7, <1>8, <1>9, <1>10, <1>11, <1>12, <1>13 DEF Kind

LEMMA StillToSend ==
  ASSUME SmokeInv, Basics, typed
  PROVE  Rest(sending, Due) /\ ToSet(sending) \subseteq ToSet(Due)
         /\ (sending # <<>> => Rest(Tail(sending), Due))
<1>1. Rest(sending, Due) BY DEF Basics
<1>2. Due \in Seq(AllKeys) /\ Due # <<>> /\ Tail(Tail(Due)) = <<>> BY ShortTypes
<1>3. ToSet(<<>>) = {} BY Members
<1>4. ToSet(Tail(Due)) \subseteq ToSet(Due) BY <1>2, TailDrops
<1>5. Tail(<<>>) = <<>> OBVIOUS
<1> QED BY <1>1, <1>2, <1>3, <1>4, <1>5 DEF Rest

LEMMA BasicsStep == SmokeInv /\ Basics /\ [SmokeNext]_smokeVars => Basics'
<1> SUFFICES ASSUME SmokeInv, Basics, [SmokeNext]_smokeVars PROVE Basics'
  OBVIOUS
<1>1. SmokeInv' BY SmokeStep
<1>2. sending' \in Seq(AllKeys) /\ sending \in Seq(AllKeys) BY <1>1 DEF SmokeInv
<1>3. CASE \/ GuestBoots \/ GuestFaults \/ ShellKey \/ ApplicationEscape
           \/ ApplicationKey \/ KeyboardKey \/ ApplicationPass
  <2>1. GuestMoves BY <1>3, GuestActs
  <2>2. Script' = Script /\ Due' = Due BY <2>1, Fixed DEF GuestMoves
  <2>3. app # "boot" \/ app' = "off"
          \/ {"BOOT OK", "FRAMEBUFFER OK", "Hello from Ferric-K!"} \subseteq Said'
    <3>1. \A a \in Applications : a # "boot" BY DEF Applications
    <3> QED BY <1>3, <3>1, BootSays
            DEF GuestFaults, ShellKey, ApplicationEscape, ApplicationKey, KeyboardKey,
                ApplicationPass
  <2>4. app # "boot" /\ app # "off" =>
          {"BOOT OK", "FRAMEBUFFER OK", "Hello from Ferric-K!"} \subseteq Said'
    BY <2>1 DEF Basics, Alive, GuestMoves
  <2>5. app = "off" => app' = "off"
    <3>1. \A a \in Applications : a # "off" BY DEF Applications
    <3> QED BY <1>3, <3>1
            DEF GuestBoots, GuestFaults, ShellKey, ApplicationEscape, ApplicationKey,
                KeyboardKey, ApplicationPass
  <2> QED BY <1>2, <2>1, <2>2, <2>3, <2>4, <2>5 DEF Basics, GuestMoves, Rest, Alive
<1>4. CASE \/ ReaderCopies \/ Connect \/ SendFails \/ NoticeExit \/ Deadline
           \/ UNCHANGED smokeVars
  <2>1. /\ UNCHANGED <<arch, step, typed, attempts, sending, keys, line, out>>
        /\ app' = app \/ app' = "off"
    BY <1>4 DEF ReaderCopies, Connect, SendFails, NoticeExit, Deadline, TimedOut,
                smokeVars, driver, guest
  <2>2. Script' = Script /\ Due' = Due BY <2>1, Fixed
  <2> QED BY <1>2, <2>1, <2>2 DEF Basics, Rest, Alive, Said
<1>5. CASE TypeCommand
  <2>1. /\ UNCHANGED <<arch, step, keys, guest, out>> /\ sending' = Due /\ typed' = TRUE
        /\ attempts' = 1 /\ log_has_marker(Script[step].marker)
    BY <1>5 DEF TypeCommand, Due, Awaited
  <2>2. Script' = Script /\ Due' = Due BY <2>1, Fixed
  <2>3. Script[step].marker \in Said BY <2>1, Logged
  <2>4. app # "boot"
    <3>1. ToSet(<<>>) = {} BY Members
    <3> QED BY <2>3, <3>1 DEF SmokeInv, Said
  <2>5. app' = app /\ Said' = Said BY <2>1 DEF guest, Said
  <2>6. attempts' \in Nat /\ attempts' >= 1 BY <2>1
  <2>7. Rest(sending', Due') BY <2>1, <2>2 DEF Rest
  <2>8. Alive' /\ app' # "boot" =>
          {"BOOT OK", "FRAMEBUFFER OK", "Hello from Ferric-K!"} \subseteq Said'
    BY <2>5 DEF Basics, Alive
  <2>9. Script'[step'].marker \in Said' BY <2>1, <2>2, <2>3, <2>5
  <2> QED BY <1>2, <2>1, <2>4, <2>5, <2>6, <2>7, <2>8, <2>9 DEF Basics
<1>6. CASE Advance
  <2>1. /\ UNCHANGED <<arch, keys, guest, out, sending>> /\ step' = step + 1
        /\ typed' = FALSE /\ typed /\ sending = <<>>
        /\ attempts' = 0 /\ log_has_marker(Script[step + 1].marker)
    BY <1>6 DEF Advance, Answered, Polling
  <2>2. Script' = Script BY <2>1, Fixed
  <2>3. Script'[step'].marker \in Said' BY <2>1, <2>2, Logged DEF Said
  <2>4. app # "boot" /\ app' = app /\ Said' = Said BY <2>1 DEF Basics, guest, Said
  <2>5. attempts' \in Nat /\ sending' = <<>> /\ ~typed' BY <2>1
  <2>6. Alive' /\ app' # "boot" =>
          {"BOOT OK", "FRAMEBUFFER OK", "Hello from Ferric-K!"} \subseteq Said'
    BY <2>4 DEF Basics, Alive
  <2> QED BY <1>2, <2>3, <2>4, <2>5, <2>6 DEF Basics
<1>7. CASE Retype
  <2>1. /\ UNCHANGED <<arch, step, typed, keys, guest, out>> /\ typed /\ sending' = Due
        /\ attempts' = attempts + 1
    BY <1>7 DEF Retype, Due
  <2>2. Script' = Script /\ Due' = Due BY <2>1, Fixed
  <2>3. attempts' \in Nat /\ attempts' >= 1
    <3>1. attempts \in Nat BY DEF Basics
    <3>2. attempts' = attempts + 1 BY <2>1
    <3> QED BY ONLY <3>1, <3>2
  <2> QED BY <1>2, <2>1, <2>2, <2>3 DEF Basics, Rest, Alive, Said, guest
<1>8. CASE SendKey
  <2>1. /\ UNCHANGED <<arch, step, typed, attempts, guest, out>>
        /\ sending # <<>> /\ sending' = Tail(sending)
    BY <1>8 DEF SendKey
  <2>2. Script' = Script /\ Due' = Due BY <2>1, Fixed
  <2>3. typed BY <2>1 DEF Basics
  <2>4. Rest(sending', Due) BY <2>1, <2>3, StillToSend
  <2>5. app # "boot" BY <2>3 DEF Basics
  <2> QED BY <1>2, <2>1, <2>2, <2>3, <2>4, <2>5 DEF Basics, Rest, Alive, Said, guest
<1> QED BY <1>3, <1>4, <1>5, <1>6, <1>7, <1>8 DEF SmokeNext, GuestNext, DriverNext

LEMMA NoFrameMarkers ==
  \A a \in Applications :
    /\ \A m \in Replies \cup Taps \cup {"HALT", "BOOT OK", "FRAMEBUFFER OK",
                                        "Hello from Ferric-K!"} :
         m # FrameMarker(a) /\ m # ExitMarker(a)
    /\ \A b \in Applications : FrameMarker(a) # ExitMarker(b)
                               /\ (FrameMarker(a) = FrameMarker(b) => a = b)
                               /\ (ExitMarker(a) = ExitMarker(b) => a = b)
<1>1. ASSUME NEW a \in Applications, NEW m \in Replies \cup Taps \cup {"HALT", "BOOT OK",
                  "FRAMEBUFFER OK", "Hello from Ferric-K!"}
      PROVE  m # FrameMarker(a) /\ m # ExitMarker(a)
  BY DEF Applications, Replies, Taps, FrameMarker, ExitMarker
<1>2. ASSUME NEW a \in Applications, NEW b \in Applications
      PROVE  FrameMarker(a) # ExitMarker(b) /\ (FrameMarker(a) = FrameMarker(b) => a = b)
             /\ (ExitMarker(a) = ExitMarker(b) => a = b)
  BY DEF Applications, FrameMarker, ExitMarker
<1> QED BY <1>1, <1>2

LEMMA NoTaps ==
  \A m \in Taps : m \notin Replies \cup {"HALT", "BOOT OK", "FRAMEBUFFER OK",
                                         "Hello from Ferric-K!"}
BY DEF Taps, Replies

FramesTold(r, shows, told) ==
  /\ \A a \in Applications :
       /\ r = a /\ shows => FrameMarker(a) \in told
       /\ FrameMarker(a) \in told => r \in {a, "off"} \/ ExitMarker(a) \in told
  /\ \A m \in Taps : m \in told => r \in {"keyboard", "off"} \/ ExitMarker("keyboard") \in told

Blank(r, f, s, t) == r \in {"gui", "monitor"} => f = <<>> /\ s = <<>> /\ t = None

LEMMA FramesAre == Frames <=> FramesTold(app, framed, Said) /\ Blank(app, field, shown, tap)
BY DEF Frames, FramesTold, Blank

LEMMA FramesAfter ==
  ASSUME FramesTold(app', framed', Said'), Blank(app', field', shown', tap')
  PROVE  Frames'
BY DEF Frames, FramesTold, Blank

LEMMA FramesStep == SmokeInv /\ Basics /\ Frames /\ [SmokeNext]_smokeVars => Frames'
<1> SUFFICES ASSUME SmokeInv, Basics, Frames, [SmokeNext]_smokeVars PROVE Frames'
  OBVIOUS
<1>0. FramesTold(app, framed, Said) /\ Blank(app, field, shown, tap) BY FramesAre
<1>1. /\ "keyboard" \in Applications /\ "boot" \notin Applications
      /\ "shell" \notin Applications /\ "off" \notin Applications
      /\ \A a \in Applications : a = "keyboard" \/ a \in {"gui", "monitor"}
  BY DEF Applications
<1>2. CASE GuestBoots
  <2>1. app = "boot" /\ app' = "shell" BY <1>2 DEF GuestBoots
  <2>2. Said' = Said \cup {"BOOT OK", "FRAMEBUFFER OK", "Hello from Ferric-K!"}
    BY <1>2, BootSays
  <2>3. FramesTold(app', framed', Said')
    BY <1>0, <1>1, <2>1, <2>2, NoFrameMarkers, NoTaps DEF FramesTold
  <2>4. Blank(app', field', shown', tap') BY <2>1 DEF Blank
  <2> QED BY <2>3, <2>4, FramesAfter
<1>3. CASE GuestFaults
  <2>1. app' = "off" BY <1>3 DEF GuestFaults
  <2>3. FramesTold(app', framed', Said') BY <1>1, <2>1 DEF FramesTold
  <2>4. Blank(app', field', shown', tap') BY <2>1 DEF Blank
  <2> QED BY <2>3, <2>4, FramesAfter
<1>4. CASE ShellKey
  <2>1. app = "shell" BY <1>4 DEF ShellKey
  <2>2. CASE KeyEnters
    <3>1. (\E a : LineOpens(a)) \/ LineHalts \/ LineReplies BY <2>2, LineDoes DEF KeyEnters
    <3>2. CASE \E a : LineOpens(a)
      <4>1. PICK a : LineOpens(a) BY <3>2
      <4>2. app' = a /\ framed' = FALSE /\ Said' = Said /\ field' = <<>> /\ shown' = <<>>
            /\ tap' = None /\ a \in Applications
        BY <4>1 DEF LineOpens, Open
      <4>3. FramesTold(app', framed', Said') BY <1>0, <1>1, <2>1, <4>2 DEF FramesTold
      <4>4. Blank(app', field', shown', tap') BY <4>2 DEF Blank
      <4> QED BY <4>3, <4>4, FramesAfter
    <3>3. CASE LineHalts
      <4>1. app' = "off" BY <3>3 DEF LineHalts
      <4>3. FramesTold(app', framed', Said') BY <1>1, <4>1 DEF FramesTold
      <4>4. Blank(app', field', shown', tap') BY <4>1 DEF Blank
      <4> QED BY <4>3, <4>4, FramesAfter
    <3>4. CASE LineReplies
      <4>1. /\ app' = "shell" /\ Said \subseteq Said'
            /\ Said' \subseteq Said \cup Replies
        BY <2>1, <3>4 DEF LineReplies
      <4>2. FramesTold(app', framed', Said')
        BY <1>0, <1>1, <2>1, <4>1, NoFrameMarkers, NoTaps DEF FramesTold
      <4>3. Blank(app', field', shown', tap') BY <4>1 DEF Blank
      <4> QED BY <4>2, <4>3, FramesAfter
    <3> QED BY <3>1, <3>2, <3>3, <3>4
  <2>3. CASE KeyTypes \/ KeyPasses
    <3>1. UNCHANGED <<app, framed, field, shown, tap>> /\ Said' = Said
      BY <2>3, Hushed DEF KeyTypes, KeyPasses, guest
    <3> QED BY <1>0, <3>1, FramesAfter
  <2> QED BY <1>4, <2>2, <2>3, ShellKeys
<1>5. CASE ApplicationEscape
  <2>1. app \in Applications /\ app' = "shell" BY <1>5 DEF ApplicationEscape
  <2>2. Said' = Said \cup {ExitMarker(app)} BY <1>5, EscapeSays
  <2>3. \A m \in Taps : m # ExitMarker(app) BY <2>1, NoFrameMarkers
  <2>4. FramesTold(app', framed', Said')
    BY <1>0, <1>1, <2>1, <2>2, <2>3, NoFrameMarkers DEF FramesTold
  <2>5. Blank(app', field', shown', tap') BY <2>1 DEF Blank
  <2> QED BY <2>4, <2>5, FramesAfter
<1>6. CASE ApplicationKey
  <2>1. UNCHANGED <<app, framed, field, shown, tap>> /\ Said' = Said
    BY <1>6 DEF ApplicationKey, guest, Said
  <2> QED BY <1>0, <2>1, FramesAfter
<1>7. CASE KeyboardKey
  <2>1. app = "keyboard" /\ app' = app /\ framed' = framed BY <1>7 DEF KeyboardKey
  <2>2. Said' = Said \/ Said' = Said \cup {"KEYBOARD SEL 0 1"}
    BY <1>7, KeyboardKeys DEF TapKey, MoveKey, TextKey
  <2>3. "KEYBOARD SEL 0 1" \in Taps BY DEF Taps
  <2>4. FramesTold(app', framed', Said')
    BY <1>0, <2>1, <2>2, <2>3, NoFrameMarkers DEF FramesTold
  <2>5. Blank(app', field', shown', tap') BY <2>1 DEF Blank
  <2> QED BY <2>4, <2>5, FramesAfter
<1>8. CASE ApplicationPass
  <2>1. /\ app \in Applications /\ app' = app /\ framed' = TRUE
        /\ field' = (IF tap = None THEN field ELSE Append(field, tap))
        /\ tap' = None /\ shown' = field'
    BY <1>8 DEF ApplicationPass
  <2>2. /\ Said' = Said \cup ToSet(PassText)
                     \cup (IF framed THEN {} ELSE {FrameMarker(app)})
        /\ ToSet(PassText) \subseteq {"KEYBOARD TEXT ab", "KEYBOARD TEXT ab1"}
        /\ Plain(PassText)
    BY <1>8, PassShows
  <2>3. CASE app = "keyboard"
    <3>1. \A b \in Applications : FrameMarker(b) \notin ToSet(PassText)
      BY <2>2 DEF Plain
    <3>2. \A b \in Applications : FrameMarker(b) = FrameMarker("keyboard") => b = "keyboard"
      BY <1>1, NoFrameMarkers
    <3>3. FramesTold(app', framed', Said')
      <4>1. ASSUME NEW b \in Applications
            PROVE  /\ app' = b /\ framed' => FrameMarker(b) \in Said'
                   /\ FrameMarker(b) \in Said' =>
                        app' \in {b, "off"} \/ ExitMarker(b) \in Said'
        BY <1>0, <2>1, <2>2, <2>3, <3>1, <3>2 DEF FramesTold
      <4> QED BY <2>1, <2>3, <4>1 DEF FramesTold
    <3>4. Blank(app', field', shown', tap') BY <2>1, <2>3 DEF Blank
    <3> QED BY <3>3, <3>4, FramesAfter
  <2>4. CASE app # "keyboard"
    <3>1. field = <<>> /\ shown = <<>> /\ tap = None BY <1>0, <1>1, <2>1, <2>4 DEF Blank
    <3>2. field' = <<>> /\ PassText = <<>> BY <2>1, <3>1 DEF PassText
    <3>3. ToSet(PassText) = {} BY <3>2, Members
    <3>4. \A b \in Applications : FrameMarker(b) = FrameMarker(app) => b = app
      BY <2>1, NoFrameMarkers
    <3>5. \A m \in Taps : m # FrameMarker(app) BY <2>1, NoFrameMarkers
    <3>6. FramesTold(app', framed', Said')
      BY <1>0, <2>1, <2>2, <3>3, <3>4, <3>5 DEF FramesTold
    <3>7. Blank(app', field', shown', tap') BY <2>1, <3>2 DEF Blank
    <3> QED BY <3>6, <3>7, FramesAfter
  <2> QED BY <2>3, <2>4
<1>9. CASE ReaderCopies \/ DriverNext \/ UNCHANGED smokeVars
  <2>1. DriverMoves /\ (app' = app \/ app' = "off") BY <1>9, DriverActs
  <2>2. UNCHANGED <<framed, field, shown>> /\ Said' = Said
    BY <2>1 DEF DriverMoves
  <2>3. tap' = tap
    BY <1>9 DEF ReaderCopies, DriverNext, Connect, TypeCommand, Advance, Retype, SendKey,
                SendFails, NoticeExit, Deadline, TimedOut, smokeVars, guest
  <2>4. FramesTold(app', framed', Said') BY <1>0, <1>1, <2>1, <2>2 DEF FramesTold
  <2>5. Blank(app', field', shown', tap') BY <1>0, <2>1, <2>2, <2>3 DEF Blank
  <2> QED BY <2>4, <2>5, FramesAfter
<1> QED BY <1>2, <1>3, <1>4, <1>5, <1>6, <1>7, <1>8, <1>9 DEF SmokeNext, GuestNext
(* The guest reads what was sent, and nothing else. *)
LEMMA KeyRead ==
  ASSUME SmokeInv, Arrives
  PROVE  /\ keys \in Seq(AllKeys) /\ keys # <<>> /\ keys' = Tail(keys)
         /\ Key = Head(keys) /\ keys' \in Seq(AllKeys) /\ Key \in AllKeys
         /\ Dropped(keys', keys, 1) /\ keys[1] = Key
         /\ ToSet(keys) = {Key} \cup ToSet(keys')
<1>1. keys \in Seq(AllKeys) /\ keys # <<>> /\ keys' = Tail(keys) /\ Key = Head(keys)
  BY DEF SmokeInv, Arrives, Key
<1> QED BY <1>1, TailDrops

LEMMA GuestReads ==
  ASSUME SmokeInv, GuestBoots \/ GuestFaults \/ ShellKey \/ ApplicationEscape
                     \/ ApplicationKey \/ KeyboardKey \/ ApplicationPass
  PROVE  /\ Alive
         /\ ToSet(keys') \subseteq ToSet(keys)
         /\ ToSet(line') \subseteq ToSet(line) \cup ToSet(keys)
<1>1. Alive
  <2>1. \A a \in Applications : a # "off" BY DEF Applications
  <2> QED BY <2>1 DEF GuestBoots, GuestFaults, ShellKey, ApplicationEscape, ApplicationKey,
                      KeyboardKey, ApplicationPass, Alive
<1>2. CASE GuestBoots \/ GuestFaults \/ ApplicationPass
  BY <1>1, <1>2 DEF GuestBoots, GuestFaults, ApplicationPass
<1>3. CASE ApplicationEscape \/ ApplicationKey \/ KeyboardKey
  <2>1. Arrives /\ line' = line
    BY <1>3 DEF ApplicationEscape, ApplicationKey, KeyboardKey, guest
  <2> QED BY <1>1, <2>1, KeyRead
<1>4. CASE ShellKey
  <2>1. Arrives BY <1>4 DEF ShellKey
  <2>2. ToSet(keys') \subseteq ToSet(keys) /\ Key \in ToSet(keys) /\ Key \in AllKeys
    BY <2>1, KeyRead
  <2>3. CASE KeyEnters
    <3>1. line' = <<>> BY <2>3, LineDoes DEF KeyEnters
    <3>2. ToSet(<<>>) = {} BY Members
    <3> QED BY <1>1, <2>2, <3>1, <3>2
  <2>4. CASE KeyTypes
    <3>1. line \in Seq(AllKeys) /\ line' = Append(line, Key) BY <2>4 DEF KeyTypes, SmokeInv
    <3>2. ToSet(line') = ToSet(line) \cup {Key} BY <2>2, <3>1, Grows
    <3> QED BY <1>1, <2>2, <3>2
  <2>5. CASE KeyPasses
    <3>1. line' = line BY <2>5 DEF KeyPasses, guest
    <3> QED BY <1>1, <2>2, <3>1
  <2> QED BY <1>4, <2>3, <2>4, <2>5, ShellKeys
<1> QED BY <1>2, <1>3, <1>4

(* A key that is sent arrives, or leaves at most a garbled word. *)
Sends == keys' = Append(keys, Head(sending)) /\ UNCHANGED mishaps
Loses ==
  /\ keys' = IF Head(sending) \in Words THEN Append(keys, Garbled) ELSE keys
  /\ mishaps' = mishaps \cup {<<"lost", step, Len(sending) + 10 * attempts>>}

LEMMA KeySent ==
  ASSUME SmokeInv, SendKey
  PROVE  /\ Sends \/ Loses
         /\ sending \in Seq(AllKeys) /\ sending # <<>> /\ Head(sending) \in AllKeys
         /\ sending' = Tail(sending) /\ keys \in Seq(AllKeys) /\ keys' \in Seq(AllKeys)
         /\ ToSet(sending) = {Head(sending)} \cup ToSet(Tail(sending))
         /\ UNCHANGED <<arch, status, step, typed, attempts, guest, out, logged, code>>
         /\ typed /\ Driving /\ Alive
         /\ ToSet(keys') \subseteq ToSet(keys) \cup {Head(sending), Garbled}
<1>1. /\ sending \in Seq(AllKeys) /\ sending # <<>> /\ sending' = Tail(sending)
      /\ keys \in Seq(AllKeys) /\ typed
      /\ UNCHANGED <<arch, status, step, typed, attempts, guest, out, logged, code>>
      /\ Driving /\ Alive
  BY DEF SmokeInv, SendKey
<1>2. /\ Head(sending) \in AllKeys
      /\ ToSet(sending) = {Head(sending)} \cup ToSet(Tail(sending))
  BY <1>1, TailDrops
<1>3. Garbled \in AllKeys BY KeysTyped
<1>4. /\ keys \o <<>> = keys /\ keys \o <<Garbled>> = Append(keys, Garbled)
  BY <1>1, <1>3
<1>5. Sends \/ Loses BY <1>4 DEF SendKey, Sends, Loses, Lost
<1>6. /\ keys' \in Seq(AllKeys)
      /\ ToSet(keys') \subseteq ToSet(keys) \cup {Head(sending), Garbled}
  <2>1. keys' = keys \/ \E k \in {Head(sending), Garbled} : keys' = Append(keys, k)
    BY <1>5 DEF Sends, Loses
  <2>2. ASSUME NEW k \in {Head(sending), Garbled}, keys' = Append(keys, k)
        PROVE  /\ keys' \in Seq(AllKeys)
               /\ ToSet(keys') \subseteq ToSet(keys) \cup {Head(sending), Garbled}
    <3>1. k \in AllKeys BY <1>2, <1>3
    <3>2. Append(keys, k) \in Seq(AllKeys) /\ ToSet(Append(keys, k)) = ToSet(keys) \cup {k}
      BY <1>1, <3>1, Grows
    <3> QED BY <2>2, <3>2
  <2> QED BY <1>1, <2>1, <2>2
<1> QED BY <1>1, <1>2, <1>5, <1>6

NoHalt(q) == "halt" \notin ToSet(q)

LEMMA HaltIsLast ==
  ASSUME Known, HaltLast, line = <<"halt">>, app = "shell"
  PROVE  SmokeMarkers \subseteq Said \cup {"HALT"}
<1>1. /\ step \in Nat /\ step >= 1 /\ step <= Len(Script) /\ Len(Script) \in {11, 13}
      /\ \A i \in 1..step : i > 1 \/ typed => Script[i].marker \in Said
  BY Heard
<1>2. ToSet(line) = {"halt"} /\ Alive BY Members DEF Alive
<1>3. ~(step < Len(Script)) BY <1>2 DEF HaltLast
<1>4. step = Len(Script) /\ step > 1
  <2>1. \A n : n \in {11, 13} /\ step <= n /\ ~(step < n) => step = n /\ step > 1
    BY <1>1
  <2> QED BY <1>1, <1>3, <2>1
<1>5. \A i \in 1..step : Script[i].marker \in Said
  <2>1. \A i \in 1..step - 1 : Script[i].marker \in Said BY DEF Known, SmokeInv, Said
  <2>2. 1 \in 1..step - 1 BY <1>1, <1>4
  <2>3. Script[1].marker \in Said BY <2>1, <2>2
  <2>4. \A i \in 1..step : i = 1 \/ i > 1 OBVIOUS
  <2> QED BY <1>1, <2>3, <2>4
<1>6. {"BOOT OK", "FRAMEBUFFER OK"} \subseteq Said
  BY <1>2 DEF Known, Basics
<1> QED BY <1>4, <1>5, <1>6 DEF SmokeMarkers

LEMMA HaltLastStep == Known /\ HaltLast /\ [SmokeNext]_smokeVars => HaltLast'
<1> SUFFICES ASSUME Known, HaltLast, [SmokeNext]_smokeVars PROVE HaltLast'
  OBVIOUS
<1>0. SmokeInv /\ Basics BY DEF Known
<1>1. step < Len(Script) /\ Alive => NoHalt(line) /\ NoHalt(keys) /\ NoHalt(sending)
  BY DEF HaltLast, NoHalt
<1>2. SUFFICES /\ step' < Len(Script') /\ Alive' =>
                    NoHalt(line') /\ NoHalt(keys') /\ NoHalt(sending')
               /\ code' = "halt" => SmokeMarkers' \subseteq Said'
  BY DEF HaltLast, NoHalt
<1>3. code = "halt" => SmokeMarkers \subseteq Said BY DEF HaltLast
<1>4. CASE \/ GuestBoots \/ GuestFaults \/ ShellKey \/ ApplicationEscape
           \/ ApplicationKey \/ KeyboardKey \/ ApplicationPass
  <2>1. GuestMoves BY <1>0, <1>4, GuestActs
  <2>2. Script' = Script /\ SmokeMarkers' = SmokeMarkers /\ Said \subseteq Said'
        /\ step' = step /\ sending' = sending
    BY <2>1, Fixed DEF GuestMoves
  <2>3. Alive /\ ToSet(keys') \subseteq ToSet(keys)
        /\ ToSet(line') \subseteq ToSet(line) \cup ToSet(keys)
    BY <1>0, <1>4, GuestReads
  <2>4. step' < Len(Script') => NoHalt(line') /\ NoHalt(keys') /\ NoHalt(sending')
    BY <1>1, <2>2, <2>3 DEF NoHalt
  <2>5. ASSUME code' = "halt", code # "halt" PROVE SmokeMarkers \subseteq Said'
    <3>1. ShellKey
      BY <1>4, <2>5 DEF GuestBoots, GuestFaults, ApplicationEscape, ApplicationKey,
                        KeyboardKey, ApplicationPass
    <3>2. app = "shell" BY <3>1 DEF ShellKey
    <3>3. KeyEnters BY <2>5, <3>1, ShellKeys DEF KeyTypes, KeyPasses
    <3>4. LineHalts
      BY <1>0, <2>5, <3>3, LineDoes DEF KeyEnters, LineOpens, LineReplies
    <3>5. SmokeMarkers \subseteq Said \cup {"HALT"} BY <3>2, <3>4, HaltIsLast DEF LineHalts
    <3> QED BY <3>4, <3>5 DEF LineHalts
  <2> QED BY <1>3, <2>2, <2>4, <2>5
<1>5. CASE ReaderCopies \/ DriverNext \/ UNCHANGED smokeVars
  <2>1. DriverMoves /\ (app' = app \/ app' = "off") BY <1>5, DriverActs
  <2>2. Script' = Script /\ SmokeMarkers' = SmokeMarkers /\ Said' = Said /\ line' = line
    BY <2>1, Fixed DEF DriverMoves
  <2>3. Alive' => Alive BY <2>1 DEF Alive
  <2>4. code' = code \/ code' = "killed"
    BY <1>5 DEF ReaderCopies, DriverNext, Connect, TypeCommand, Advance, Retype, SendKey,
                SendFails, NoticeExit, Deadline, smokeVars
  <2>5. \/ step' = step /\ sending' = sending /\ keys' = keys
        \/ Advance \/ TypeCommand \/ Retype \/ SendKey
    BY <1>5 DEF ReaderCopies, DriverNext, Connect, SendFails, NoticeExit, Deadline,
                TimedOut, smokeVars, driver
  <2>6. step \in 1..Len(Script) /\ Len(Script) \in {11, 13}
    BY <1>0, ScriptSteps DEF SmokeInv
  <2>7. ASSUME step' < Len(Script), Alive'
        PROVE  NoHalt(line') /\ NoHalt(keys') /\ NoHalt(sending')
    <3>1. CASE step' = step /\ sending' = sending /\ keys' = keys
      BY <1>1, <2>2, <2>3, <2>7, <3>1
    <3>2. CASE Advance
      <4>1. step' = step + 1 /\ sending' = sending /\ keys' = keys BY <3>2 DEF Advance
      <4>2. step < Len(Script)
        <5>1. \A n : n \in {11, 13} /\ step \in 1..n /\ step + 1 < n => step < n OBVIOUS
        <5> QED BY <2>6, <2>7, <4>1, <5>1
      <4> QED BY <1>1, <2>2, <2>3, <2>7, <4>1, <4>2
    <3>3. CASE TypeCommand \/ Retype
      <4>1. step' = step /\ sending' = Due /\ keys' = keys
        BY <3>3 DEF TypeCommand, Retype, Due
      <4>2. step # Len(Script)
        <5>1. \A n : n \in {11, 13} /\ step < n => step # n BY <2>6
        <5> QED BY <2>6, <2>7, <4>1, <5>1
      <4>3. NoHalt(Due) BY <1>0, <4>2, ShortTypes DEF NoHalt
      <4> QED BY <1>1, <2>2, <2>3, <2>7, <4>1, <4>3
    <3>4. CASE SendKey
      <4>1. /\ step' = step /\ sending' = Tail(sending)
            /\ ToSet(sending) = {Head(sending)} \cup ToSet(Tail(sending))
            /\ ToSet(keys') \subseteq ToSet(keys) \cup {Head(sending), Garbled}
        BY <1>0, <3>4, KeySent
      <4>2. Garbled # "halt" BY DEF Garbled
      <4> QED BY <1>1, <2>2, <2>3, <2>7, <4>1, <4>2 DEF NoHalt
    <3> QED BY <2>5, <3>1, <3>2, <3>3, <3>4
  <2> QED BY <1>3, <2>2, <2>4, <2>7
<1> QED BY <1>4, <1>5 DEF SmokeNext, GuestNext
-----------------------------------------------------------------------------
(* Lost keys are counted. *)
LEMMA Dating ==
  ASSUME NEW m, NEW i \in Nat, NEW n \in Nat
  PROVE  /\ \A l, k : Dated(m, i, FALSE, n, l) => Dated(m, i, TRUE, 1, k)
         /\ \A t, l : Dated(m, i, t, n, l) => Dated(m, i + 1, FALSE, 0, 0)
         /\ \A l \in Nat, k \in Nat : Dated(m, i, TRUE, n, l) => Dated(m, i, TRUE, n + 1, k)
         /\ \A l, k \in Nat : k <= l /\ Dated(m, i, TRUE, n, l) => Dated(m, i, TRUE, n, k)
<1>1. \A l, k : Dated(m, i, FALSE, n, l) => Dated(m, i, TRUE, 1, k) BY DEF Dated
<1>2. \A t, l : Dated(m, i, t, n, l) => Dated(m, i + 1, FALSE, 0, 0) BY DEF Dated
<1>3. \A l \in Nat, k \in Nat : Dated(m, i, TRUE, n, l) => Dated(m, i, TRUE, n + 1, k)
  BY DEF Dated
<1>4. \A l, k \in Nat : k <= l /\ Dated(m, i, TRUE, n, l) => Dated(m, i, TRUE, n, k)
  BY DEF Dated
<1> QED BY <1>1, <1>2, <1>3, <1>4

LEMMA DatedNow ==
  ASSUME NEW i \in Nat, i >= 1, NEW n \in Nat, NEW l \in 1..2, NEW m,
         m[2] = i, m[3] = l + 10 * n
  PROVE  Dated(m, i, TRUE, n, l - 1) /\ ~Dated(m, i, TRUE, n, l)
BY DEF Dated

LEMMA ShortSend ==
  ASSUME SmokeInv, Basics
  PROVE  /\ Len(sending) \in 0..2 /\ (sending # <<>> => Len(Tail(sending)) = Len(sending) - 1)
         /\ (sending = <<>> <=> Len(sending) = 0) /\ Len(Due) \in Nat
<1>1. sending \in Seq(AllKeys) BY DEF SmokeInv
<1>2. /\ Len(sending) \in Nat /\ (sending = <<>> <=> Len(sending) = 0)
      /\ (sending # <<>> => Len(Tail(sending)) = Len(sending) - 1)
  BY <1>1, HeadTailProperties
<1>3. Due \in Seq(AllKeys) /\ Due # <<>> /\ Tail(Tail(Due)) = <<>> BY ShortTypes
<1>4. Len(Due) \in 0..2 /\ Len(Tail(Due)) \in 0..2
  <2>1. /\ Tail(Due) \in Seq(AllKeys) /\ Len(Tail(Due)) = Len(Due) - 1
        /\ Len(Due) \in Nat /\ Len(Due) >= 1
    BY <1>3, HeadTailProperties
  <2>0. Len(<<>>) = 0 OBVIOUS
  <2>2. CASE Tail(Due) = <<>>
    <3>1. Len(Tail(Due)) = 0 BY <2>0, <2>2
    <3>2. \A x, y : x \in Nat /\ y = x - 1 /\ y = 0 => x \in 0..2 /\ y \in 0..2 OBVIOUS
    <3> QED BY <2>1, <3>1, <3>2
  <2>3. CASE Tail(Due) # <<>>
    <3>1. Len(Tail(Tail(Due))) = Len(Tail(Due)) - 1 BY <2>1, <2>3, HeadTailProperties
    <3>2. Len(Tail(Tail(Due))) = 0 BY <1>3, <2>0
    <3>3. Len(Tail(Due)) \in Nat BY <2>1
    <3> QED BY ONLY <2>1, <3>1, <3>2, <3>3
  <2> QED BY <2>2, <2>3
<1>5. Len(sending) \in 0..2
  <2>1. sending = <<>> \/ sending = Due \/ sending = Tail(Due) BY DEF Basics, Rest
  <2>2. CASE sending = <<>>
    <3>1. Len(sending) = 0 BY <1>2, <2>2
    <3> QED BY ONLY <3>1
  <2>3. CASE sending = Due BY <1>4, <2>3
  <2>4. CASE sending = Tail(Due) BY <1>4, <2>4
  <2> QED BY <2>1, <2>2, <2>3, <2>4
<1> QED BY <1>2, <1>4, <1>5

LostNow == <<"lost", step, Len(sending) + 10 * attempts>>

LEMMA LossIsNew ==
  ASSUME SmokeInv, Basics, Fresh, SendKey, Loses
  PROVE  /\ Mishaps("lost")' = Mishaps("lost") \cup {LostNow}
         /\ LostNow \notin Mishaps("lost")
         /\ Dated(LostNow, step, TRUE, attempts, Len(Tail(sending)))
<1>1. /\ LostNow[1] = "lost" /\ LostNow[2] = step
      /\ LostNow[3] = Len(sending) + 10 * attempts
  BY DEF LostNow
<1>2. mishaps' = mishaps \cup {LostNow} BY DEF Loses, LostNow
<1>3. Mishaps("lost")' = Mishaps("lost") \cup {LostNow} BY <1>1, <1>2 DEF Mishaps
<1>4. /\ Len(sending) \in 0..2 /\ sending # <<>> /\ typed /\ typed \in BOOLEAN
      /\ (sending # <<>> => Len(Tail(sending)) = Len(sending) - 1)
      /\ (sending = <<>> <=> Len(sending) = 0) /\ attempts \in Nat
  BY ShortSend, KeySent DEF Basics, SmokeInv
<1>5. Len(sending) \in 1..2 /\ Len(Tail(sending)) = Len(sending) - 1 BY <1>4
<1>6. step \in Nat /\ step >= 1 BY ScriptSteps DEF SmokeInv
<1>7. /\ Dated(LostNow, step, TRUE, attempts, Len(sending) - 1)
      /\ ~Dated(LostNow, step, TRUE, attempts, Len(sending))
  BY <1>1, <1>4, <1>5, <1>6, DatedNow
<1>8. typed = TRUE BY <1>4
<1>9. LostNow \notin Mishaps("lost") BY <1>7, <1>8 DEF Fresh
<1> QED BY <1>3, <1>5, <1>7, <1>9

LEMMA LossCounts ==
  ASSUME SmokeInv, Basics, Fresh, SendKey, Loses
  PROVE  /\ Missed'
         /\ Missed => Cardinality(Mishaps("lost")') > 1
<1>1. /\ Mishaps("lost")' = Mishaps("lost") \cup {LostNow}
      /\ LostNow \notin Mishaps("lost")
  BY LossIsNew
<1> DEFINE S == Mishaps("lost")
<1>2. IsFiniteSet(S) BY FS_Subset DEF Fresh, Mishaps
<1> HIDE DEF S
<1>3. Missed' BY <1>1 DEF Missed
<1>4. ASSUME S # {} PROVE Cardinality(S \cup {LostNow}) > 1
  <2>1. Cardinality(S \cup {LostNow}) = Cardinality(S) + 1
    BY <1>1, <1>2, FS_AddElement DEF S
  <2>2. Cardinality(S) \in Nat /\ Cardinality(S) # 0 BY <1>2, <1>4, FS_EmptySet, FS_CardinalityType
  <2> QED BY <2>1, <2>2
<1> QED BY <1>1, <1>3, <1>4 DEF Missed, S

LEMMA FreshStep == SmokeInv /\ Basics /\ Fresh /\ [SmokeNext]_smokeVars => Fresh'
<1> SUFFICES ASSUME SmokeInv, Basics, Fresh, [SmokeNext]_smokeVars PROVE Fresh'
  OBVIOUS
<1>0. step \in Nat /\ step >= 1 /\ attempts \in Nat /\ Len(sending) \in Nat
      /\ Len(Due) \in Nat /\ typed \in BOOLEAN
  <2>1. step \in 1..Len(Script) /\ typed \in BOOLEAN BY DEF SmokeInv
  <2>2. attempts \in Nat BY DEF Basics
  <2>3. Len(sending) \in 0..2 /\ Len(Due) \in Nat BY ShortSend
  <2> QED BY ONLY <2>1, <2>2, <2>3
<1>1. /\ IsFiniteSet(mishaps)
      /\ \A m \in Mishaps("lost") : Dated(m, step, typed, attempts, Len(sending))
  BY DEF Fresh
<1>2. CASE UNCHANGED <<step, typed, attempts, sending, mishaps>>
  BY <1>1, <1>2 DEF Fresh, Mishaps
<1>3. CASE TypeCommand
  <2>1. /\ ~typed /\ typed' = TRUE /\ attempts' = 1 /\ step' = step /\ mishaps' = mishaps
    BY <1>3 DEF TypeCommand
  <2>2. typed = FALSE /\ Mishaps("lost")' = Mishaps("lost") BY <1>0, <2>1 DEF Mishaps
  <2>3. \A m \in Mishaps("lost") : Dated(m, step, TRUE, 1, Len(sending'))
    BY <1>0, <1>1, <2>2, Dating
  <2> QED BY <1>1, <2>1, <2>2, <2>3 DEF Fresh
<1>4. CASE Advance
  <2>1. /\ typed' = FALSE /\ attempts' = 0 /\ step' = step + 1 /\ mishaps' = mishaps
        /\ sending' = <<>>
    BY <1>4 DEF Advance, Polling
  <2>2. Mishaps("lost")' = Mishaps("lost") /\ Len(sending') = 0 BY <2>1 DEF Mishaps
  <2>3. \A m \in Mishaps("lost") : Dated(m, step + 1, FALSE, 0, 0)
    BY <1>0, <1>1, Dating
  <2> QED BY <1>1, <2>1, <2>2, <2>3 DEF Fresh
<1>5. CASE Retype
  <2>1. /\ typed /\ typed' = typed /\ attempts' = attempts + 1 /\ step' = step
        /\ sending' = Due
        /\ mishaps' = mishaps \/ mishaps' = mishaps \cup {<<"hasty", step, attempts>>}
    BY <1>5 DEF Retype, Due
  <2>2. typed = TRUE BY <1>0, <2>1
  <2>3. Mishaps("lost")' = Mishaps("lost")
    <3>1. <<"hasty", step, attempts>>[1] # "lost" OBVIOUS
    <3> QED BY <2>1, <3>1 DEF Mishaps
  <2>4. IsFiniteSet(mishaps') BY <1>1, <2>1, FS_AddElement
  <2>5. \A m \in Mishaps("lost") : Dated(m, step, TRUE, attempts + 1, Len(Due))
    BY <1>0, <1>1, <2>2, Dating
  <2> QED BY <2>1, <2>2, <2>3, <2>4, <2>5 DEF Fresh
<1>6. CASE SendKey
  <2>1. /\ UNCHANGED <<step, typed, attempts>> /\ sending' = Tail(sending) /\ typed
        /\ sending # <<>>
        /\ Sends \/ Loses
    BY <1>6, KeySent
  <2>2. typed = TRUE BY <1>0, <2>1
  <2>3. Len(sending') \in Nat /\ Len(sending') <= Len(sending)
    <3>1. /\ Len(sending) \in 0..2 /\ Len(Tail(sending)) = Len(sending) - 1
          /\ Len(sending) # 0 /\ Len(sending') = Len(Tail(sending))
      <4>1. /\ Len(sending) \in 0..2
            /\ (sending # <<>> => Len(Tail(sending)) = Len(sending) - 1)
            /\ (sending = <<>> <=> Len(sending) = 0)
        BY ShortSend
      <4>2. sending' = Tail(sending) /\ sending # <<>> BY <2>1
      <4>3. Len(sending') = Len(Tail(sending)) BY <4>2
      <4> QED BY <4>1, <4>2, <4>3
    <3> QED BY ONLY <3>1
  <2>4. \A m \in Mishaps("lost") : Dated(m, step, TRUE, attempts, Len(sending'))
    BY <1>0, <1>1, <2>2, <2>3, Dating
  <2>5. CASE Sends
    <3>1. mishaps' = mishaps BY <2>5 DEF Sends
    <3> QED BY <1>1, <2>1, <2>2, <2>4, <3>1 DEF Fresh, Mishaps
  <2>6. CASE Loses
    <3>1. /\ Mishaps("lost")' = Mishaps("lost") \cup {LostNow}
          /\ Dated(LostNow, step, TRUE, attempts, Len(sending'))
      BY <1>6, <2>1, <2>6, LossIsNew
    <3>2. IsFiniteSet(mishaps') BY <1>1, <2>6, FS_AddElement DEF Loses
    <3> QED BY <2>1, <2>2, <2>4, <3>1, <3>2 DEF Fresh
  <2> QED BY <2>1, <2>5, <2>6
<1>7. \/ UNCHANGED <<step, typed, attempts, sending, mishaps>>
      \/ TypeCommand \/ Advance \/ Retype \/ SendKey
  <2>1. CASE \/ GuestBoots \/ GuestFaults \/ ShellKey \/ ApplicationEscape
             \/ ApplicationKey \/ KeyboardKey \/ ApplicationPass
    BY <2>1, GuestActs DEF GuestMoves
  <2>2. CASE ReaderCopies \/ DriverNext \/ UNCHANGED smokeVars
    BY <2>2 DEF ReaderCopies, DriverNext, Connect, SendFails, NoticeExit, Deadline,
                TimedOut, smokeVars, driver
  <2> QED BY <2>1, <2>2 DEF SmokeNext, GuestNext
<1> QED BY <1>2, <1>3, <1>4, <1>5, <1>6, <1>7
-----------------------------------------------------------------------------
(* The same, after a step. *)
Located ==
  /\ \A a \in Applications : app = a => Within(a)
  /\ Alive /\ 6 <= step /\ step <= LastTap /\ (step = LastTap => ~typed) => app = "keyboard"
  /\ Alive => \A a : ClosingStep(step, a) /\ app # a => Answer
  /\ \A w \in Words, a \in Applications :
       Due = Command(w) /\ app = a => w = a /\ OpeningStep(step, a) /\ typed

LEMMA KnownLocated == Known => Located
<1> SUFFICES ASSUME Known PROVE Located
  OBVIOUS
<1>1. \A a \in Applications : app = a => Within(a) BY Where
<1>2. Alive /\ 6 <= step /\ step <= LastTap /\ (step = LastTap => ~typed)
        => app = "keyboard"
  BY AtTheKeyboard
<1>3. Alive => \A a : ClosingStep(step, a) /\ app # a => Answer BY Closed
<1>4. \A w \in Words, a \in Applications :
        Due = Command(w) /\ app = a => w = a /\ OpeningStep(step, a) /\ typed
  BY OwnWord
<1> QED BY <1>1, <1>2, <1>3, <1>4 DEF Located

LEMMA KnownNext == Known' => Located'
<1>1. Known => Located BY KnownLocated
<1> QED BY <1>1, PTL

(* What a step types tells which step it is. *)
DueTells ==
  /\ Due = Script[step].type
  /\ Due = <<"esc">> => \E a : ClosingStep(step, a)
  /\ Due = <<"right">> => MoveStep(step)
  /\ Due = <<"ret">> => TapStep(step)
  /\ (Due = AB => TextStep(step)) /\ (step = 6 => Due = AB)
  /\ \A w \in Words : Due = Command(w) =>
       OpeningStep(step, w) \/ AskingStep(step, w) \/ (w = "halt" /\ HaltingStep(step))
  /\ Due \in {<<"esc">>, <<"right">>, <<"ret">>, AB} \/ \E w \in Words : Due = Command(w)
  /\ step = 5 => Due = Command("keyboard")
  /\ step = 4 => Due = <<"esc">>
  /\ step = 7 /\ LastTap = 9 => Due = <<"right">>
  /\ step = 1 => Due = Command("gui")

LEMMA KnownDue == Known => DueTells
<1> SUFFICES ASSUME Known PROVE DueTells
  OBVIOUS
<1>1. step \in 1..Len(Script) /\ step \in Nat BY Heard DEF Known, SmokeInv
<1>2. Kind(step) BY <1>1, Kinds
<1>3. Due = Script[step].type BY DEF Due
<1>4. \A w \in Words : /\ Command(w) # <<"ret">> /\ Command(w) # <<"esc">>
                       /\ Command(w) # <<"right">> /\ Command(w) # AB
                       /\ \A v : Command(v) = Command(w) => v = w
  BY WordsTyped
<1>5. /\ <<"right">> # <<"esc">> /\ <<"right">> # <<"ret">> /\ <<"esc">> # <<"ret">>
      /\ AB # <<"right">> /\ AB # <<"esc">> /\ AB # <<"ret">>
  BY KeysTyped
<1>6. /\ Applications \subseteq Words /\ {"help", "xyz", "uptime", "halt"} \subseteq Words
      /\ \A a \in Applications : a \notin {"help", "xyz", "uptime", "halt"}
  BY DEF Applications, Words
<1>7. LastTap \in {7, 9} BY Homes
<1>8. /\ \A a \in Applications : Opens(a) \in {1, 3, 5} /\ Shut(a) \in {2, 4, 7, 9}
      /\ \A a \in Applications : Shut(a) = 7 => LastTap = 7
      /\ \A a \in Applications : Opens(a) = 5 => a = "keyboard"
      /\ \A a \in Applications : Opens(a) = 1 => a = "gui"
  <2>1. \A a \in Applications : a = "gui" \/ a = "monitor" \/ a = "keyboard"
    BY AppMarkers
  <2>2. /\ Opens("gui") = 1 /\ Opens("monitor") = 3 /\ Opens("keyboard") = 5
        /\ Shut("gui") = 2 /\ Shut("monitor") = 4 /\ Shut("keyboard") = LastTap
    BY AppMarkers
  <2>3. \A a \in Applications : Shut(a) = 2 \/ Shut(a) = 4 \/ Shut(a) = LastTap
    BY ONLY <2>1, <2>2
  <2>4. \A a \in Applications : Shut(a) = 7 => LastTap = 7 BY ONLY <2>3
  <2>5. \A a \in Applications : /\ Opens(a) = 5 => a = "keyboard"
                                /\ Opens(a) = 1 => a = "gui"
    BY ONLY <2>1, <2>2
  <2> QED BY <2>4, <2>5, OpenShut
<1>9. ASSUME NEW a, OpeningStep(step, a) PROVE DueTells
  <2>1. a \in Applications /\ step = Opens(a) /\ Due = Command(a) /\ a \in Words
    BY <1>3, <1>6, <1>9 DEF OpeningStep
  <2>2. \A w \in Words : Due = Command(w) => w = a BY <1>4, <2>1
  <2>3. step # 6 /\ step # 4 /\ step # 7 /\ (step = 5 => a = "keyboard")
        /\ (step = 1 => a = "gui")
    BY <1>8, <2>1
  <2>4. Due # <<"esc">> /\ Due # <<"right">> /\ Due # <<"ret">> /\ Due # AB
    BY <1>4, <2>1
  <2> QED BY <1>3, <1>9, <2>1, <2>2, <2>3, <2>4 DEF DueTells
<1>10. ASSUME NEW a, ClosingStep(step, a) PROVE DueTells
  <2>1. a \in Applications /\ step = Shut(a) /\ Due = <<"esc">>
    BY <1>3, <1>10 DEF ClosingStep
  <2>2. \A w \in Words : Due # Command(w) BY <1>4, <2>1
  <2>3. step # 6 /\ step # 5 /\ step # 1 /\ (step = 7 => LastTap # 9) BY <1>8, <2>1
  <2>4. Due # <<"right">> /\ Due # <<"ret">> /\ Due # AB BY <1>5, <2>1
  <2> QED BY <1>3, <1>10, <2>1, <2>2, <2>3, <2>4 DEF DueTells
<1>11. ASSUME NEW v, AskingStep(step, v) PROVE DueTells
  <2>1. v \in {"help", "xyz", "uptime"} /\ step > LastTap /\ Due = Command(v) /\ v \in Words
    BY <1>3, <1>6, <1>11 DEF AskingStep
  <2>2. \A w \in Words : Due = Command(w) => w = v BY <1>4, <2>1
  <2>3. step # 6 /\ step # 5 /\ step # 4 /\ step # 1 /\ (step = 7 => LastTap # 9)
    BY <1>1, <1>7, <2>1
  <2>4. Due # <<"esc">> /\ Due # <<"right">> /\ Due # <<"ret">> /\ Due # AB
    BY <1>4, <2>1
  <2> QED BY <1>3, <1>11, <2>1, <2>2, <2>3, <2>4 DEF DueTells
<1>12. ASSUME HaltingStep(step) PROVE DueTells
  <2>1. step > LastTap /\ Due = Command("halt") /\ "halt" \in Words
    BY <1>3, <1>6, <1>12 DEF HaltingStep
  <2>2. \A w \in Words : Due = Command(w) => w = "halt" BY <1>4, <2>1
  <2>3. step # 6 /\ step # 5 /\ step # 4 /\ step # 1 /\ (step = 7 => LastTap # 9)
    BY <1>1, <1>7, <2>1
  <2>4. Due # <<"esc">> /\ Due # <<"right">> /\ Due # <<"ret">> /\ Due # AB
    BY <1>4, <2>1
  <2> QED BY <1>3, <1>12, <2>1, <2>2, <2>3, <2>4 DEF DueTells
<1>13. ASSUME TextStep(step) PROVE DueTells
  <2>1. step = 6 /\ Due = AB BY <1>3, <1>13 DEF TextStep
  <2>2. \A w \in Words : Due # Command(w) BY <1>4, <2>1
  <2>3. Due # <<"right">> /\ Due # <<"ret">> /\ Due # <<"esc">> BY <1>5, <2>1
  <2>4. step # 5 /\ step # 4 /\ step # 7 /\ step # 1 BY <2>1
  <2> QED BY <1>3, <1>13, <2>1, <2>2, <2>3, <2>4 DEF DueTells
<1>14. ASSUME MoveStep(step) PROVE DueTells
  <2>1. step = 7 /\ Due = <<"right">> BY <1>3, <1>14 DEF MoveStep
  <2>2. \A w \in Words : Due # Command(w) BY <1>4, <2>1
  <2>3. Due # <<"ret">> /\ Due # <<"esc">> /\ Due # AB BY <1>5, <2>1
  <2>4. step # 5 /\ step # 4 /\ step # 6 /\ step # 1 BY <2>1
  <2> QED BY <1>3, <1>14, <2>1, <2>2, <2>3, <2>4 DEF DueTells
<1>15. ASSUME TapStep(step) PROVE DueTells
  <2>1. step = 8 /\ Due = <<"ret">> BY <1>3, <1>15 DEF TapStep
  <2>2. \A w \in Words : Due # Command(w) BY <1>4, <2>1
  <2>3. Due # <<"right">> /\ Due # <<"esc">> /\ Due # AB BY <1>5, <2>1
  <2>4. step # 5 /\ step # 4 /\ step # 6 /\ step # 7 /\ step # 1 BY <2>1
  <2> QED BY <1>3, <1>15, <2>1, <2>2, <2>3, <2>4 DEF DueTells
<1> QED BY <1>2, <1>9, <1>10, <1>11, <1>12, <1>13, <1>14, <1>15 DEF Kind

LEMMA DueNext == Known' => DueTells'
<1>1. Known => DueTells BY KnownDue
<1> QED BY <1>1, PTL
-----------------------------------------------------------------------------
(* The steps of the guest, while nothing has gone wrong.                   *)
LEMMA GuestKeeps ==
  ASSUME SmokeInv, GuestMoves
  PROVE  /\ Due' = Due /\ Script' = Script /\ LastTap' = LastTap
         /\ step' = step /\ typed' = typed /\ sending' = sending /\ attempts' = attempts
         /\ Missed' = Missed /\ Completed' = Completed /\ Said \subseteq Said'
         /\ (Answer => Answer')
         /\ \A m : AnsweredBy(step, m) /\ m \in Said' => Answer'
<1>1. /\ Due' = Due /\ Script' = Script /\ LastTap' = LastTap
      /\ step' = step /\ typed' = typed /\ sending' = sending /\ attempts' = attempts
      /\ mishaps' = mishaps /\ Said \subseteq Said'
  BY Fixed DEF GuestMoves
<1>2. Missed' = Missed BY <1>1 DEF Missed, Mishaps
<1>3. Completed' = Completed BY <1>1 DEF Completed
<1>4. Answer => Answer' BY <1>1 DEF Answer
<1>5. \A m : AnsweredBy(step, m) /\ m \in Said' => Answer'
  BY <1>1 DEF AnsweredBy, Answer
<1> QED BY <1>1, <1>2, <1>3, <1>4, <1>5

AskedFor == \E w \in Words : Due = Command(w)

LEMMA EnoughKept ==
  ASSUME SmokeInv, GuestMoves, Enough, typed => (Underway => Underway'),
         typed /\ app = "shell" /\ AskedFor /\ Tidy =>
           Underway' \/ (app' = "shell" /\ Tidy')
  PROVE  Enough'
<1>1. /\ Due' = Due /\ typed' = typed /\ Missed' = Missed /\ Completed' = Completed
      /\ AB' = AB
  BY GuestKeeps DEF AB
<1>2. SUFFICES ASSUME typed, Due # AB
               PROVE  \/ Underway' \/ Completed = 0 \/ (Completed = 1 /\ Missed)
                      \/ (Completed = 2 /\ Missed /\ app' = "shell" /\ AskedFor /\ Tidy')
  BY <1>1 DEF Enough, AskedFor
<1>3. \/ Underway \/ Completed = 0 \/ (Completed = 1 /\ Missed)
      \/ (Completed = 2 /\ Missed /\ app = "shell" /\ AskedFor /\ Tidy)
  BY <1>2 DEF Enough, AskedFor
<1> QED BY <1>2, <1>3

(* Only the keyboard is awaited by the steps that type into it. *)
LEMMA Elsewhere ==
  ASSUME Known, Alive, app # "keyboard"
  PROVE  /\ step # 6 /\ Due # <<"right">> /\ Due # <<"ret">> /\ Due # AB
         /\ sending = <<"ret">> => Due[1] \notin Stops
<1>1. DueTells /\ Located BY KnownDue, KnownLocated
<1>2. LastTap \in {7, 9} BY Homes
<1>3. ~(6 <= step /\ step <= LastTap /\ (step = LastTap => ~typed))
  BY <1>1 DEF Located
<1>4. step \in Nat BY Heard
<1>5. step # 6 BY <1>2, <1>3
<1>6. ~(LastTap = 9 /\ step \in {7, 8}) BY <1>3
<1>7. ~TextStep(step) /\ ~MoveStep(step) /\ ~TapStep(step)
  BY <1>5, <1>6 DEF TextStep, MoveStep, TapStep
<1>8. Due # <<"right">> /\ Due # <<"ret">> /\ Due # AB BY <1>1, <1>7 DEF DueTells
<1>9. ASSUME sending = <<"ret">> PROVE Due[1] \notin Stops
  <2>1. typed BY <1>9 DEF Known, SmokeInv
  <2>2. Tail(Due) = <<"ret">>
    <3>1. sending = Due \/ sending = Tail(Due)
      BY <1>9, <2>1 DEF Known, Basics, Rest
    <3> QED BY <1>8, <1>9, <3>1
  <2>3. Due # <<"esc">>
    <3>1. Tail(<<"esc">>) = <<>> OBVIOUS
    <3>2. <<>> # <<"ret">> OBVIOUS
    <3> QED BY <2>2, <3>1, <3>2
  <2>4. PICK w \in Words : Due = Command(w) BY <1>1, <1>8, <2>3 DEF DueTells
  <2>5. Due[1] = w BY <2>4, WordsTyped
  <2> QED BY <2>5 DEF Words, Stops
<1> QED BY <1>5, <1>8, <1>9

LEMMA Streams ==
  ASSUME SmokeInv
  PROVE  /\ keys \in Seq(AllKeys) /\ line \in Seq(AllKeys) /\ Stream \in Seq(AllKeys)
         /\ (line = <<>> => Stream = keys)
<1>1. keys \in Seq(AllKeys) /\ line \in Seq(AllKeys) BY DEF SmokeInv
<1>2. line \o keys \in Seq(AllKeys) BY <1>1, Joined
<1> QED BY <1>1, <1>2, NothingOnLine DEF Stream

LEMMA NoApplication ==
  /\ "shell" \notin Applications /\ "boot" \notin Applications /\ "off" \notin Applications
  /\ "shell" \notin Words /\ Applications \subseteq Words
  /\ "keyboard" \in Applications
BY DEF Applications, Words

LEMMA BootGoes ==
  ASSUME Known, Going, GuestBoots
  PROVE  Going'
<1>0. SmokeInv /\ Basics BY DEF Known
<1>1. GuestMoves BY <1>0, GuestActs
<1>2. /\ app = "boot" /\ app' = "shell" /\ keys' = keys /\ line' = line BY DEF GuestBoots
<1>3. ~typed /\ step = 1 /\ keys = <<>> /\ line = <<>> /\ sending = <<>>
  BY <1>0, <1>2 DEF Basics
<1>4. Due' = Due /\ step' = step /\ typed' = typed /\ sending' = sending /\ AB' = AB
  BY <1>0, <1>1, GuestKeeps DEF AB
<1>5. Window' BY <1>2, NoApplication DEF Window
<1>6. Due = Command("gui") /\ "gui" \in Words BY <1>3, KnownDue DEF DueTells, Words
<1>7. Due # <<"right">> /\ Due # <<"ret">> BY <1>6, WordsTyped
<1>8. OnKeys' BY <1>2, <1>3, <1>4, <1>7 DEF OnKeys
<1>9. Enough' BY <1>3, <1>4 DEF Enough
<1>10. Prompt'
  <2>1. Stream' = <<>>
    <3>1. <<>> \o <<>> = <<>> OBVIOUS
    <3> QED BY <1>2, <1>3, <3>1 DEF Stream
  <2>2. NoStop(<<>>) /\ EscFirst(<<>>) BY DEF NoStop, EscFirst
  <2>3. ToSet(<<>>) = {} BY Members
  <2>4. Tidy' BY <1>3, <1>4, <2>1 DEF Tidy, Ended
  <2> QED BY <1>2, <1>3, <1>4, <2>1, <2>2, <2>3, <2>4 DEF Prompt
<1> QED BY <1>5, <1>8, <1>9, <1>10 DEF Going

(* At the prompt: what is read leaves the rest as it was.                  *)
LEMMA PromptKept ==
  ASSUME Known, Alive, Going, GuestMoves, Arrives, app = "shell",
         keys' \in Seq(AllKeys), Stream' \in Seq(AllKeys), NoStop(line'),
         \/ Stream' = Stream
         \/ \E n : Dropped(Stream', Stream, n) /\ Stream[n] \in Stops
  PROVE  /\ Prompt' /\ (app' # "keyboard" \/ step # 5 => OnKeys')
         /\ (Tidy => Tidy')
<1>0. SmokeInv BY DEF Known
<1>1. /\ Due' = Due /\ step' = step /\ typed' = typed /\ sending' = sending
      /\ Missed' = Missed /\ AB' = AB
  BY <1>0, GuestKeeps DEF AB
<1>2. /\ keys \in Seq(AllKeys) /\ Dropped(keys', keys, 1)
      /\ ToSet(keys) = {Key} \cup ToSet(keys')
  BY <1>0, KeyRead
<1>3. Stream \in Seq(AllKeys) BY <1>0, Streams
<1>4. /\ "right" \notin ToSet(keys) /\ EscFirst(Stream)
      /\ typed /\ Due = <<"esc">> => OnlyEsc(Stream)
      /\ step = 5 => Fifth
      /\ ~Missed => Tidy
  BY DEF Going, Prompt
<1>5. /\ step # 6 /\ Due # <<"right">> /\ Due # <<"ret">>
      /\ sending = <<"ret">> => Due[1] \notin Stops
  <2>1. "shell" # "keyboard" OBVIOUS
  <2> QED BY <2>1, Elsewhere
<1>6. /\ EscFirst(Stream') /\ ToSet(Stream') \subseteq ToSet(Stream)
      /\ (Ended(Stream) => Ended(Stream'))
      /\ \A w : w \notin Stops /\ Halfway(Stream, w) => Halfway(Stream', w)
  <2>1. CASE Stream' = Stream BY <1>4, <2>1
  <2>2. ASSUME NEW n, Dropped(Stream', Stream, n), Stream[n] \in Stops
        PROVE  /\ EscFirst(Stream') /\ ToSet(Stream') \subseteq ToSet(Stream)
               /\ (Ended(Stream) => Ended(Stream'))
               /\ \A w : w \notin Stops /\ Halfway(Stream, w) => Halfway(Stream', w)
    BY <1>3, <1>4, <2>2, DropOrders, DropTidy
  <2> QED BY <2>1, <2>2
<1>7. Tidy => Tidy' BY <1>1, <1>5, <1>6 DEF Tidy
<1>8. step = 5 => Fifth'
  <2> SUFFICES ASSUME step = 5 PROVE Fifth'
    OBVIOUS
  <2>1. CASE typed
    <3>1. RetLast(keys) /\ ("ret" \in ToSet(keys) => sending = <<>>)
      BY <1>4, <2>1 DEF Fifth
    <3>2. RetLast(keys') BY <1>2, <3>1, DropOrders
    <3> QED BY <1>1, <1>2, <2>1, <3>1, <3>2 DEF Fifth
  <2>2. CASE ~typed BY <1>1, <1>2, <1>4, <2>2 DEF Fifth, OnlyEsc
  <2> QED BY <2>1, <2>2
<1>9. Prompt'
  BY <1>1, <1>2, <1>4, <1>6, <1>7, <1>8 DEF Prompt, OnlyEsc
<1>10. ASSUME app' # "keyboard" \/ step # 5 PROVE OnKeys'
  BY <1>1, <1>5, <1>10 DEF OnKeys
<1> QED BY <1>7, <1>9, <1>10
LEMMA AtPrompt ==
  ASSUME Known, Alive, app = "shell", Underway
  PROVE  Answer \/ (\E w \in Words : Due = Command(w) /\ Asks(Stream, w))
<1>1. Due # <<"right">> /\ Due # <<"ret">>
  <2>1. "shell" # "keyboard" OBVIOUS
  <2> QED BY <2>1, Elsewhere
<1> QED BY <1>1, NoApplication DEF Underway

LEMMA TypeKept ==
  ASSUME Known, Known', Alive, Going, ShellKey, KeyTypes
  PROVE  Going'
<1>0. SmokeInv /\ SmokeInv' BY DEF Known
<1>1. GuestMoves BY <1>0, GuestActs
<1>2. Arrives /\ app = "shell" /\ app' = "shell" BY DEF ShellKey, KeyTypes
<1>3. /\ keys \in Seq(AllKeys) /\ keys # <<>> /\ keys' = Tail(keys) /\ Key = Head(keys)
      /\ Key \in AllKeys
  BY <1>0, <1>2, KeyRead
<1>4. line \in Seq(AllKeys) /\ line' = Append(line, Key) /\ Key \notin Stops
  BY <1>0 DEF SmokeInv, KeyTypes, Stops
<1>5. Stream' = Stream BY <1>3, <1>4, StreamRead DEF Stream
<1>6. NoStop(line')
  <2>1. Grown(line', line, Key) /\ line' \in Seq(AllKeys) BY <1>3, <1>4, Grows
  <2>2. NoStop(line) BY <1>2 DEF Going, Prompt
  <2>3. Len(line) \in Nat /\ Len(line') = Len(line) + 1 BY <1>4, <2>1, InList DEF Grown
  <2>4. \A i \in 1..Len(line') : i \in 1..Len(line) \/ i = Len(line) + 1 BY <2>3
  <2> QED BY <1>4, <2>1, <2>2, <2>4 DEF NoStop, Grown
<1>7. keys' \in Seq(AllKeys) /\ Stream' \in Seq(AllKeys)
  BY <1>0, <1>3, <1>5, KeyRead, Streams, <1>2
<1>8. "shell" # "keyboard" OBVIOUS
<1>9. Prompt' /\ OnKeys' /\ (Tidy => Tidy')
  BY <1>1, <1>2, <1>5, <1>6, <1>7, <1>8, PromptKept
<1>10. Window' BY <1>2, NoApplication DEF Window
<1>11. ASSUME Underway PROVE Underway'
  <2>1. Answer \/ (\E w \in Words : Due = Command(w) /\ Asks(Stream, w))
    BY <1>2, <1>11, AtPrompt
  <2>2. Due' = Due /\ (Answer => Answer') BY <1>0, <1>1, GuestKeeps
  <2>3. \A w : Command(w)' = Command(w) BY DEF Command
  <2>4. \A w : Asks(Stream, w) => Asks(Stream', w) BY <1>5
  <2>5. CASE Answer BY <2>2, <2>5 DEF Underway
  <2>6. CASE \E w \in Words : Due = Command(w) /\ Asks(Stream, w)
    BY <1>2, <2>2, <2>4, <2>6 DEF Underway
  <2> QED BY <2>1, <2>5, <2>6
<1>12. Enough' BY <1>0, <1>1, <1>2, <1>9, <1>11, EnoughKept DEF Going
<1> QED BY <1>9, <1>10, <1>12 DEF Going

LEMMA PassKept ==
  ASSUME Known, Known', Alive, Going, ShellKey, KeyPasses
  PROVE  Going'
<1>0. SmokeInv /\ SmokeInv' BY DEF Known
<1>1. GuestMoves BY <1>0, GuestActs
<1>2. Arrives /\ app = "shell" /\ app' = "shell" /\ line' = line
  BY DEF ShellKey, KeyPasses, guest
<1>3. /\ keys \in Seq(AllKeys) /\ keys # <<>> /\ keys' = Tail(keys) /\ Key = Head(keys)
      /\ Key \in AllKeys /\ keys' \in Seq(AllKeys) /\ Dropped(keys', keys, 1)
      /\ keys[1] = Key /\ ToSet(keys) = {Key} \cup ToSet(keys')
  BY <1>0, <1>2, KeyRead
<1>4. "right" \notin ToSet(keys) /\ EscFirst(Stream) /\ NoStop(line)
  BY <1>2 DEF Going, Prompt
<1>5. Key = "esc" /\ Key \in Stops BY <1>3, <1>4 DEF KeyPasses, Stops
<1>6. line = <<>>
  <2> SUFFICES ASSUME line # <<>> PROVE FALSE
    OBVIOUS
  <2>1. line \in Seq(AllKeys) BY <1>0 DEF SmokeInv
  <2>2. Len(line) \in Nat /\ Len(line) # 0 BY <2>1, InList
  <2>3. /\ Stream[Len(line) + 1] = "esc" /\ (\A i \in 1..Len(line) : Stream[i] = line[i])
        /\ Dropped(Tail(keys), Stream, Len(line) + 1) /\ Stream \in Seq(AllKeys)
    BY <1>3, <1>5, <2>1, StreamLine DEF Stream
  <2>4. Len(Stream) \in Nat /\ Len(line) + 1 <= Len(Stream) BY <2>3, InList DEF Dropped
  <2>5. 1 \in 1..Len(line) /\ 1 \in 1..Len(Stream) /\ Len(line) + 1 \in 1..Len(Stream)
        /\ 1 < Len(line) + 1
    BY <2>2, <2>4
  <2>6. line[1] = "esc" BY <1>4, <2>3, <2>5 DEF EscFirst
  <2> QED BY <1>4, <2>5, <2>6 DEF NoStop, Stops
<1>7. Stream = keys /\ Stream' = keys' BY <1>0, <1>2, <1>6, <1>3, NothingOnLine DEF Stream
<1>8. Dropped(Stream', Stream, 1) /\ Stream[1] \in Stops BY <1>3, <1>5, <1>7
<1>9. "shell" # "keyboard" OBVIOUS
<1>10. Stream' \in Seq(AllKeys) /\ NoStop(line') BY <1>2, <1>3, <1>4, <1>7
<1>11. Prompt' /\ OnKeys' /\ (Tidy => Tidy')
  BY <1>1, <1>2, <1>3, <1>8, <1>9, <1>10, PromptKept
<1>12. Window' BY <1>2, NoApplication DEF Window
<1>13. ASSUME Underway PROVE Underway'
  <2>1. Answer \/ (\E w \in Words : Due = Command(w) /\ Asks(Stream, w))
    BY <1>2, <1>13, AtPrompt
  <2>2. Due' = Due /\ (Answer => Answer') BY <1>0, <1>1, GuestKeeps
  <2>4. ASSUME NEW w \in Words, Asks(Stream, w) PROVE Asks(Stream', w)
    <3>1. \A j \in 1..1 - 1 : Stream[j] \notin Stops OBVIOUS
    <3>2. w \notin Stops BY DEF Words, Stops
    <3>3. Stream \in Seq(AllKeys) BY <1>3, <1>7
    <3>4. 1 # 2 OBVIOUS
    <3> QED BY <1>8, <1>10, <2>4, <3>1, <3>2, <3>3, <3>4, DropAsks
  <2>5. CASE Answer BY <2>2, <2>5 DEF Underway
  <2>6. CASE \E w \in Words : Due = Command(w) /\ Asks(Stream, w)
    BY <1>2, <2>2, <2>4, <2>6 DEF Underway
  <2> QED BY <2>1, <2>5, <2>6
<1>14. Enough' BY <1>0, <1>1, <1>2, <1>11, <1>13, EnoughKept DEF Going
<1> QED BY <1>11, <1>12, <1>14 DEF Going

(* Return at the prompt: the line and its end leave the stream.            *)
LEMMA LineRead ==
  ASSUME SmokeInv, Arrives, KeyEnters, NoStop(line)
  PROVE  /\ line' = <<>> /\ keys' \in Seq(AllKeys) /\ Stream' = keys'
         /\ Dropped(Stream', Stream, Len(line) + 1) /\ Stream[Len(line) + 1] = "ret"
         /\ \A w : w \notin Stops /\ Asks(Stream, w) => Asks(Stream', w) \/ line = <<w>>
<1>1. line' = <<>> BY LineDoes DEF KeyEnters
<1>2. /\ keys \in Seq(AllKeys) /\ keys # <<>> /\ keys' = Tail(keys) /\ Key = Head(keys)
      /\ keys' \in Seq(AllKeys)
  BY KeyRead
<1>3. Stream' = keys' BY <1>1, <1>2, NothingOnLine DEF Stream
<1>4. line \in Seq(AllKeys) /\ Stream \in Seq(AllKeys) BY Streams
<1>5. /\ Dropped(Stream', Stream, Len(line) + 1) /\ Stream[Len(line) + 1] = "ret"
      /\ \A i \in 1..Len(line) : Stream[i] = line[i]
  BY <1>2, <1>3, <1>4, StreamLine DEF Stream, KeyEnters
<1>6. Len(line) \in Nat BY <1>4, InList
<1>7. ASSUME NEW w, w \notin Stops, Asks(Stream, w)
      PROVE  Asks(Stream', w) \/ line = <<w>>
  <2>1. \A j \in 1..(Len(line) + 1) - 1 : Stream[j] \notin Stops
    <3>1. (Len(line) + 1) - 1 = Len(line) BY <1>6
    <3> QED BY <1>5, <3>1 DEF NoStop
  <2>2. "ret" \in Stops BY DEF Stops
  <2>3. Asks(Stream', w) \/ (Len(line) + 1 = 2 /\ Stream[1] = w /\ Stream[2] = "ret")
    <3> DEFINE n == Len(line) + 1
    <3>1. /\ Stream' \in Seq(AllKeys) /\ Stream \in Seq(AllKeys) /\ Dropped(Stream', Stream, n)
          /\ Stream[n] \in Stops /\ \A j \in 1..n - 1 : Stream[j] \notin Stops
      BY <1>2, <1>3, <1>4, <1>5, <2>1, <2>2
    <3> HIDE DEF n
    <3>2. Asks(Stream', w) \/ (n = 2 /\ Stream[1] = w /\ Stream[2] = "ret")
      BY <1>7, <3>1, DropAsks
    <3> QED BY <3>2 DEF n
  <2>4. CASE Len(line) + 1 = 2 /\ Stream[1] = w
    <3>1. Len(line) = 1 /\ 1 \in 1..Len(line)
      <4>1. \A n \in Nat : n + 1 = 2 => n = 1 /\ 1 \in 1..n OBVIOUS
      <4>2. Len(line) + 1 = 2 BY <2>4
      <4> QED BY ONLY <1>6, <4>1, <4>2
    <3>2. line[1] = w BY <1>5, <2>4, <3>1
    <3>3. line = <<line[1]>> BY <1>4, <3>1
    <3> QED BY <3>2, <3>3
  <2> QED BY <2>3, <2>4
<1> QED BY <1>1, <1>2, <1>3, <1>5, <1>7

LEMMA EnterKept ==
  ASSUME Known, Known', Alive, Alive', Going, ShellKey, KeyEnters
  PROVE  Going'
<1>0. SmokeInv /\ SmokeInv' BY DEF Known
<1>1. GuestMoves BY <1>0, GuestActs
<1>2. Arrives /\ app = "shell" BY DEF ShellKey
<1>3. NoStop(line) /\ EscFirst(Stream) /\ (step = 5 => Fifth)
  BY <1>2 DEF Going, Prompt
<1>4. /\ line' = <<>> /\ keys' \in Seq(AllKeys) /\ Stream' = keys'
      /\ Dropped(Stream', Stream, Len(line) + 1) /\ Stream[Len(line) + 1] = "ret"
      /\ \A w : w \notin Stops /\ Asks(Stream, w) => Asks(Stream', w) \/ line = <<w>>
  BY <1>0, <1>2, <1>3, LineRead
<1>5. NoStop(line') BY <1>4 DEF NoStop
<1>6. "ret" \in Stops BY DEF Stops
<1>7. Stream' \in Seq(AllKeys) BY <1>4
<1>8. Prompt' /\ (app' # "keyboard" \/ step # 5 => OnKeys') /\ (Tidy => Tidy')
  BY <1>1, <1>2, <1>4, <1>5, <1>6, <1>7, PromptKept
<1>9. /\ Due' = Due /\ (Answer => Answer') /\ step' = step /\ typed' = typed
      /\ sending' = sending
      /\ \A m : AnsweredBy(step, m) /\ m \in Said' => Answer'
  BY <1>0, <1>1, GuestKeeps
<1>10. DueTells BY KnownDue
<1>11. \A w \in Words : w \notin Stops BY DEF Words, Stops
<1>12. ASSUME Underway
       PROVE  Answer' \/ \E w \in Words : Due' = Command(w)
                                          /\ (Asks(Stream', w) \/ line = <<w>>)
  <2>1. Answer \/ (\E w \in Words : Due = Command(w) /\ Asks(Stream, w))
    BY <1>2, <1>12, AtPrompt
  <2> QED BY <1>4, <1>9, <1>11, <2>1
<1>13. CASE LineReplies
  <2>1. app' = "shell" BY <1>2, <1>13 DEF LineReplies
  <2>2. Window' BY <2>1, NoApplication DEF Window
  <2>3. OnKeys'
    <3>1. "shell" # "keyboard" OBVIOUS
    <3> QED BY <1>8, <2>1, <3>1
  <2>4. ASSUME NEW w \in Words, Due = Command(w), line = <<w>> PROVE Answer'
    <3>1. w # "halt" /\ w \notin Applications BY <1>13, <2>4 DEF LineReplies
    <3>2. AskingStep(step, w) BY <1>10, <2>4, <3>1 DEF DueTells, OpeningStep
    <3>3. w \in {"help", "xyz", "uptime"} /\ AnsweredBy(step, Reaction(w))
      BY <3>2 DEF AskingStep
    <3>4. Reaction(w) \in Said' BY <1>13, <2>4, <3>3 DEF LineReplies
    <3> QED BY <1>9, <3>3, <3>4
  <2>5. Underway => Underway' BY <1>9, <1>12, <2>1, <2>4 DEF Underway
  <2>6. Enough' BY <1>0, <1>1, <1>8, <2>1, <2>5, EnoughKept DEF Going
  <2> QED BY <1>8, <2>2, <2>3, <2>6 DEF Going
<1>14. ASSUME NEW a, LineOpens(a) PROVE Going'
  <2>1. /\ a \in Applications /\ app' = a /\ Said' = Said
        /\ field' = <<>> /\ shown' = <<>> /\ sel' = 0 /\ tap' = None
    BY <1>14 DEF LineOpens, Open
  <2>2. "esc" \notin ToSet(keys')
    <3> SUFFICES ASSUME "esc" \in ToSet(keys') PROVE FALSE
      OBVIOUS
    <3>1. PICK i \in 1..Len(keys') : keys'[i] = "esc" BY <1>4, InList
    <3>2. Stream \in Seq(AllKeys) /\ line \in Seq(AllKeys) BY <1>0, Streams
    <3>3. Len(line) \in Nat /\ Len(Stream) \in Nat BY <3>2, InList
    <3>4. /\ Len(line) + 1 <= Len(Stream) /\ Len(keys') = Len(Stream) - (Len(line) + 1)
          /\ Stream[i + (Len(line) + 1)] = "esc"
      BY <1>4, <3>1 DEF Dropped
    <3>5. /\ Len(line) + 1 \in 1..Len(Stream) /\ i + (Len(line) + 1) \in 1..Len(Stream)
          /\ Len(line) + 1 < i + (Len(line) + 1)
      BY <3>3, <3>4
    <3>6. Stream[Len(line) + 1] = "esc" BY <1>3, <3>4, <3>5 DEF EscFirst
    <3> QED BY <1>4, <3>6
  <2>3. Window'
    <3>1. \A i \in 1..Len(keys') : keys'[i] # "esc" BY <1>4, <2>2, InList
    <3> QED BY <2>2, <3>1 DEF Window, EscLast
  <2>4. \A w \in Words : Due = Command(w) => w = a /\ typed'
    BY <1>9, <2>1, KnownNext DEF Located
  <2>5. ASSUME a = "keyboard", step = 5 PROVE OnKeys'
    <3>1. Due = Command("keyboard") /\ "keyboard" \in Words
      BY <1>10, <2>5, NoApplication DEF DueTells
    <3>2. typed BY <1>9, <2>4, <3>1
    <3>3. /\ keys \in Seq(AllKeys) /\ keys # <<>> /\ keys[1] = "ret" /\ keys' = Tail(keys)
          /\ ToSet(keys) = {"ret"} \cup ToSet(keys')
      BY <1>0, <1>2, KeyRead DEF KeyEnters
    <3>4. RetLast(keys) /\ sending = <<>> BY <1>3, <2>5, <3>2, <3>3 DEF Fifth
    <3>5. keys' = <<>>
      <4>1. Len(keys) \in Nat /\ Len(keys) # 0 BY <3>3, InList
      <4>2. 1 \in 1..Len(keys) BY <4>1
      <4>3. 1 = Len(keys) BY <3>3, <3>4, <4>2 DEF RetLast
      <4> QED BY <3>3, <4>3
    <3>6. Taps \cap Said' = {}
      <4>1. Located' BY KnownNext
      <4>2. ExitMarker("keyboard") \notin Said'
        <5>1. Within("keyboard")' BY <2>1, <2>5, <4>1 DEF Located
        <5> QED BY <5>1 DEF Within
      <4>3. "shell" \notin {"keyboard", "off"} OBVIOUS
      <4> QED BY <1>2, <2>1, <4>2, <4>3 DEF Known, Frames
    <3>7. Opened' BY <1>9, <2>1, <3>4, <3>5, <3>6 DEF Opened, Taps
    <3>8. /\ step # 6 /\ Due # <<"right">> /\ Due # <<"ret">>
      BY <2>5, <3>1, WordsTyped
    <3> QED BY <1>9, <3>7, <3>8 DEF OnKeys
  <2>6. OnKeys' BY <1>8, <2>1, <2>5
  <2>7. \A w \in Words : Due = Command(w) => Underway' BY <1>9, <2>1, <2>4 DEF Underway
  <2>8. Underway => Underway' BY <1>9, <1>12, <2>7 DEF Underway
  <2>9. Enough' BY <1>0, <1>1, <2>7, <2>8, EnoughKept DEF Going, AskedFor
  <2> QED BY <1>8, <2>3, <2>6, <2>9 DEF Going
<1>15. ~LineHalts BY DEF LineHalts, Alive
<1> QED BY <1>0, <1>13, <1>14, <1>15, LineDoes DEF KeyEnters
LEMMA EscapeKept ==
  ASSUME Known, Known', Alive, Going, ApplicationEscape
  PROVE  Going'
<1>0. SmokeInv /\ SmokeInv' BY DEF Known
<1>1. GuestMoves BY <1>0, GuestActs
<1>2. /\ app \in Applications /\ Arrives /\ Key = "esc" /\ app' = "shell" /\ line' = line
  BY DEF ApplicationEscape
<1>3. /\ keys \in Seq(AllKeys) /\ keys # <<>> /\ keys' \in Seq(AllKeys)
      /\ Dropped(keys', keys, 1) /\ keys[1] = "esc"
      /\ ToSet(keys) = {"esc"} \cup ToSet(keys')
  BY <1>0, <1>2, KeyRead
<1>4. EscLast(keys) /\ typed /\ Due = <<"esc">> BY <1>2, <1>3 DEF Going, Window
<1>5. /\ Due' = Due /\ step' = step /\ typed' = typed /\ sending' = sending
      /\ (Answer => Answer') /\ AB' = AB
      /\ \A m : AnsweredBy(step, m) /\ m \in Said' => Answer'
  BY <1>0, <1>1, GuestKeeps DEF AB
<1>6. \A i \in 1..Len(keys') : keys'[i] = "esc"
  <2> SUFFICES ASSUME NEW i \in 1..Len(keys') PROVE keys'[i] = "esc"
    OBVIOUS
  <2>1. Len(keys') = Len(keys) - 1 /\ keys'[i] = keys[i + 1] /\ Len(keys) \in Nat
    BY <1>3, InList DEF Dropped
  <2>2. 1 \in 1..Len(keys) /\ i + 1 \in 1..Len(keys) /\ 1 < i + 1 BY <2>1
  <2> QED BY <1>3, <1>4, <2>1, <2>2 DEF EscLast
<1>7. PICK b : ClosingStep(step, b) BY <1>4, KnownDue DEF DueTells
<1>8. Within(app) BY <1>2, Where
<1>9. b = app
  <2>1. b \in Applications /\ step = Shut(b) BY <1>7 DEF ClosingStep
  <2>2. Opens(app) <= Shut(b) /\ Shut(b) <= Shut(app) BY <1>8, <2>1 DEF Within
  <2> QED BY <1>2, <2>1, <2>2, OpenShut
<1>10. Answer'
  <2>1. AnsweredBy(step, ExitMarker(app)) BY <1>7, <1>9 DEF ClosingStep
  <2>2. ExitMarker(app) \in Said' BY <1>0, EscapeSays
  <2> QED BY <1>5, <2>1, <2>2
<1>11. step # 5 /\ step # 6
  <2>1. step = Shut(b) /\ b \in Applications BY <1>7 DEF ClosingStep
  <2>2. Shut(b) \in {2, 4, 7, 9} BY <2>1, OpenShut
  <2> QED BY <2>1, <2>2
<1>12. Window' BY <1>2, NoApplication DEF Window
<1>13. OnKeys'
  <2>1. <<"esc">> # <<"right">> /\ <<"esc">> # <<"ret">> BY KeysTyped
  <2> QED BY <1>4, <1>5, <1>11, <2>1 DEF OnKeys
<1>14. Enough' BY <1>10 DEF Enough, Underway
<1>15. Prompt'
  <2>1. line' = <<>> BY <1>2, <1>8 DEF Within
  <2>2. Stream' = keys' BY <1>3, <2>1, NothingOnLine DEF Stream
  <2>3. \A k : k \in ToSet(keys') => k = "esc" BY <1>3, <1>6, InList
  <2>4. "right" \notin ToSet(keys') /\ OnlyEsc(keys') BY <2>3 DEF OnlyEsc
  <2>5. EscFirst(keys') BY <1>6 DEF EscFirst
  <2>6. NoStop(<<>>) BY DEF NoStop
  <2>7. Ended(keys')
    <3>1. Len(keys') \in Nat /\ (keys' = <<>> <=> Len(keys') = 0) BY <1>3, InList
    <3>2. keys' # <<>> => Len(keys') \in 1..Len(keys') BY <3>1
    <3> QED BY <1>6, <3>2 DEF Ended, Stops
  <2>8. sending' # <<"ret">>
    <3>1. sending = <<>> \/ sending = <<"esc">> \/ sending = Tail(<<"esc">>)
      BY <1>4, StillToSend, <1>0 DEF Rest, Known
    <3>2. Tail(<<"esc">>) = <<>> /\ <<>> # <<"ret">> /\ <<"esc">> # <<"ret">>
      BY KeysTyped, OneWord
    <3> QED BY <1>5, <3>1, <3>2
  <2>9. Tidy' BY <2>2, <2>7, <2>8 DEF Tidy
  <2> QED BY <1>5, <1>11, <2>1, <2>2, <2>4, <2>5, <2>6, <2>9 DEF Prompt
<1> QED BY <1>12, <1>13, <1>14, <1>15 DEF Going

(* Keys that reach a window leave the others in order. *)
LEMMA WindowKept ==
  ASSUME Known, Going, GuestMoves, app' = app, app \in Applications,
         keys' = keys \/ Arrives
  PROVE  Window' /\ Prompt'
<1>0. SmokeInv BY DEF Known
<1>1. Due' = Due /\ typed' = typed BY <1>0, GuestKeeps
<1>2. EscLast(keys) /\ ("esc" \in ToSet(keys) => typed /\ Due = <<"esc">>)
  BY DEF Going, Window
<1>3. EscLast(keys') /\ ToSet(keys') \subseteq ToSet(keys)
  <2>1. CASE keys' = keys BY <1>2, <2>1
  <2>2. CASE Arrives
    <3>1. /\ keys \in Seq(AllKeys) /\ keys' \in Seq(AllKeys) /\ Dropped(keys', keys, 1)
      BY <1>0, <2>2, KeyRead
    <3> QED BY <1>2, <3>1, DropOrders
  <2> QED BY <2>1, <2>2
<1>4. Window' BY <1>1, <1>2, <1>3 DEF Window
<1>5. Prompt' BY NoApplication DEF Prompt
<1> QED BY <1>4, <1>5

LEMMA ApplicationKept ==
  ASSUME Known, Known', Alive, Going, ApplicationKey
  PROVE  Going'
<1>0. SmokeInv /\ SmokeInv' BY DEF Known
<1>1. GuestMoves BY <1>0, GuestActs
<1>2. /\ app \in {"gui", "monitor"} /\ Arrives /\ Key # "esc" /\ app' = app /\ tap' = tap
      /\ Said' = Said
  BY DEF ApplicationKey, guest, Said
<1>3. app # "keyboard" /\ app # "shell" /\ app \in Applications BY <1>2 DEF Applications
<1>4. /\ step # 6 /\ Due # <<"right">> /\ Due # <<"ret">> /\ Due # AB
  BY <1>3, Elsewhere
<1>5. Due' = Due /\ step' = step /\ (Answer => Answer') BY <1>0, <1>1, GuestKeeps
<1>6. Window' /\ Prompt' BY <1>1, <1>2, <1>3, WindowKept
<1>7. OnKeys' BY <1>2, <1>3, <1>4, <1>5 DEF OnKeys
<1>8. "esc" \in ToSet(keys) => "esc" \in ToSet(keys') BY <1>0, <1>2, KeyRead
<1>9. Underway => Underway' BY <1>2, <1>3, <1>4, <1>5, <1>8 DEF Underway
<1>10. Enough' BY <1>0, <1>1, <1>3, <1>9, EnoughKept DEF Going
<1> QED BY <1>6, <1>7, <1>10 DEF Going

(* A key in the window of the on-screen keyboard: a letter, a move, a tap. *)
Tells(type, m) == Due = type => AnsweredBy(step, m)

LEMMA KeyboardTells ==
  ASSUME Known
  PROVE  Tells(<<"right">>, "KEYBOARD SEL 0 1") /\ Tells(<<"ret">>, "KEYBOARD TEXT ab1")
<1>1. /\ Due = <<"right">> => MoveStep(step)
      /\ Due = <<"ret">> => TapStep(step)
  BY KnownDue DEF DueTells
<1>2. Tells(<<"right">>, "KEYBOARD SEL 0 1") BY <1>1 DEF MoveStep, Tells
<1>3. Tells(<<"ret">>, "KEYBOARD TEXT ab1") BY <1>1 DEF TapStep, Tells
<1> QED BY <1>2, <1>3

LEMMA TextTyped ==
  ASSUME NEW f, NEW k, NEW s, Text(f, k, s), k # <<>>
  PROVE  /\ Head(k) \in {"a", "b"} /\ f # AB
         /\ Text(Append(f, Head(k)), Tail(k), s)
<1>1. /\ AB # <<>> /\ Head(AB) = "a" /\ Tail(AB) = <<"b">> /\ \A x : AB # <<x>>
  BY KeysTyped
<1>2. /\ Append(<<>>, "a") = <<"a">> /\ Append(<<"a">>, "b") = AB
      /\ Head(<<"a">>) = "a" /\ Tail(<<"a">>) = <<>>
      /\ Head(<<"b">>) = "b" /\ Tail(<<"b">>) = <<>>
      /\ <<"a">> # <<>>
  <2>1. Append(<<>>, "a") = <<"a">> OBVIOUS
  <2>2. Append(<<"a">>, "b") = <<"a", "b">>
    <3>1. <<"a">> \in Seq({"a", "b"}) /\ <<"a", "b">> \in Seq({"a", "b"}) OBVIOUS
    <3>2. /\ Len(Append(<<"a">>, "b")) = 2 /\ Len(<<"a", "b">>) = 2
          /\ Append(<<"a">>, "b")[1] = "a" /\ Append(<<"a">>, "b")[2] = "b"
          /\ Append(<<"a">>, "b") \in Seq({"a", "b"})
      BY <3>1
    <3>3. \A i \in 1..2 : i = 1 \/ i = 2 OBVIOUS
    <3>4. <<"a", "b">>[1] = "a" /\ <<"a", "b">>[2] = "b" OBVIOUS
    <3>5. \A i \in 1..2 : Append(<<"a">>, "b")[i] = <<"a", "b">>[i] BY <3>2, <3>3, <3>4
    <3> QED BY <3>1, <3>2, <3>5, SeqEqual
  <2>3. /\ Head(<<"a">>) = "a" /\ Tail(<<"a">>) = <<>>
        /\ Head(<<"b">>) = "b" /\ Tail(<<"b">>) = <<>>
        /\ <<"a">> # <<>>
    OBVIOUS
  <2> QED BY <2>1, <2>2, <2>3 DEF AB
<1>3. CASE f = <<>> /\ k = <<"a">> /\ s = <<"b">> BY <1>1, <1>2, <1>3 DEF Text
<1>4. CASE f = <<>> /\ k = AB /\ s = <<>> BY <1>1, <1>2, <1>4 DEF Text
<1>5. CASE f = <<"a">> /\ k = <<"b">> /\ s = <<>> BY <1>1, <1>2, <1>5 DEF Text
<1> QED BY <1>3, <1>4, <1>5 DEF Text

LEMMA KeyboardKept ==
  ASSUME Known, Known', Alive, Going, KeyboardKey
  PROVE  Going'
<1>0. SmokeInv /\ SmokeInv' BY DEF Known
<1>1. GuestMoves BY <1>0, GuestActs
<1>2. /\ app = "keyboard" /\ Arrives /\ Key # "esc" /\ app' = app /\ shown' = shown
      /\ app \in Applications
  BY NoApplication DEF KeyboardKey
<1>3. /\ keys \in Seq(AllKeys) /\ keys # <<>> /\ keys' = Tail(keys) /\ Key = Head(keys)
      /\ ToSet(keys) = {Key} \cup ToSet(keys')
  BY <1>0, <1>2, KeyRead
<1>4. /\ Due' = Due /\ step' = step /\ typed' = typed /\ sending' = sending
      /\ (Answer => Answer') /\ AB' = AB
      /\ \A m : AnsweredBy(step, m) /\ m \in Said' => Answer'
  BY <1>0, <1>1, GuestKeeps DEF AB
<1>5. Tells(<<"right">>, "KEYBOARD SEL 0 1") /\ Tells(<<"ret">>, "KEYBOARD TEXT ab1")
  BY KeyboardTells
<1>6. Window' /\ Prompt' BY <1>1, <1>2, WindowKept
<1>7. TapKey \/ MoveKey \/ TextKey BY <1>0, KeyboardKeys
<1>8. step # 5 BY <1>2, <1>3 DEF Going, OnKeys, Opened
<1>9. ASSUME step = 6 PROVE Lettered'
  <2>1. Lettered BY <1>9 DEF Going, OnKeys
  <2>2. typed /\ Text(field, keys, sending) BY <1>3, <2>1 DEF Lettered
  <2>3. /\ Key \in {"a", "b"} /\ field # AB /\ Text(Append(field, Key), keys', sending)
    BY <1>3, <2>2, TextTyped
  <2>4. TextKey BY <1>7, <2>3 DEF TapKey, MoveKey
  <2>5. field' = Append(field, Key) /\ Said' = Said /\ UNCHANGED <<sel, tap>>
    BY <2>4 DEF TextKey
  <2>6. "KEYBOARD TEXT ab" \notin Said BY <2>1, <2>3 DEF Lettered
  <2> QED BY <1>2, <1>4, <2>1, <2>2, <2>3, <2>5, <2>6 DEF Lettered
<1>10. ASSUME Due = <<"right">> PROVE Moved' /\ Answer'
  <2>1. Moved BY <1>10 DEF Going, OnKeys
  <2>2. sel = 0 /\ typed /\ keys = <<"right">> /\ sending = <<>>
    BY <1>3, <2>1 DEF Moved
  <2>3. Key = "right" /\ keys' = <<>>
    <3>1. Head(<<"right">>) = "right" /\ Tail(<<"right">>) = <<>> OBVIOUS
    <3> QED BY <1>3, <2>2, <3>1
  <2>4. MoveKey BY <1>7, <2>3 DEF TapKey, TextKey
  <2>5. sel' = 1 /\ UNCHANGED <<field, tap>> /\ Said' = Said \cup {"KEYBOARD SEL 0 1"}
    <3>1. 0 + 1 = 1 OBVIOUS
    <3> QED BY <2>2, <2>4, <3>1 DEF MoveKey
  <2>6. Answer' BY <1>4, <1>5, <1>10, <2>5 DEF Tells
  <2> QED BY <1>2, <1>4, <2>1, <2>2, <2>3, <2>5, <2>6 DEF Moved
<1>11. ASSUME Due = <<"ret">> PROVE Tapped' /\ tap' # None
  <2>1. Tapped BY <1>11 DEF Going, OnKeys
  <2>2. Key = "ret" BY <1>3, <2>1 DEF Tapped
  <2>3. TapKey BY <1>7, <2>2 DEF MoveKey, TextKey
  <2>4. tap' = TopRow[sel + 1] /\ Said' = Said /\ UNCHANGED <<field, sel>>
    BY <2>3 DEF TapKey
  <2>5. sel = 1 BY <2>1 DEF Tapped
  <2>6. TopRow[1 + 1] = "1" /\ "1" # None BY DEF TopRow, None
  <2>7. tap' = "1" /\ tap' # None BY <2>4, <2>5, <2>6
  <2> QED BY <1>2, <1>3, <2>1, <2>4, <2>7, <1>4 DEF Tapped, TapShown
<1>12. OnKeys' BY <1>4, <1>8, <1>9, <1>10, <1>11 DEF OnKeys
<1>13. "esc" \in ToSet(keys) => "esc" \in ToSet(keys') BY <1>2, <1>3
<1>14. ASSUME Underway PROVE Underway'
  <2>1. CASE Answer BY <1>4, <2>1 DEF Underway
  <2>2. CASE \E w \in Words : Due = Command(w)
                /\ (app = w \/ (app = "shell" /\ Asks(Stream, w)))
    BY <1>2, <1>4, <2>2 DEF Underway
  <2>3. CASE Due = <<"esc">> /\ app \in Applications /\ "esc" \in ToSet(keys)
    BY <1>2, <1>4, <1>13, <2>3 DEF Underway
  <2>4. CASE Due = <<"right">> BY <1>10, <2>4 DEF Underway
  <2>5. CASE Due = <<"ret">> BY <1>4, <1>11, <2>5 DEF Underway
  <2> QED BY <1>14, <2>1, <2>2, <2>3, <2>4, <2>5 DEF Underway
<1>15. Enough' BY <1>0, <1>1, <1>2, <1>14, EnoughKept, NoApplication DEF Going
<1> QED BY <1>6, <1>12, <1>15 DEF Going
(* A pass: the pending tap is added to the text, and the text is shown.    *)
LEMMA ShowsText ==
  ASSUME SmokeInv, ApplicationPass, app = "keyboard"
  PROVE  /\ tap = None => field' = field
         /\ tap # None => field' = Append(field, tap)
         /\ tap' = None /\ shown' = field' /\ sel' = sel /\ keys' = keys /\ app' = app
         /\ "KEYBOARD SEL 0 1" \in Said' => "KEYBOARD SEL 0 1" \in Said
         /\ "KEYBOARD TEXT ab" \in Said' =>
              "KEYBOARD TEXT ab" \in Said \/ (field' = AB /\ field' # shown)
         /\ "KEYBOARD TEXT ab1" \in Said' =>
              "KEYBOARD TEXT ab1" \in Said \/ (TapShown(field') /\ field' # shown)
         /\ field' = AB /\ field' # shown => "KEYBOARD TEXT ab" \in Said'
         /\ TapShown(field') /\ field' # shown => "KEYBOARD TEXT ab1" \in Said'
         /\ Said \subseteq Said'
<1>1. /\ tap = None => field' = field
      /\ tap # None => field' = Append(field, tap)
      /\ tap' = None /\ shown' = field' /\ sel' = sel /\ keys' = keys /\ app' = app
  BY DEF ApplicationPass
<1>2. Said' = Said \cup ToSet(PassText) \cup (IF framed THEN {} ELSE {FrameMarker(app)})
  BY PassShows
<1>3. FrameMarker(app) \notin Taps
  <2>1. app \in Applications BY NoApplication
  <2> QED BY <2>1, NoFrameMarkers
<1>4. \A m \in Taps : m \in Said' <=> m \in Said \/ m \in ToSet(PassText)
  BY <1>2, <1>3
<1>5. ToSet(<<>>) = {} /\ \A m : ToSet(<<m>>) = {m} BY Members
<1>6. CASE field' = shown
  <2>1. ToSet(PassText) = {} BY <1>5, <1>6 DEF PassText
  <2> QED BY <1>1, <1>2, <1>4, <1>6, <2>1 DEF Taps
<1>7. CASE field' # shown /\ field' = AB
  <2>1. PassText = <<"KEYBOARD TEXT ab">> /\ ~TapShown(field')
    BY <1>7, TextIs DEF PassText
  <2>2. ToSet(PassText) = {"KEYBOARD TEXT ab"} BY <1>5, <2>1
  <2> QED BY <1>1, <1>2, <1>4, <1>7, <2>1, <2>2 DEF Taps
<1>8. CASE field' # shown /\ TapShown(field')
  <2>1. PassText = <<"KEYBOARD TEXT ab1">> /\ field' # AB
    BY <1>8, TextIs DEF PassText
  <2>2. ToSet(PassText) = {"KEYBOARD TEXT ab1"} BY <1>5, <2>1
  <2> QED BY <1>1, <1>2, <1>4, <1>8, <2>1, <2>2 DEF Taps
<1>9. CASE field' # shown /\ field' # AB /\ ~TapShown(field')
  <2>1. PassText = <<>> BY <1>9, TextIs DEF PassText
  <2>2. ToSet(PassText) = {} BY <1>5, <2>1
  <2> QED BY <1>1, <1>2, <1>4, <1>9, <2>2 DEF Taps
<1> QED BY <1>6, <1>7, <1>8, <1>9

LEMMA TapAppended ==
  ASSUME NEW f \in Seq({"a", "b", "1"}), f = AB \/ TapShown(f)
  PROVE  /\ Append(f, "1") \in Seq({"a", "b", "1"}) /\ Append(f, "1") # f
         /\ TapShown(Append(f, "1"))
<1> DEFINE s == <<"a", "b", "1">>
           g == Append(f, "1")
<1>1. /\ g \in Seq({"a", "b", "1"}) /\ Len(f) \in Nat /\ Len(g) = Len(f) + 1
      /\ g[Len(f) + 1] = "1" /\ \A i \in 1..Len(f) : g[i] = f[i]
  OBVIOUS
<1>2. s \in Seq({"a", "b", "1"}) /\ Len(s) = 3 /\ s[1] = "a" /\ s[2] = "b" /\ s[3] = "1"
  OBVIOUS
<1>3. Len(AB) = 2 /\ AB[1] = "a" /\ AB[2] = "b" BY DEF AB
<1> HIDE DEF s, g
<1>4. Len(g) # Len(f) BY <1>1
<1>5. Len(g) >= 3 /\ g[1] = "a" /\ g[2] = "b" /\ g[3] = "1"
  <2>1. CASE f = AB
    <3>1. Len(f) = 2 /\ f[1] = "a" /\ f[2] = "b" BY <1>3, <2>1
    <3>2. 2 + 1 = 3 /\ 1 \in 1..2 /\ 2 \in 1..2 OBVIOUS
    <3> QED BY <1>1, <3>1, <3>2
  <2>2. CASE TapShown(f)
    <3>1. Len(s) <= Len(f) /\ SubSeq(s, 1, Len(s)) = SubSeq(f, 1, Len(s))
      BY <2>2 DEF TapShown, IsPrefix, s
    <3>2. 3 <= Len(f) /\ SubSeq(s, 1, 3) = SubSeq(f, 1, 3) BY <1>2, <3>1
    <3>3. /\ SubSeq(s, 1, 3)[1] = s[1] /\ SubSeq(s, 1, 3)[2] = s[2]
          /\ SubSeq(s, 1, 3)[3] = s[3]
      BY <1>2
    <3>4. /\ SubSeq(f, 1, 3)[1] = f[1] /\ SubSeq(f, 1, 3)[2] = f[2]
          /\ SubSeq(f, 1, 3)[3] = f[3]
      BY <1>1, <3>2
    <3>5. f[1] = "a" /\ f[2] = "b" /\ f[3] = "1" BY <1>2, <3>2, <3>3, <3>4
    <3>6. 1 \in 1..Len(f) /\ 2 \in 1..Len(f) /\ 3 \in 1..Len(f) BY <1>1, <3>2
    <3> QED BY <1>1, <3>2, <3>5, <3>6
  <2> QED BY <2>1, <2>2
<1>6. SubSeq(s, 1, 3) = SubSeq(g, 1, 3)
  <2>1. /\ SubSeq(s, 1, 3) \in Seq({"a", "b", "1"}) /\ Len(SubSeq(s, 1, 3)) = 3
        /\ \A i \in 1..3 : SubSeq(s, 1, 3)[i] = s[i]
    BY <1>2
  <2>2. /\ SubSeq(g, 1, 3) \in Seq({"a", "b", "1"}) /\ Len(SubSeq(g, 1, 3)) = 3
        /\ \A i \in 1..3 : SubSeq(g, 1, 3)[i] = g[i]
    BY <1>1, <1>5
  <2>3. \A i \in 1..3 : i = 1 \/ i = 2 \/ i = 3 OBVIOUS
  <2>4. \A i \in 1..3 : SubSeq(s, 1, 3)[i] = SubSeq(g, 1, 3)[i]
    BY <1>2, <1>5, <2>1, <2>2, <2>3
  <2> QED BY <2>1, <2>2, <2>4, SeqEqual
<1>7. TapShown(g)
  <2>1. Len(s) <= Len(g) BY <1>1, <1>2, <1>5
  <2>2. SubSeq(s, 1, Len(s)) = SubSeq(g, 1, Len(s)) BY <1>2, <1>6
  <2> QED BY <2>1, <2>2 DEF TapShown, IsPrefix, s
<1> QED BY <1>1, <1>4, <1>7 DEF g

(* What is underway but not yet tapped is still underway when neither the  *)
(* keys nor the application change.                                        *)
LEMMA UnderwayKept ==
  ASSUME SmokeInv, GuestMoves, app \in Applications, keys' = keys, app' = app, Underway
  PROVE  Underway' \/ (Due = <<"ret">> /\ tap # None)
<1>1. Due' = Due /\ (Answer => Answer') BY GuestKeeps
<1>2. CASE Answer BY <1>1, <1>2 DEF Underway
<1>3. CASE \E w \in Words : Due = Command(w)
              /\ (app = w \/ (app = "shell" /\ Asks(Stream, w)))
  <2>1. PICK w \in Words : Due = Command(w) /\ app = w BY <1>3, NoApplication
  <2> QED BY <1>1, <2>1 DEF Underway
<1>4. CASE Due = <<"esc">> /\ app \in Applications /\ "esc" \in ToSet(keys)
  BY <1>1, <1>4 DEF Underway
<1>5. CASE Due = <<"right">> /\ "right" \in ToSet(keys) BY <1>1, <1>5 DEF Underway
<1>6. CASE Due = <<"ret">> /\ "ret" \in ToSet(keys) BY <1>1, <1>6 DEF Underway
<1> QED BY <1>2, <1>3, <1>4, <1>5, <1>6 DEF Underway

LEMMA PassKeeps ==
  ASSUME Known, Known', Alive, Going, ApplicationPass
  PROVE  Going'
<1>0. SmokeInv /\ SmokeInv' BY DEF Known
<1>1. GuestMoves BY <1>0, GuestActs
<1>2. app \in Applications /\ keys' = keys /\ app' = app BY DEF ApplicationPass
<1>3. /\ Due' = Due /\ step' = step /\ typed' = typed /\ sending' = sending
      /\ (Answer => Answer') /\ AB' = AB
      /\ \A m : AnsweredBy(step, m) /\ m \in Said' => Answer'
  BY <1>0, <1>1, GuestKeeps DEF AB
<1>4. Window' /\ Prompt' BY <1>1, <1>2, WindowKept
<1>5. Tells(<<"right">>, "KEYBOARD SEL 0 1") /\ Tells(<<"ret">>, "KEYBOARD TEXT ab1")
  BY KeyboardTells
<1>6. CASE app # "keyboard"
  <2>1. step # 6 /\ Due # <<"right">> /\ Due # <<"ret">> BY <1>6, Elsewhere
  <2>2. OnKeys' BY <1>2, <1>3, <1>6, <2>1 DEF OnKeys
  <2>3. Underway => Underway' BY <1>0, <1>1, <1>2, <2>1, UnderwayKept
  <2>4. Enough' BY <1>0, <1>1, <1>2, <2>3, EnoughKept, NoApplication DEF Going
  <2> QED BY <1>4, <2>2, <2>4 DEF Going
<1>7. CASE app = "keyboard"
  <2>1. /\ tap = None => field' = field
        /\ tap # None => field' = Append(field, tap)
        /\ tap' = None /\ shown' = field' /\ sel' = sel
    BY <1>0, <1>7, ShowsText
  <2>2. /\ "KEYBOARD SEL 0 1" \in Said' => "KEYBOARD SEL 0 1" \in Said
        /\ "KEYBOARD TEXT ab" \in Said' =>
             "KEYBOARD TEXT ab" \in Said \/ (field' = AB /\ field' # shown)
        /\ "KEYBOARD TEXT ab1" \in Said' =>
             "KEYBOARD TEXT ab1" \in Said \/ (TapShown(field') /\ field' # shown)
        /\ field' = AB /\ field' # shown => "KEYBOARD TEXT ab" \in Said'
        /\ TapShown(field') /\ field' # shown => "KEYBOARD TEXT ab1" \in Said'
        /\ Said \subseteq Said'
    BY <1>0, <1>7, ShowsText
  <2>3. <<>> # AB /\ <<"a">> # AB /\ <<>> \notin {AB}
    BY KeysTyped
  <2>4. ~TapShown(AB) /\ ~TapShown(<<>>) /\ ~TapShown(<<"a">>)
    <3>1. Len(<<"a", "b", "1">>) = 3 /\ Len(<<>>) = 0 /\ Len(<<"a">>) = 1 OBVIOUS
    <3>2. ~(Len(<<"a", "b", "1">>) <= Len(<<>>)) /\ ~(Len(<<"a", "b", "1">>) <= Len(<<"a">>))
      BY <3>1
    <3>3. ~TapShown(<<>>) /\ ~TapShown(<<"a">>) BY <3>2 DEF TapShown, IsPrefix
    <3> QED BY <3>3, TextIs
  <2>5. ASSUME step = 5 PROVE Opened'
    <3>1. Opened BY <1>7, <2>5 DEF Going, OnKeys
    <3>2. field' = <<>> /\ shown = <<>> BY <2>1, <3>1 DEF Opened
    <3>3. Taps \cap Said' = {} BY <2>2, <2>3, <2>4, <3>1, <3>2 DEF Opened, Taps
    <3> QED BY <1>2, <1>3, <2>1, <3>1, <3>2, <3>3 DEF Opened, Taps
  <2>6. ASSUME step = 6 PROVE Lettered'
    <3>1. Lettered BY <2>6 DEF Going, OnKeys
    <3>2. field' = field BY <2>1, <3>1 DEF Lettered
    <3>3. field \in {<<>>, <<"a">>, AB} BY <3>1 DEF Lettered, Text
    <3>4. ~TapShown(field) BY <2>4, <3>3
    <3>5. IF "KEYBOARD TEXT ab" \in Said THEN shown = AB /\ field = AB ELSE shown # AB
      BY <3>1 DEF Lettered
    <3>6. IF "KEYBOARD TEXT ab" \in Said' THEN shown' = AB /\ field' = AB ELSE shown' # AB
      BY <2>1, <2>2, <3>2, <3>5
    <3>7. "KEYBOARD SEL 0 1" \notin Said' /\ "KEYBOARD TEXT ab1" \notin Said'
      BY <2>2, <3>1, <3>2, <3>4 DEF Lettered
    <3>8. IF typed THEN Text(field, keys, sending) ELSE field = <<>> /\ keys = <<>>
      BY <3>1 DEF Lettered
    <3>9. sel = 0 BY <3>1 DEF Lettered
    <3> QED BY <1>2, <1>3, <1>7, <2>1, <3>2, <3>3, <3>6, <3>7, <3>8, <3>9 DEF Lettered
  <2>7. ASSUME Due = <<"right">> PROVE Moved'
    <3>1. Moved BY <2>7 DEF Going, OnKeys
    <3>2. field' = AB /\ shown = AB BY <2>1, <3>1 DEF Moved
    <3>3. "KEYBOARD TEXT ab1" \notin Said' BY <2>2, <2>4, <3>1, <3>2 DEF Moved
    <3>4. "KEYBOARD SEL 0 1" \in Said' <=> "KEYBOARD SEL 0 1" \in Said BY <2>2
    <3> QED BY <1>2, <1>3, <1>7, <2>1, <3>1, <3>2, <3>3, <3>4 DEF Moved
  <2>8. ASSUME Due = <<"ret">> PROVE Tapped' /\ (tap # None => Answer')
    <3>1. Tapped BY <2>8 DEF Going, OnKeys
    <3>2. /\ field = shown /\ field \in Seq({"a", "b", "1"}) /\ tap \in {None, "1"}
          /\ field = AB \/ TapShown(field)
      BY <3>1 DEF Tapped
    <3>3. CASE tap = None
      <4>1. field' = field BY <2>1, <3>3
      <4>2. field = AB \/ (TapShown(field) /\ "KEYBOARD TEXT ab1" \in Said')
        BY <2>2, <3>1 DEF Tapped
      <4> QED BY <1>2, <1>3, <1>7, <2>1, <3>1, <3>3, <4>1, <4>2 DEF Tapped, TapShown
    <3>4. CASE tap # None
      <4>1. field' = Append(field, "1") BY <2>1, <3>2, <3>4
      <4>2. field' \in Seq({"a", "b", "1"}) /\ field' # shown /\ TapShown(field')
        BY <3>2, <4>1, TapAppended
      <4>3. "KEYBOARD TEXT ab1" \in Said' BY <2>2, <4>2
      <4>4. Answer' BY <1>3, <1>5, <2>8, <4>3 DEF Tells
      <4> QED BY <1>2, <1>3, <1>7, <2>1, <3>1, <4>2, <4>3, <4>4 DEF Tapped, TapShown
    <3> QED BY <3>3, <3>4
  <2>9. OnKeys' BY <1>3, <2>5, <2>6, <2>7, <2>8 DEF OnKeys
  <2>10. Underway => Underway'
    <3>1. Answer' => Underway' BY DEF Underway
    <3> QED BY <1>0, <1>1, <1>2, <2>8, <3>1, UnderwayKept
  <2>11. Enough' BY <1>0, <1>1, <1>2, <2>10, EnoughKept, NoApplication DEF Going
  <2> QED BY <1>4, <2>9, <2>11 DEF Going
<1> QED BY <1>6, <1>7

LEMMA GuestKept ==
  ASSUME Known, Known', Alive, Alive', Going,
         GuestBoots \/ GuestFaults \/ ShellKey \/ ApplicationEscape
           \/ ApplicationKey \/ KeyboardKey \/ ApplicationPass
  PROVE  Going'
<1>1. ~GuestFaults BY DEF GuestFaults, Alive
<1>2. CASE ShellKey BY <1>2, ShellKeys, TypeKept, PassKept, EnterKept
<1> QED BY <1>1, <1>2, BootGoes, EscapeKept, ApplicationKept, KeyboardKept, PassKeeps
-----------------------------------------------------------------------------
(* The steps of the driver, while nothing has gone wrong.                  *)
(* Nothing but what is typed, sent or lost counts.                         *)
Quiet == UNCHANGED <<step, typed, attempts, sending, keys, mishaps>>

(* What a step of the driver leaves to the guest, it leaves alone. *)
LEMMA DriverKeeps ==
  ASSUME DriverMoves
  PROVE  /\ Script' = Script /\ LastTap' = LastTap /\ Said' = Said /\ line' = line
         /\ UNCHANGED <<field, shown, sel, tap>> /\ AB' = AB
         /\ (step' = step => Due' = Due)
         /\ (keys' = keys => Stream' = Stream)
         /\ (mishaps' = mishaps => Missed' = Missed)
         /\ (step' = step => (Answer <=> Answer'))
<1>1. /\ arch' = arch /\ line' = line /\ Said' = Said /\ UNCHANGED <<field, shown, sel, tap>>
  BY DEF DriverMoves
<1>2. Script' = Script /\ LastTap' = LastTap /\ (step' = step => Due' = Due)
  BY <1>1, Fixed
<1>3. keys' = keys => Stream' = Stream BY <1>1 DEF Stream
<1>4. mishaps' = mishaps => Missed' = Missed BY DEF Missed, Mishaps
<1>5. step' = step => (Answer <=> Answer') BY <1>1, <1>2 DEF Answer
<1> QED BY <1>1, <1>2, <1>3, <1>4, <1>5 DEF AB

LEMMA QuietKept ==
  ASSUME DriverMoves, Quiet, app' = app, Going
  PROVE  Going'
<1>1. /\ Said' = Said /\ line' = line /\ UNCHANGED <<field, shown, sel, tap>> /\ AB' = AB
      /\ Due' = Due /\ Stream' = Stream /\ Missed' = Missed /\ (Answer <=> Answer')
      /\ UNCHANGED <<step, typed, attempts, sending, keys>>
  BY DriverKeeps DEF Quiet
<1>2. Window' BY <1>1 DEF Going, Window
<1>3. Tidy' <=> Tidy BY <1>1 DEF Tidy
<1>4. Fifth' <=> Fifth BY <1>1 DEF Fifth
<1>5. Prompt' BY <1>1, <1>3, <1>4 DEF Going, Prompt
<1>6. /\ Opened <=> Opened' 
      /\ Moved <=> Moved'
      /\ Tapped <=> Tapped'
  BY <1>1 DEF Opened, Moved, Tapped
<1>7. Lettered <=> Lettered' BY <1>1 DEF Lettered, Text
<1>8. OnKeys' BY <1>1, <1>6, <1>7 DEF Going, OnKeys
<1>9. Underway <=> Underway' BY <1>1 DEF Underway
<1>10. Completed' = Completed BY <1>1 DEF Completed
<1>11. Enough' BY <1>1, <1>3, <1>9, <1>10 DEF Going, Enough
<1> QED BY <1>2, <1>5, <1>8, <1>11 DEF Going

LEMMA QuietSteps ==
  ASSUME Connect \/ SendFails \/ NoticeExit \/ ReaderCopies \/ UNCHANGED smokeVars
  PROVE  DriverMoves /\ Quiet /\ app' = app
<1>1. Quiet /\ app' = app
  BY DEF Connect, SendFails, NoticeExit, ReaderCopies, smokeVars, driver, guest, Quiet
<1>2. DriverMoves BY DriverActs DEF DriverNext
<1> QED BY <1>1, <1>2

(* The markers that open an application's steps are not awaited elsewhere. *)
LEMMA ClosesAtHome ==
  ASSUME Known, Alive, TypeCommand, NEW a, ClosingStep(step, a)
  PROVE  app = a
<1>1. a \in Applications /\ step = Shut(a) BY DEF ClosingStep
<1>2. Polling /\ Awaited /\ ~typed BY DEF TypeCommand
<1>3. app = Home(step) BY <1>2, AtHome DEF Known, TypedIntoItsApplication
<1>4. LastTap \in {7, 9} /\ Home(2) = "gui" /\ Home(4) = "monitor"
      /\ (\A i \in 6..LastTap : Home(i) = "keyboard")
  BY Homes
<1>5. LastTap \in 6..LastTap BY <1>4
<1>6. Home(Shut(a)) = a
  <2>1. a = "gui" \/ a = "monitor" \/ a = "keyboard" BY <1>1, AppMarkers
  <2>2. Shut("gui") = 2 /\ Shut("monitor") = 4 /\ Shut("keyboard") = LastTap BY AppMarkers
  <2> QED BY <1>4, <1>5, <2>1, <2>2
<1> QED BY <1>1, <1>3, <1>6

LEMMA TypeCommandKept ==
  ASSUME Known, Known', Alive, Going, TypeCommand
  PROVE  Going'
<1>0. SmokeInv BY DEF Known
<1>1. /\ Polling /\ Awaited /\ ~typed /\ sending' = Due /\ typed' = TRUE /\ attempts' = 1
      /\ UNCHANGED <<step, keys, mishaps>> /\ app' = app /\ sending = <<>>
  BY DEF TypeCommand, Due, guest, Polling
<1>2. DriverMoves BY DriverActs DEF DriverNext
<1>3. /\ Said' = Said /\ line' = line /\ UNCHANGED <<field, shown, sel, tap>> /\ AB' = AB
      /\ Due' = Due /\ Stream' = Stream /\ Missed' = Missed /\ LastTap' = LastTap
  BY <1>1, <1>2, DriverKeeps
<1>4. keys \in Seq(AllKeys) /\ Due # <<>> BY <1>0, Streams, ShortTypes
<1>5. Window' BY <1>1, <1>3 DEF Going, Window
<1>6. Enough'
  <2>1. Completed' = 0
    <3>1. 1 - 1 = 0 OBVIOUS
    <3> QED BY <1>1, <1>4, <3>1 DEF Completed
  <2> QED BY <2>1 DEF Enough
<1>7. ASSUME app = "shell" PROVE Prompt'
  <2>1. /\ NoStop(line) /\ "right" \notin ToSet(keys) /\ EscFirst(Stream)
        /\ step = 5 => OnlyEsc(keys)
        /\ ~Missed => Ended(Stream)
    <3>1. sending # <<"ret">> BY <1>1, OneWord
    <3> QED BY <1>1, <1>7, <3>1 DEF Going, Prompt, Fifth, Tidy
  <2>2. Due # <<"esc">>
    <3> SUFFICES ASSUME Due = <<"esc">> PROVE FALSE
      OBVIOUS
    <3>1. PICK a : ClosingStep(step, a) BY KnownDue DEF DueTells
    <3>2. app = a /\ a \in Applications BY <3>1, ClosesAtHome DEF ClosingStep
    <3> QED BY <1>7, <3>2, NoApplication
  <2>3. step = 5 => Fifth'
    <3>1. ASSUME OnlyEsc(keys) PROVE RetLast(keys) /\ "ret" \notin ToSet(keys)
      <4>1. "ret" \notin ToSet(keys) BY <3>1 DEF OnlyEsc
      <4>2. \A i \in 1..Len(keys) : keys[i] # "ret" BY <1>4, <4>1, InList
      <4> QED BY <4>1, <4>2 DEF RetLast
    <3> QED BY <1>1, <2>1, <3>1 DEF Fifth
  <2>4. ~Missed => Tidy'
    <3>1. "shell" # "keyboard" OBVIOUS
    <3>2. Due # <<"ret">> BY <1>7, <3>1, Elsewhere
    <3> QED BY <1>1, <1>3, <2>1, <3>2 DEF Tidy
  <2> QED BY <1>1, <1>3, <2>1, <2>2, <2>3, <2>4 DEF Prompt
<1>8. Prompt' BY <1>1, <1>7 DEF Prompt
<1>9. ~(step = 5 /\ app = "keyboard")
  <2>1. Opens("keyboard") = 5 /\ "keyboard" \in Applications BY AppMarkers
  <2> QED BY <1>1, <2>1, Where DEF Within
<1>10. ASSUME step = 6 PROVE Lettered'
  <2>1. Lettered BY <1>10 DEF Going, OnKeys
  <2>2. field = <<>> /\ keys = <<>> BY <1>1, <2>1 DEF Lettered
  <2>3. Due = AB BY <1>10, KnownDue DEF DueTells
  <2>4. Text(field, keys, Due) BY <2>2, <2>3 DEF Text
  <2> QED BY <1>1, <1>3, <2>1, <2>4 DEF Lettered
<1>11. ASSUME Due = <<"right">> PROVE Moved'
  <2>1. Moved BY <1>11 DEF Going, OnKeys
  <2>2. "KEYBOARD SEL 0 1" \notin Said /\ sel = 0 /\ keys = <<>>
    BY <1>1, <2>1 DEF Moved
  <2> QED BY <1>1, <1>3, <2>1, <2>2 DEF Moved
<1>12. ASSUME Due = <<"ret">> PROVE Tapped'
  <2>1. Tapped BY <1>12 DEF Going, OnKeys
  <2> QED BY <1>1, <1>3, <2>1 DEF Tapped
<1>13. OnKeys' BY <1>1, <1>3, <1>9, <1>10, <1>11, <1>12 DEF OnKeys
<1> QED BY <1>5, <1>6, <1>8, <1>13 DEF Going

LEMMA AdvanceKept ==
  ASSUME Known, Known', Alive, Going, Advance
  PROVE  Going'
<1>0. SmokeInv BY DEF Known
<1>1. /\ Polling /\ Answered /\ typed /\ typed' = FALSE /\ attempts' = 0
      /\ step' = step + 1 /\ sending' = sending /\ sending = <<>>
      /\ UNCHANGED <<keys, mishaps>> /\ app' = app
  BY DEF Advance, guest, Polling
<1>2. DriverMoves BY DriverActs DEF DriverNext
<1>3. /\ Said' = Said /\ line' = line /\ UNCHANGED <<field, shown, sel, tap>> /\ AB' = AB
      /\ Stream' = Stream /\ Missed' = Missed /\ LastTap' = LastTap
  BY <1>1, <1>2, DriverKeeps
<1>4. keys \in Seq(AllKeys) /\ line \in Seq(AllKeys) /\ step \in Nat
  BY <1>0, Streams, Heard
<1>5. \A m : AnsweredBy(step, m) => m \in Said
  BY <1>0, <1>1, Logged DEF Answered, AnsweredBy
<1>6. DueTells /\ DueTells' /\ Located' BY KnownDue, DueNext, KnownNext
<1>7. Enough' BY <1>1 DEF Enough
<1>8. ASSUME app \in Applications PROVE "esc" \notin ToSet(keys)
  <2> SUFFICES ASSUME "esc" \in ToSet(keys) PROVE FALSE
    OBVIOUS
  <2>1. Due = <<"esc">> BY <1>8 DEF Going, Window
  <2>2. PICK b : ClosingStep(step, b) BY <1>6, <2>1 DEF DueTells
  <2>3. /\ b \in Applications /\ step = Shut(b) /\ AnsweredBy(step, ExitMarker(b))
    BY <2>2 DEF ClosingStep
  <2>4. Within(app) BY <1>8, Where
  <2>5. b = app
    <3>1. Opens(app) <= Shut(b) /\ Shut(b) <= Shut(app) BY <2>3, <2>4 DEF Within
    <3> QED BY <1>8, <2>3, <3>1, OpenShut
  <2> QED BY <1>5, <2>3, <2>4, <2>5 DEF Within
<1>9. Window' BY <1>1, <1>8 DEF Going, Window
<1>10. ASSUME app = "shell" PROVE Prompt'
  <2>1. /\ NoStop(line) /\ "right" \notin ToSet(keys) /\ EscFirst(Stream)
        /\ Due = <<"esc">> => OnlyEsc(Stream)
        /\ ~Missed => Ended(Stream)
    <3>1. sending # <<"ret">> BY <1>1, OneWord
    <3> QED BY <1>1, <1>10, <3>1 DEF Going, Prompt, Tidy
  <2>2. ASSUME step' = 5 PROVE Fifth'
    <3>1. step = 4
      <4>1. \A n \in Nat : n + 1 = 5 => n = 4 OBVIOUS
      <4> QED BY <1>1, <1>4, <2>2, <4>1
    <3>2. OnlyEsc(Stream) BY <1>6, <2>1, <3>1 DEF DueTells
    <3>3. ToSet(Stream) = ToSet(line) \cup ToSet(keys) BY <1>4, MembersJoined DEF Stream
    <3> QED BY <1>1, <3>2, <3>3 DEF Fifth, OnlyEsc
  <2>3. ~Missed => Tidy'
    <3>1. sending' # <<"ret">> BY <1>1, OneWord
    <3> QED BY <1>3, <2>1, <3>1 DEF Tidy
  <2> QED BY <1>1, <1>3, <2>1, <2>2, <2>3 DEF Prompt
<1>11. Prompt' BY <1>1, <1>10 DEF Prompt
<1>12. ~(step' = 5 /\ app' = "keyboard")
  <2>1. Opens("keyboard") = 5 /\ "keyboard" \in Applications BY AppMarkers
  <2>2. Opens("keyboard")' = Opens("keyboard") BY DEF Opens
  <2> QED BY <1>1, <1>6, <2>1, <2>2 DEF Located, Within
<1>13. LastTap \in {7, 9} BY Homes
<1>14. ASSUME step' = 6 PROVE Lettered'
  <2>1. app = "keyboard"
    <3>1. 6 <= step' /\ step' <= LastTap' BY <1>3, <1>13, <1>14
    <3>2. Alive' BY <1>1 DEF Alive
    <3> QED BY <1>1, <1>6, <3>1, <3>2 DEF Located
  <2>2. step = 5
    <3>1. \A n \in Nat : n + 1 = 6 => n = 5 OBVIOUS
    <3> QED BY <1>1, <1>4, <1>14, <3>1
  <2>3. Opened BY <2>1, <2>2 DEF Going, OnKeys
  <2>4. AB # <<>> BY KeysTyped
  <2> QED BY <1>1, <1>3, <2>1, <2>3, <2>4 DEF Opened, Lettered, Taps
<1>15. ASSUME Due' = <<"right">> PROVE Moved'
  <2>1. MoveStep(step)' BY <1>6, <1>15 DEF DueTells
  <2>2. step' = 7 BY <2>1 DEF MoveStep
  <2>3. step = 6
    <3>1. \A n \in Nat : n + 1 = 7 => n = 6 OBVIOUS
    <3> QED BY <1>1, <1>4, <2>2, <3>1
  <2>4. Lettered BY <2>3 DEF Going, OnKeys
  <2>5. "KEYBOARD TEXT ab" \in Said BY <1>5, <1>6, <2>3 DEF DueTells, TextStep
  <2>6. shown = AB /\ field = AB /\ Text(field, keys, sending)
    BY <1>1, <2>4, <2>5 DEF Lettered
  <2>7. keys = <<>>
    <3>1. AB # <<>> /\ AB # <<"a">> BY KeysTyped
    <3> QED BY <2>6, <3>1 DEF Text
  <2> QED BY <1>1, <1>3, <2>4, <2>6, <2>7 DEF Lettered, Moved
<1>16. ASSUME Due' = <<"ret">> PROVE Tapped'
  <2>1. TapStep(step)' BY <1>6, <1>16 DEF DueTells
  <2>2. step' = 8 /\ LastTap = 9 BY <1>3, <2>1 DEF TapStep
  <2>3. step = 7
    <3>1. \A n \in Nat : n + 1 = 8 => n = 7 OBVIOUS
    <3> QED BY <1>1, <1>4, <2>2, <3>1
  <2>4. Due = <<"right">> BY <1>6, <2>2, <2>3 DEF DueTells
  <2>5. Moved BY <2>4 DEF Going, OnKeys
  <2>6. "KEYBOARD SEL 0 1" \in Said BY <1>5, <2>4, KeyboardTells DEF Tells
  <2>7. sel = 1 /\ keys = <<>> BY <2>5, <2>6 DEF Moved
  <2>8. AB \in Seq({"a", "b", "1"}) BY DEF AB
  <2>9. ToSet(<<>>) = {} BY Members
  <2> QED BY <1>1, <1>3, <2>5, <2>7, <2>8, <2>9 DEF Moved, Tapped
<1>17. OnKeys' BY <1>12, <1>14, <1>15, <1>16 DEF OnKeys
<1> QED BY <1>7, <1>9, <1>11, <1>17 DEF Going
(* A step typed again.  One that must not be typed twice has its answer    *)
(* when the guest has settled, so that it is not typed again.              *)
LEMMA RetypeKept ==
  ASSUME Known, Known', Alive, Going, Retype, FragileToHaste(step) => Settled
  PROVE  Going'
<1>0. SmokeInv /\ Basics BY DEF Known
<1>1. /\ Polling /\ ~Answered /\ typed /\ typed' = typed /\ attempts' = attempts + 1
      /\ sending' = Due /\ sending = <<>>
      /\ UNCHANGED <<step, keys>> /\ app' = app
      /\ (mishaps' = mishaps \/ mishaps' = mishaps \cup {<<"hasty", step, attempts>>})
  BY DEF Retype, Due, guest, Polling
<1>2. DriverMoves BY DriverActs DEF DriverNext
<1>3. /\ Said' = Said /\ line' = line /\ UNCHANGED <<field, shown, sel, tap>> /\ AB' = AB
      /\ Stream' = Stream /\ LastTap' = LastTap /\ Due' = Due /\ (Answer <=> Answer')
  BY <1>1, <1>2, DriverKeeps
<1>4. Missed' = Missed
  <2>1. <<"hasty", step, attempts>>[1] # "lost" OBVIOUS
  <2> QED BY <1>1, <2>1 DEF Missed, Mishaps
<1>5. Due # <<>> /\ attempts \in Nat BY <1>0, ShortTypes DEF Basics
<1>6. DueTells BY KnownDue
<1>7. Due = Script[step].type BY <1>6 DEF DueTells
<1>8. ASSUME Settled, NEW m, AnsweredBy(step, m) PROVE m \notin Said
  <2>1. logged = Len(out) BY <1>8 DEF Settled
  <2> QED BY <1>0, <1>1, <1>8, <2>1, AllLogged DEF Answered, AnsweredBy
<1>9. Window' BY <1>1, <1>3 DEF Going, Window
<1>10. ASSUME app = "shell" PROVE Ended(Stream) <=> Tidy
  <2>1. sending # <<"ret">> BY <1>1, OneWord
  <2> QED BY <2>1 DEF Tidy
<1>11. ASSUME app = "shell" PROVE Ended(Stream) <=> Tidy'
  <2>1. "shell" # "keyboard" OBVIOUS
  <2>2. Due # <<"ret">> BY <1>11, <2>1, Elsewhere
  <2> QED BY <1>1, <1>3, <2>2 DEF Tidy
<1>12. ASSUME step = 5 PROVE Settled
  <2>1. Due = Command("keyboard") BY <1>6, <1>12 DEF DueTells
  <2> QED BY <1>7, <2>1 DEF FragileToHaste
<1>13. ASSUME app = "shell" PROVE Prompt'
  <2>1. ASSUME step = 5 PROVE Fifth'
    <3>1. keys = <<>> BY <1>12, <2>1 DEF Settled
    <3>2. RetLast(keys) /\ "ret" \notin ToSet(keys) BY <3>1, Members DEF RetLast
    <3> QED BY <1>1, <3>2 DEF Fifth
  <2> QED BY <1>1, <1>3, <1>4, <1>10, <1>11, <1>13, <2>1 DEF Going, Prompt
<1>14. Prompt' BY <1>1, <1>13 DEF Prompt
<1>15. ~(step = 5 /\ app = "keyboard")
  <2> SUFFICES ASSUME step = 5, app = "keyboard" PROVE FALSE
    OBVIOUS
  <2>1. Settled BY <1>12
  <2>2. app \in Applications BY NoApplication
  <2>3. framed BY <2>1, <2>2 DEF Settled
  <2>4. FrameMarker(app) \in Said BY <2>2, <2>3 DEF Known, Frames
  <2>5. Due = Command("keyboard") /\ "keyboard" \in Words
    BY <1>6, NoApplication DEF DueTells
  <2>6. OpeningStep(step, app) BY <1>6, <2>2, <2>5, KnownLocated DEF Located
  <2>7. AnsweredBy(step, FrameMarker(app)) BY <2>6 DEF OpeningStep
  <2> QED BY <1>8, <2>1, <2>4, <2>7
<1>16. step # 6
  <2> SUFFICES ASSUME step = 6 PROVE FALSE
    OBVIOUS
  <2>1. Due = AB /\ TextStep(step) BY <1>6 DEF DueTells
  <2>2. Settled BY <1>7, <2>1 DEF FragileToHaste, AB
  <2>3. Lettered BY DEF Going, OnKeys
  <2>4. keys = <<>> /\ field = shown
    <3>1. app = "keyboard" BY <2>3 DEF Lettered
    <3> QED BY <2>2, <3>1, NoApplication DEF Settled
  <2>5. AB # <<>> /\ AB # <<"a">> /\ AB # <<"b">> /\ <<"b">> # <<>> BY KeysTyped, OneWord
  <2>6. field = AB
    <3>1. Text(field, keys, sending) BY <1>1, <2>3 DEF Lettered
    <3> QED BY <1>1, <2>4, <2>5, <3>1 DEF Text
  <2>7. "KEYBOARD TEXT ab" \in Said BY <2>3, <2>4, <2>6 DEF Lettered
  <2>8. AnsweredBy(step, "KEYBOARD TEXT ab") BY <2>1 DEF TextStep
  <2> QED BY <1>8, <2>2, <2>7, <2>8
<1>17. ASSUME Due = <<"right">> PROVE Moved'
  <2>1. Moved BY <1>17 DEF Going, OnKeys
  <2>2. Settled BY <1>7, <1>17 DEF FragileToHaste
  <2>3. keys = <<>> BY <2>2 DEF Settled
  <2>4. "KEYBOARD SEL 0 1" \notin Said BY <1>8, <1>17, <2>2, KeyboardTells DEF Tells
  <2> QED BY <1>1, <1>3, <2>1, <2>3, <2>4 DEF Moved
<1>18. ASSUME Due = <<"ret">> PROVE Tapped'
  <2>1. Tapped BY <1>18 DEF Going, OnKeys
  <2> QED BY <1>1, <1>3, <2>1 DEF Tapped
<1>19. OnKeys' BY <1>1, <1>3, <1>15, <1>16, <1>17, <1>18 DEF OnKeys
<1>20. Completed' = Completed
  <2>1. \A n \in Nat : (n + 1) - 1 = n OBVIOUS
  <2> QED BY <1>1, <1>5, <2>1 DEF Completed
<1>21. Underway <=> Underway' BY <1>1, <1>3 DEF Underway
<1>22. Enough'
  <2> SUFFICES ASSUME typed, Due # AB
               PROVE  \/ Underway' \/ Completed = 0 \/ (Completed = 1 /\ Missed)
                      \/ (Completed = 2 /\ Missed /\ app = "shell" /\ AskedFor /\ Tidy')
    BY <1>1, <1>3, <1>4, <1>20 DEF Enough, AskedFor
  <2>1. \/ Underway \/ Completed = 0 \/ (Completed = 1 /\ Missed)
        \/ (Completed = 2 /\ Missed /\ app = "shell" /\ AskedFor /\ Tidy)
    BY DEF Going, Enough, AskedFor
  <2> QED BY <1>10, <1>11, <1>21, <2>1
<1> QED BY <1>9, <1>14, <1>19, <1>22 DEF Going

(* What a step is about to send: a word, the end of a line, a single key.  *)
Sending(k, rest) ==
  \/ \E w \in Words : Due = Command(w) /\ sending = Due /\ k = w /\ rest = <<"ret">>
  \/ \E w \in Words : Due = Command(w) /\ sending = <<"ret">> /\ k = "ret" /\ rest = <<>>
  \/ k \in {"esc", "right", "ret"} /\ Due = <<k>> /\ sending = <<k>> /\ rest = <<>>
  \/ Due = AB /\ sending = AB /\ k = "a" /\ rest = <<"b">>
  \/ Due = AB /\ sending = <<"b">> /\ k = "b" /\ rest = <<>>

LEMMA SendsNext ==
  ASSUME Known, sending # <<>>
  PROVE  Sending(Head(sending), Tail(sending))
<1>1. DueTells BY KnownDue
<1>2. typed BY DEF Known, SmokeInv
<1>3. sending = Due \/ sending = Tail(Due) BY <1>2 DEF Known, Basics, Rest
<1>4. Head(<<"ret">>) = "ret" /\ Tail(<<"ret">>) = <<>> /\ Head(<<"b">>) = "b"
      /\ Tail(<<"b">>) = <<>>
  OBVIOUS
<1>5. CASE \E w \in Words : Due = Command(w)
  <2>1. PICK w \in Words : Due = Command(w) BY <1>5
  <2>2. Head(Due) = w /\ Tail(Due) = <<"ret">> BY <2>1, WordsTyped
  <2> QED BY <1>3, <1>4, <2>1, <2>2 DEF Sending
<1>6. ASSUME NEW k \in {"esc", "right", "ret"}, Due = <<k>>
      PROVE  Sending(Head(sending), Tail(sending))
  <2>1. Head(Due) = k /\ Tail(Due) = <<>>
    <3>1. \A x : Head(<<x>>) = x /\ Tail(<<x>>) = <<>> OBVIOUS
    <3> QED BY <1>6, <3>1
  <2> QED BY <1>3, <1>6, <2>1 DEF Sending
<1>7. CASE Due = AB
  <2>1. Head(AB) = "a" /\ Tail(AB) = <<"b">> BY KeysTyped
  <2> QED BY <1>3, <1>4, <1>7, <2>1 DEF Sending
<1> QED BY <1>1, <1>5, <1>6, <1>7 DEF DueTells

LEMMA SendingIs ==
  ASSUME Known, sending # <<>>
  PROVE  /\ Head(sending) \in AllKeys
         /\ (Head(sending) = "esc" <=> Due = <<"esc">>)
         /\ (Head(sending) = "right" <=> Due = <<"right">>)
         /\ (Head(sending) = "ret" /\ Due # <<"ret">> <=> sending = <<"ret">> /\ Due # <<"ret">>)
         /\ (sending = <<"ret">> => Tail(sending) = <<>>)
         /\ (Head(sending) \in Words <=> sending = Due /\ \E w \in Words : Due = Command(w))
<1>1. Sending(Head(sending), Tail(sending)) BY SendsNext
<1>2. sending \in Seq(AllKeys) BY DEF Known, SmokeInv
<1>3. Head(sending) \in AllKeys BY <1>2, TailDrops
<1>4. "esc" \notin Words /\ "ret" \notin Words /\ "right" \notin Words /\ "a" \notin Words
      /\ "b" \notin Words
  BY DEF Words
<1>5. \A w \in Words : /\ Command(w) # <<"ret">> /\ Command(w) # <<"esc">>
                       /\ Command(w) # <<"right">> /\ Command(w) # AB
  BY WordsTyped
<1>6. /\ <<"right">> # <<"esc">> /\ <<"right">> # <<"ret">> /\ <<"esc">> # <<"ret">>
      /\ AB # <<"right">> /\ AB # <<"esc">> /\ AB # <<"ret">> /\ <<"b">> # <<"ret">>
      /\ <<"b">> # AB
  BY KeysTyped, OneWord
<1>7. \A x : Tail(<<x>>) = <<>> OBVIOUS
<1>8. CASE \E w \in Words : /\ Due = Command(w) /\ sending = Due /\ Head(sending) = w
                            /\ Tail(sending) = <<"ret">>
  BY <1>3, <1>4, <1>5, <1>8
<1>9. CASE \E w \in Words : /\ Due = Command(w) /\ sending = <<"ret">>
                            /\ Head(sending) = "ret" /\ Tail(sending) = <<>>
  BY <1>3, <1>4, <1>5, <1>9
<1>10. CASE /\ Head(sending) \in {"esc", "right", "ret"} /\ Due = <<Head(sending)>>
            /\ sending = <<Head(sending)>> /\ Tail(sending) = <<>>
  BY <1>3, <1>4, <1>5, <1>6, <1>10
<1>11. CASE Due = AB /\ sending = AB /\ Head(sending) = "a" /\ Tail(sending) = <<"b">>
  BY <1>3, <1>4, <1>5, <1>6, <1>7, <1>11
<1>12. CASE Due = AB /\ sending = <<"b">> /\ Head(sending) = "b" /\ Tail(sending) = <<>>
  BY <1>3, <1>4, <1>5, <1>6, <1>12
<1> QED BY <1>1, <1>8, <1>9, <1>10, <1>11, <1>12 DEF Sending
(* A key is sent: it comes after the others.                               *)
LEMMA SendKeeps ==
  ASSUME Known, SendKey
  PROVE  /\ DriverMoves /\ app' = app /\ UNCHANGED <<step, typed, attempts>> /\ typed
         /\ sending # <<>> /\ sending' = Tail(sending) /\ (Sends \/ Loses)
         /\ keys \in Seq(AllKeys) /\ Stream \in Seq(AllKeys) /\ attempts \in Nat
         /\ Said' = Said /\ line' = line /\ UNCHANGED <<field, shown, sel, tap>>
         /\ AB' = AB /\ Due' = Due /\ (Answer <=> Answer') /\ LastTap' = LastTap
<1>0. SmokeInv /\ Basics BY DEF Known
<1>1. /\ app' = app /\ UNCHANGED <<step, typed, attempts>> /\ typed
      /\ sending # <<>> /\ sending' = Tail(sending) /\ (Sends \/ Loses)
      /\ keys \in Seq(AllKeys)
  BY <1>0, KeySent DEF guest
<1>2. DriverMoves BY DriverActs DEF DriverNext
<1>3. Stream \in Seq(AllKeys) /\ attempts \in Nat BY <1>0, Streams DEF Basics
<1> QED BY <1>1, <1>2, <1>3, DriverKeeps

(* The keys on their way after one more of them. *)
After(k) ==
  /\ keys' = Append(keys, k) /\ keys' \in Seq(AllKeys) /\ Grown(keys', keys, k)
  /\ Stream' = Append(Stream, k) /\ Stream' \in Seq(AllKeys) /\ Grown(Stream', Stream, k)
  /\ ToSet(keys') = ToSet(keys) \cup {k} /\ ToSet(Stream') = ToSet(Stream) \cup {k}

LEMMA StreamGrows ==
  ASSUME Known, SendKey, NEW k \in AllKeys, keys' = Append(keys, k)
  PROVE  After(k)
<1>1. /\ keys \in Seq(AllKeys) /\ Stream \in Seq(AllKeys) /\ line' = line
  BY SendKeeps
<1>2. line \in Seq(AllKeys) BY DEF Known, SmokeInv
<1>3. Stream' = Append(Stream, k) BY <1>1, <1>2, StreamSent DEF Stream
<1> QED BY <1>1, <1>3, Grows DEF After

LEMMA SendOrders ==
  ASSUME Known, SendKey, Alive, Going, Sends
  PROVE  /\ Window' /\ Prompt' /\ After(Head(sending))
         /\ (app = "shell" /\ Tidy => Tidy')
<1> DEFINE k == Head(sending)
<1>1. /\ app' = app /\ UNCHANGED <<step, typed>> /\ typed
      /\ sending # <<>> /\ sending' = Tail(sending)
      /\ keys \in Seq(AllKeys) /\ Stream \in Seq(AllKeys)
      /\ line' = line /\ Due' = Due
  BY SendKeeps
<1>2. /\ k \in AllKeys /\ (k = "esc" <=> Due = <<"esc">>) /\ (k = "right" <=> Due = <<"right">>)
      /\ (k = "ret" /\ Due # <<"ret">> <=> sending = <<"ret">> /\ Due # <<"ret">>)
      /\ (sending = <<"ret">> => Tail(sending) = <<>>)
  BY <1>1, SendingIs
<1>3. After(k) BY <1>2, StreamGrows DEF Sends
<1>4. Sending(k, Tail(sending)) BY <1>1, SendsNext
<1> HIDE DEF k
<1>5. /\ keys' \in Seq(AllKeys) /\ Grown(keys', keys, k)
      /\ Stream' \in Seq(AllKeys) /\ Grown(Stream', Stream, k)
      /\ ToSet(keys') = ToSet(keys) \cup {k} /\ ToSet(Stream') = ToSet(Stream) \cup {k}
  BY <1>3 DEF After
<1>6. Missed' = Missed BY DEF Sends, Missed, Mishaps
<1>7. Window'
  <2> SUFFICES ASSUME app \in Applications
               PROVE  EscLast(keys') /\ ("esc" \in ToSet(keys') => Due = <<"esc">>)
    BY <1>1 DEF Window
  <2>1. EscLast(keys) /\ ("esc" \in ToSet(keys) => Due = <<"esc">>)
    BY DEF Going, Window
  <2>2. EscLast(keys') BY <1>1, <1>2, <1>5, <2>1, GrowOrders
  <2> QED BY <1>2, <1>5, <2>1, <2>2
<1>8. ASSUME app = "shell"
      PROVE  Prompt' /\ (Tidy => Tidy')
  <2>1. /\ NoStop(line) /\ "right" \notin ToSet(keys) /\ EscFirst(Stream)
        /\ Due = <<"esc">> => OnlyEsc(Stream)
        /\ step = 5 => Fifth
        /\ ~Missed => Tidy
    BY <1>1, <1>8 DEF Going, Prompt
  <2>2. Due # <<"ret">> /\ Due # <<"right">> /\ Due # AB
    <3>1. "shell" # "keyboard" OBVIOUS
    <3> QED BY <1>8, <3>1, Elsewhere
  <2>3. EscFirst(Stream') /\ (Due = <<"esc">> => OnlyEsc(Stream'))
    BY <1>1, <1>2, <1>5, <2>1, GrowOrders
  <2>4. ASSUME step = 5 PROVE Fifth'
    <3>1. "ret" \notin ToSet(keys) BY <1>1, <2>1, <2>4 DEF Fifth
    <3>2. RetLast(keys') BY <1>1, <1>5, <3>1, GrowOrders
    <3>3. "ret" \in ToSet(keys') => sending' = <<>> BY <1>1, <1>2, <1>5, <2>2, <3>1
    <3> QED BY <1>1, <3>2, <3>3 DEF Fifth
  <2>5. ASSUME Tidy PROVE Tidy'
    <3>1. CASE \E w \in Words : Due = Command(w) /\ sending = Due /\ k = w
                                /\ Tail(sending) = <<"ret">>
      <4>1. PICK w \in Words : Due = Command(w) /\ sending = Due /\ k = w
                               /\ Tail(sending) = <<"ret">>
        BY <3>1
      <4>2. Ended(Stream) BY <2>2, <2>5, <4>1 DEF Tidy
      <4>3. Halfway(Stream', k) BY <1>1, <1>5, <4>2, GrowTidy
      <4>4. Due[1] = w BY <4>1, WordsTyped
      <4> QED BY <1>1, <4>1, <4>3, <4>4 DEF Tidy
    <3>2. CASE sending = <<"ret">> /\ k = "ret" /\ Tail(sending) = <<>>
      <4>1. Ended(Stream') BY <1>1, <1>5, <3>2, GrowTidy DEF Stops
      <4>2. sending' # <<"ret">> BY <1>1, <3>2, OneWord
      <4> QED BY <4>1, <4>2 DEF Tidy
    <3>3. CASE k = "esc" /\ Tail(sending) = <<>>
      <4>1. Ended(Stream') BY <1>1, <1>5, <3>3, GrowTidy DEF Stops
      <4>2. sending' # <<"ret">> BY <1>1, <3>3, OneWord
      <4> QED BY <4>1, <4>2 DEF Tidy
    <3> QED BY <1>4, <2>2, <3>1, <3>2, <3>3 DEF Sending
  <2>6. Prompt'
    BY <1>1, <1>2, <1>5, <1>6, <2>1, <2>2, <2>3, <2>4, <2>5 DEF Prompt
  <2> QED BY <2>5, <2>6
<1>9. Prompt' BY <1>1, <1>8 DEF Prompt
<1> QED BY <1>3, <1>7, <1>8, <1>9 DEF k

LEMMA TextSent ==
  ASSUME NEW f, NEW q, NEW s, Text(f, q, s), s # <<>>
  PROVE  Text(f, Append(q, Head(s)), Tail(s)) /\ f # AB
<1>1. /\ AB # <<>> /\ Head(AB) = "a" /\ Tail(AB) = <<"b">> /\ \A x : AB # <<x>>
  BY KeysTyped
<1>2. Append(<<>>, "a") = <<"a">> /\ Append(<<>>, "b") = <<"b">>
      /\ Head(<<"b">>) = "b" /\ Tail(<<"b">>) = <<>> /\ <<"a">> # <<>>
  OBVIOUS
<1>3. Append(<<"a">>, "b") = AB
  <2>1. Text(<<"a">>, <<"b">>, <<>>) BY DEF Text
  <2>2. <<"b">> # <<>> BY OneWord
  <2>3. Text(Append(<<"a">>, Head(<<"b">>)), Tail(<<"b">>), <<>>) BY <2>1, <2>2, TextTyped
  <2>4. Text(Append(<<"a">>, "b"), <<>>, <<>>) BY <1>2, <2>3
  <2>5. <<"a">> # <<>> /\ AB # <<>> /\ <<"b">> # <<>> BY <1>1, OneWord
  <2> QED BY <2>4, <2>5 DEF Text
<1>4. CASE f = <<>> /\ q = <<>> /\ s = AB BY <1>1, <1>2, <1>4 DEF Text
<1>5. CASE f = <<>> /\ q = <<"a">> /\ s = <<"b">> BY <1>1, <1>2, <1>3, <1>5 DEF Text
<1>6. CASE f = <<"a">> /\ q = <<>> /\ s = <<"b">> BY <1>1, <1>2, <1>6 DEF Text
<1> QED BY <1>4, <1>5, <1>6 DEF Text

LEMMA SendOnKeys ==
  ASSUME Known, SendKey, Alive, Going, Sends
  PROVE  OnKeys'
<1> DEFINE k == Head(sending)
<1>1. /\ app' = app /\ UNCHANGED <<step, typed>> /\ typed
      /\ sending # <<>> /\ sending' = Tail(sending) /\ keys \in Seq(AllKeys)
      /\ Said' = Said /\ UNCHANGED <<field, shown, sel, tap>> /\ AB' = AB /\ Due' = Due
  BY SendKeeps
<1>2. Sending(k, Tail(sending)) /\ k \in AllKeys BY <1>1, SendsNext, SendingIs
<1>3. After(k) BY <1>2, StreamGrows DEF Sends
<1> HIDE DEF k
<1>4. keys' = Append(keys, k) /\ ToSet(keys') = ToSet(keys) \cup {k} BY <1>3 DEF After
<1>5. /\ <<"right">> # <<"ret">> /\ AB # <<"right">> /\ AB # <<"ret">>
      /\ \A w \in Words : Command(w) # <<"ret">> /\ Command(w) # <<"right">>
      /\ \A x, y : <<x>> = <<y>> => x = y
  BY KeysTyped, WordsTyped, OneWord
<1>6. ~(step = 5 /\ app = "keyboard") BY <1>1 DEF Going, OnKeys, Opened
<1>7. ASSUME step = 6 PROVE Lettered'
  <2>1. Lettered BY <1>7 DEF Going, OnKeys
  <2>2. Text(field, keys, sending) BY <1>1, <2>1 DEF Lettered
  <2>3. Text(field, Append(keys, k), Tail(sending)) BY <1>1, <2>2, TextSent DEF k
  <2> QED BY <1>1, <1>4, <2>1, <2>3 DEF Lettered, Text
<1>8. ASSUME Due = <<"right">> PROVE Moved'
  <2>1. Moved BY <1>8 DEF Going, OnKeys
  <2>2. keys = <<>> /\ "KEYBOARD SEL 0 1" \notin Said /\ sel = 0 BY <1>1, <2>1 DEF Moved
  <2>3. k = "right" /\ Tail(sending) = <<>>
    BY <1>2, <1>5, <1>8 DEF Sending
  <2>4. keys' = <<"right">>
    <3>1. Append(<<>>, "right") = <<"right">> OBVIOUS
    <3> QED BY <1>4, <2>2, <2>3, <3>1
  <2> QED BY <1>1, <2>1, <2>2, <2>3, <2>4 DEF Moved
<1>9. ASSUME Due = <<"ret">> PROVE Tapped'
  <2>1. Tapped BY <1>9 DEF Going, OnKeys
  <2>2. k = "ret" BY <1>2, <1>5, <1>9 DEF Sending
  <2> QED BY <1>1, <1>4, <2>1, <2>2 DEF Tapped
<1> QED BY <1>1, <1>6, <1>7, <1>8, <1>9 DEF OnKeys

(* The last key of a step is sent: its answer is underway, unless a key    *)
(* was lost.                                                               *)
LEMMA SendEnough ==
  ASSUME Known, SendKey, Alive, Going, Sends
  PROVE  Enough'
<1> DEFINE k == Head(sending)
<1>1. /\ app' = app /\ UNCHANGED <<step, typed, attempts, tap>> /\ typed
      /\ sending # <<>> /\ sending' = Tail(sending) /\ attempts \in Nat
      /\ Stream \in Seq(AllKeys) /\ Due' = Due /\ AB' = AB /\ (Answer <=> Answer')
  BY SendKeeps
<1>2. Sending(k, Tail(sending)) BY <1>1, SendsNext
<1>3. After(k) /\ (app = "shell" /\ Tidy => Tidy') BY SendOrders
<1> HIDE DEF k
<1>4. /\ Grown(Stream', Stream, k) /\ ToSet(keys') = ToSet(keys) \cup {k}
      /\ Stream' \in Seq(AllKeys)
  BY <1>3 DEF After
<1>5. Missed' = Missed BY DEF Sends, Missed, Mishaps
<1>6. \A w : Asks(Stream, w) => Asks(Stream', w) BY <1>1, <1>4, GrowTidy
<1>7. ASSUME Underway PROVE Underway'
  <2>1. CASE Answer BY <1>1, <2>1 DEF Underway
  <2>2. CASE \E w \in Words : Due = Command(w)
                /\ (app = w \/ (app = "shell" /\ Asks(Stream, w)))
    BY <1>1, <1>6, <2>2 DEF Underway
  <2>3. CASE Due = <<"esc">> /\ app \in Applications /\ "esc" \in ToSet(keys)
    BY <1>1, <1>4, <2>3 DEF Underway
  <2>4. CASE Due = <<"right">> /\ "right" \in ToSet(keys)
    BY <1>1, <1>4, <2>4 DEF Underway
  <2>5. CASE Due = <<"ret">> /\ ("ret" \in ToSet(keys) \/ tap # None)
    BY <1>1, <1>4, <2>5 DEF Underway
  <2> QED BY <1>7, <2>1, <2>2, <2>3, <2>4, <2>5 DEF Underway
<1>8. \/ Underway \/ Due = AB \/ Completed = 0 \/ (Completed = 1 /\ Missed)
      \/ (Completed = 2 /\ Missed /\ app = "shell" /\ AskedFor /\ Tidy)
  BY <1>1 DEF Going, Enough, AskedFor
<1>9. SUFFICES ASSUME ~Underway', Due # AB
               PROVE  \/ Completed' = 0 \/ (Completed' = 1 /\ Missed)
                      \/ (Completed' = 2 /\ Missed /\ app = "shell" /\ AskedFor /\ Tidy')
  BY <1>1, <1>5 DEF Enough, AskedFor
<1>10. CASE \E w \in Words : Due = Command(w) /\ sending = Due /\ k = w
                             /\ Tail(sending) = <<"ret">>
  <2>1. Completed' = Completed BY <1>1, <1>10, OneWord DEF Completed
  <2> QED BY <1>3, <1>7, <1>8, <1>9, <2>1
<1>11. CASE \E w \in Words : Due = Command(w) /\ sending = <<"ret">> /\ k = "ret"
                             /\ Tail(sending) = <<>>
  <2>1. PICK w \in Words : Due = Command(w) /\ sending = <<"ret">> /\ k = "ret"
                           /\ Tail(sending) = <<>>
    BY <1>11
  <2>2. Completed' = attempts /\ Completed = attempts - 1
    BY <1>1, <2>1, OneWord DEF Completed
  <2>3. app = "shell"
    <3>1. app # w BY <1>1, <1>9, <2>1 DEF Underway
    <3>2. \A a \in Applications : app # a BY <2>1, <3>1, KnownLocated DEF Located
    <3>3. app # "boot" BY <1>1 DEF Known, Basics
    <3> QED BY <3>2, <3>3 DEF Alive, Known, SmokeInv
  <2>4. ~Tidy
    <3> SUFFICES ASSUME Tidy PROVE FALSE
      OBVIOUS
    <3>1. Due[1] = w BY <2>1, WordsTyped
    <3>2. Halfway(Stream, w) BY <2>1, <3>1 DEF Tidy
    <3>3. Asks(Stream', w) BY <1>1, <1>4, <2>1, <3>2, GrowTidy
    <3> QED BY <1>1, <1>9, <2>1, <2>3, <3>3 DEF Underway
  <2>5. Missed BY <2>3, <2>4 DEF Going, Prompt
  <2>6. Tidy'
    <3>1. Ended(Stream') BY <1>1, <1>4, <2>1, GrowTidy DEF Stops
    <3>2. sending' # <<"ret">> BY <1>1, <2>1, OneWord
    <3> QED BY <3>1, <3>2 DEF Tidy
  <2>7. Completed = 0 \/ Completed = 1 BY <1>7, <1>8, <1>9, <2>4
  <2>8. Completed' = 1 \/ Completed' = 2
    <3>1. \A n \in Nat : n - 1 = 0 \/ n - 1 = 1 => n = 1 \/ n = 2 OBVIOUS
    <3> QED BY <1>1, <2>2, <2>7, <3>1
  <2>9. AskedFor BY <2>1 DEF AskedFor
  <2> QED BY <2>3, <2>5, <2>6, <2>8, <2>9
<1>12. CASE k \in {"esc", "right", "ret"} /\ Due = <<k>>
  <2>1. k \in ToSet(keys') BY <1>4
  <2>2. k = "esc" BY <1>1, <1>9, <1>12, <2>1 DEF Underway
  <2>3. app \notin Applications BY <1>1, <1>9, <1>12, <2>1, <2>2 DEF Underway
  <2>4. PICK a : ClosingStep(step, a) BY <1>12, <2>2, KnownDue DEF DueTells
  <2>5. app # a BY <2>3, <2>4 DEF ClosingStep
  <2>6. Answer BY <2>4, <2>5, KnownLocated DEF Located
  <2> QED BY <1>1, <1>9, <2>6 DEF Underway
<1> QED BY <1>2, <1>9, <1>10, <1>11, <1>12 DEF Sending

LEMMA SendsKept ==
  ASSUME Known, SendKey, Alive, Going, Sends
  PROVE  Going'
BY SendOrders, SendOnKeys, SendEnough DEF Going

LEMMA OnceMissed ==
  ASSUME attempts \in Nat, attempts' = attempts, typed, typed' = typed, sending # <<>>,
         Due # AB, Due' = Due, AB' = AB, Enough, ~Missed, Missed', Underway => Underway'
  PROVE  Enough'
<1>1. Underway \/ Completed = 0 BY DEF Enough
<1>2. CASE Underway BY <1>2 DEF Enough
<1>3. CASE Completed = 0
  <2>1. attempts - 1 = 0 BY <1>3 DEF Completed
  <2>2. attempts = 1 BY <2>1
  <2>3. Completed' = 1 \/ Completed' = 0 BY <2>1, <2>2 DEF Completed
  <2> QED BY <2>3 DEF Enough
<1> QED BY <1>1, <1>2, <1>3

(* A key is lost in a step that can be repeated, and none was lost before. *)
LEMMA LosesKept ==
  ASSUME Known, Fresh, SendKey, Alive, Going, Loses, ~FragileToLoss(step), ~Missed
  PROVE  Going'
<1> DEFINE k == Head(sending)
<1>1. /\ app' = app /\ UNCHANGED <<step, typed, attempts>> /\ typed
      /\ sending # <<>> /\ sending' = Tail(sending) /\ attempts \in Nat
      /\ keys \in Seq(AllKeys) /\ Stream \in Seq(AllKeys)
      /\ Said' = Said /\ line' = line /\ UNCHANGED <<field, shown, sel, tap>>
      /\ AB' = AB /\ Due' = Due /\ (Answer <=> Answer') /\ DriverMoves
  BY SendKeeps
<1>2. /\ (k = "esc" <=> Due = <<"esc">>) /\ (k = "right" <=> Due = <<"right">>)
      /\ (k \in Words <=> sending = Due /\ \E w \in Words : Due = Command(w))
  BY <1>1, SendingIs
<1>3. Missed' BY LossCounts DEF Known
<1>4. Due # AB /\ step # 6
  <2>1. Due # AB BY DEF FragileToLoss, Due, AB
  <2> QED BY <2>1, KnownDue DEF DueTells
<1>5. Garbled \in AllKeys /\ Garbled \notin {"ret", "esc", "right"}
  BY KeysTyped DEF Garbled
<1>6. (k \in Words /\ After(Garbled)) \/ (k \notin Words /\ keys' = keys /\ Stream' = Stream)
  <2>1. CASE k \in Words BY <1>5, <2>1, StreamGrows DEF Loses
  <2>2. CASE k \notin Words
    BY <1>1, <2>2, DriverKeeps DEF Loses
  <2> QED BY <2>1, <2>2
<1> HIDE DEF k
<1>7. CASE k \in Words /\ After(Garbled)
  <2>1. /\ keys' \in Seq(AllKeys) /\ Grown(keys', keys, Garbled)
        /\ Stream' \in Seq(AllKeys) /\ Grown(Stream', Stream, Garbled)
        /\ ToSet(keys') = ToSet(keys) \cup {Garbled}
    BY <1>7 DEF After
  <2>2. PICK w \in Words : Due = Command(w) BY <1>2, <1>7
  <2>3. Due # <<"esc">> /\ Due # <<"right">> /\ Due # <<"ret">> BY <2>2, WordsTyped
  <2>4. Window'
    <3> SUFFICES ASSUME app \in Applications
                 PROVE  EscLast(keys') /\ "esc" \notin ToSet(keys')
      BY <1>1 DEF Window
    <3>1. EscLast(keys) /\ "esc" \notin ToSet(keys) BY <2>3 DEF Going, Window
    <3> QED BY <1>1, <1>5, <2>1, <3>1, GrowOrders
  <2>5. Prompt'
    <3> SUFFICES ASSUME app = "shell"
                 PROVE  /\ NoStop(line) /\ "right" \notin ToSet(keys') /\ EscFirst(Stream')
                        /\ step = 5 => Fifth'
      BY <1>1, <1>3, <2>3 DEF Prompt
    <3>1. /\ NoStop(line) /\ "right" \notin ToSet(keys) /\ EscFirst(Stream)
          /\ step = 5 => Fifth
      BY DEF Going, Prompt
    <3>2. EscFirst(Stream') BY <1>1, <1>5, <2>1, <3>1, GrowOrders
    <3>3. ASSUME step = 5 PROVE Fifth'
      <4>1. "ret" \notin ToSet(keys) BY <1>1, <3>1, <3>3 DEF Fifth
      <4>2. RetLast(keys') BY <1>1, <2>1, <4>1, GrowOrders
      <4>3. "ret" \notin ToSet(keys') BY <1>5, <2>1, <4>1
      <4> QED BY <1>1, <4>2, <4>3 DEF Fifth
    <3> QED BY <1>5, <2>1, <3>1, <3>2, <3>3
  <2>6. OnKeys'
    <3>1. ~(step = 5 /\ app = "keyboard") BY <1>1 DEF Going, OnKeys, Opened
    <3> QED BY <1>1, <1>4, <2>3, <3>1 DEF OnKeys
  <2>7. Underway => Underway'
    <3>1. \A x : Asks(Stream, x) => Asks(Stream', x) BY <1>1, <2>1, GrowTidy
    <3> QED BY <1>1, <2>3, <3>1 DEF Underway
  <2> QED BY <1>1, <1>3, <1>4, <2>4, <2>5, <2>6, <2>7, OnceMissed DEF Going
<1>8. CASE k \notin Words /\ keys' = keys /\ Stream' = Stream
  <2>1. Window' BY <1>1, <1>8 DEF Going, Window
  <2>2. Prompt'
    <3>1. step = 5 /\ app = "shell" => Fifth'
      BY <1>1, <1>8 DEF Going, Prompt, Fifth
    <3> QED BY <1>1, <1>3, <1>8, <3>1 DEF Going, Prompt
  <2>3. OnKeys'
    <3>1. ~(step = 5 /\ app = "keyboard") BY <1>1 DEF Going, OnKeys, Opened
    <3>2. Due = <<"right">> => Moved' BY <1>1, <1>8 DEF Going, OnKeys, Moved
    <3>3. Due = <<"ret">> => Tapped' BY <1>1, <1>8 DEF Going, OnKeys, Tapped
    <3> QED BY <1>1, <1>4, <3>1, <3>2, <3>3 DEF OnKeys
  <2>4. Underway => Underway' BY <1>1, <1>8 DEF Underway
  <2> QED BY <1>1, <1>3, <1>4, <2>1, <2>2, <2>3, <2>4, OnceMissed DEF Going
<1> QED BY <1>6, <1>7, <1>8
-----------------------------------------------------------------------------
(* What goes wrong is never forgotten; a loss or a hasty retry that is     *)
(* still blameless was not one too many, and not in a fragile step.        *)
Careful ==
  /\ SendKey /\ Loses => ~Missed /\ ~FragileToLoss(step)
  /\ Retype => (FragileToHaste(step) => Settled)

LEMMA BlameLater ==
  ASSUME Blameless', arch' = arch, mishaps \subseteq mishaps',
         Mishaps("lost")' = Mishaps("lost") \/ ~Missed
  PROVE  Blameless
<1>1. Script' = Script BY Fixed
<1>2. \A kind : \A m \in Mishaps(kind) : m \in Mishaps(kind)' BY DEF Mishaps
<1>3. /\ \A m \in Mishaps("lost")' : ~FragileToLoss(m[2])
      /\ \A m \in Mishaps("hasty")' : ~FragileToHaste(m[2])
      /\ ~Cardinality(Mishaps("lost")') > 1
  BY <1>1 DEF Blameless, FragileToLoss, FragileToHaste
<1>4. ~Cardinality(Mishaps("lost")) > 1
  <2>1. CASE Mishaps("lost")' = Mishaps("lost") BY <1>3, <2>1
  <2>2. CASE ~Missed
    <3>1. Mishaps("lost") = {} BY <2>2 DEF Missed
    <3>2. Cardinality(Mishaps("lost")) = 0 BY <3>1, FS_EmptySet
    <3> QED BY <3>2
  <2> QED BY <2>1, <2>2
<1> QED BY <1>2, <1>3, <1>4 DEF Blameless

LEMMA LossBlamed ==
  ASSUME SmokeInv, Basics, Fresh, SendKey, Loses, Blameless'
  PROVE  ~Missed /\ ~FragileToLoss(step)
<1>1. arch' = arch BY DEF SendKey
<1>2. Script' = Script BY <1>1, Fixed
<1>3. LostNow \in Mishaps("lost")' BY LossIsNew
<1>4. LostNow[2] = step BY DEF LostNow
<1>5. ~FragileToLoss(step)
  <2>1. ~FragileToLoss(LostNow[2]) BY <1>2, <1>3 DEF Blameless, FragileToLoss
  <2> QED BY <1>4, <2>1
<1>6. ~Cardinality(Mishaps("lost")') > 1 BY DEF Blameless
<1> QED BY <1>5, <1>6, LossCounts

LEMMA HasteBlamed ==
  ASSUME Retype, Blameless', FragileToHaste(step)
  PROVE  Settled
<1>1. arch' = arch BY DEF Retype
<1>2. Script' = Script BY <1>1, Fixed
<1> SUFFICES ASSUME ~Settled PROVE FALSE OBVIOUS
<1> DEFINE m == <<"hasty", step, attempts>>
<1>4. m \in mishaps' BY DEF Retype
<1>5. m[1] = "hasty" /\ m[2] = step OBVIOUS
<1> HIDE DEF m
<1>6. m \in Mishaps("hasty")' BY <1>4, <1>5 DEF Mishaps
<1>7. ~FragileToHaste(m[2]) BY <1>2, <1>6 DEF Blameless, FragileToHaste
<1> QED BY <1>5, <1>7

LEMMA NotLost ==
  ASSUME Retype
  PROVE  Mishaps("lost")' = Mishaps("lost") /\ mishaps \subseteq mishaps'
<1>1. CASE UNCHANGED mishaps BY <1>1 DEF Mishaps
<1>2. CASE mishaps' = mishaps \cup {<<"hasty", step, attempts>>}
  <2>1. <<"hasty", step, attempts>>[1] # "lost" OBVIOUS
  <2> QED BY <1>2, <2>1 DEF Mishaps
<1> QED BY <1>1, <1>2 DEF Retype

LEMMA BlameKept ==
  ASSUME SmokeInv, Basics, Fresh, [SmokeNext]_smokeVars, Blameless'
  PROVE  Blameless /\ Careful
<1>1. SendKey /\ Loses => ~Missed /\ ~FragileToLoss(step) BY LossBlamed
<1>2. Careful BY <1>1, HasteBlamed DEF Careful
<1>3. arch' = arch
  BY DEF SmokeNext, GuestNext, DriverNext, smokeVars, GuestBoots, GuestFaults, ShellKey,
     ApplicationEscape, ApplicationKey, KeyboardKey, ApplicationPass, ReaderCopies, Connect,
     TypeCommand, Advance, Retype, SendKey, SendFails, NoticeExit, Deadline, TimedOut
<1>4. CASE mishaps' = mishaps
  <2>1. Mishaps("lost")' = Mishaps("lost") BY <1>4 DEF Mishaps
  <2> QED BY <1>2, <1>3, <1>4, <2>1, BlameLater
<1>5. CASE Retype BY <1>2, <1>3, <1>5, NotLost, BlameLater
<1>6. CASE SendKey /\ Loses
  <2>1. mishaps \subseteq mishaps' BY <1>6 DEF Loses
  <2> QED BY <1>1, <1>2, <1>3, <1>6, <2>1, BlameLater
<1>7. SendKey => Sends \/ Loses BY KeySent
<1> QED
  BY <1>4, <1>5, <1>6, <1>7
  DEF Sends, SmokeNext, GuestNext, DriverNext, smokeVars, GuestBoots, GuestFaults, ShellKey,
     ApplicationEscape, ApplicationKey, KeyboardKey, ApplicationPass, ReaderCopies, Connect,
     TypeCommand, Advance, SendFails, NoticeExit, Deadline, TimedOut

(* While the guest lives and nobody is to blame, the test goes on.         *)
LEMMA GoingStep ==
  ASSUME Known, Known', Fresh, [SmokeNext]_smokeVars, Blameless /\ Alive => Going,
         Blameless', Alive'
  PROVE  Going'
<1>1. Blameless /\ Careful BY BlameKept DEF Known
<1>2. CASE GuestBoots \/ GuestFaults \/ ShellKey \/ ApplicationEscape
             \/ ApplicationKey \/ KeyboardKey \/ ApplicationPass
  <2>1. Alive BY <1>2, GuestReads DEF Known
  <2> QED BY <1>1, <1>2, <2>1, GuestKept
<1>3. ASSUME ReaderCopies \/ DriverNext \/ UNCHANGED smokeVars
      PROVE  Going'
  <2>1. DriverMoves /\ app' = app BY <1>3, DriverActs DEF Alive
  <2>2. Alive BY <2>1 DEF Alive
  <2>3. Going BY <1>1, <2>2
  <2>4. CASE Connect \/ SendFails \/ NoticeExit \/ ReaderCopies \/ UNCHANGED smokeVars
    BY <2>3, <2>4, QuietSteps, QuietKept
  <2>5. CASE TypeCommand BY <2>2, <2>3, <2>5, TypeCommandKept
  <2>6. CASE Advance BY <2>2, <2>3, <2>6, AdvanceKept
  <2>7. CASE Retype BY <1>1, <2>2, <2>3, <2>7, RetypeKept DEF Careful
  <2>8. CASE SendKey
    <3>1. Sends \/ Loses BY <2>8, KeySent DEF Known
    <3> QED BY <1>1, <2>2, <2>3, <2>8, <3>1, SendsKept, LosesKept DEF Careful
  <2>9. CASE Deadline
    <3>1. app' = "off" BY <2>9 DEF Deadline
    <3> QED BY <3>1 DEF Alive
  <2> QED BY SMTT(60), <1>3, <2>4, <2>5, <2>6, <2>7, <2>8, <2>9 DEF DriverNext
<1> QED BY <1>2, <1>3 DEF SmokeNext, GuestNext
-----------------------------------------------------------------------------
(* The deadline.  The guest has done all it will do, so the answer to a    *)
(* step that was typed often enough has been given, and heard.             *)
Still ==
  /\ keys = <<>> /\ sending = <<>> /\ app \in Applications \cup {"shell"}
  /\ app \in Applications => framed /\ tap = None /\ field = shown

LEMMA AllHeard ==
  ASSUME Known, TimedOut
  PROVE  /\ Still /\ typed /\ ~Answer /\ ~MayRetype
<1>1. /\ logged = Len(out) /\ app # "boot" /\ app # "off" /\ SmokeInv /\ Basics
      /\ ~(Awaited /\ (~typed \/ Answered \/ MayRetype))
  BY DEF TimedOut, Settled, Known
<1>2. Still BY <1>1 DEF TimedOut, Polling, Settled, Still, SmokeInv
<1>3. \A m \in Said : log_has_marker(m) BY <1>1, AllLogged
<1>4. Script[step].marker \in Said
  <2>1. step >= 1 /\ step \in Nat BY Heard
  <2>2. CASE step > 1 \/ typed BY <1>1, <2>2 DEF Basics
  <2>3. CASE step = 1
    <3>1. "Hello from Ferric-K!" \in Said BY <1>1 DEF Basics, Alive
    <3>2. Script[1].marker = "Hello from Ferric-K!"
      <4>1. Script[1] = Opening[1] BY ScriptSteps
      <4> QED BY <4>1, Markers
    <3> QED BY <2>3, <3>1, <3>2
  <2> QED BY <2>1, <2>2, <2>3
<1>5. Awaited BY <1>3, <1>4 DEF Awaited
<1>6. Answer => Answered BY <1>3 DEF Answer, Answered
<1> QED BY <1>1, <1>2, <1>5, <1>6

LEMMA NothingUnderway ==
  ASSUME Known, Going, Still, typed, ~Answer
  PROVE  ~Underway /\ Due # AB
<1>1. /\ keys = <<>> /\ sending = <<>> /\ ToSet(keys) = {}
  BY Members DEF Still
<1>2. \A m : AnsweredBy(step, m) => m \notin Said BY DEF AnsweredBy, Answer
<1>3. Due # AB
  <2> SUFFICES ASSUME Due = AB PROVE FALSE OBVIOUS
  <2>1. TextStep(step) BY KnownDue DEF DueTells
  <2>2. Lettered /\ "KEYBOARD TEXT ab" \notin Said
    BY <1>2, <2>1 DEF Going, OnKeys, TextStep
  <2>3. shown # AB /\ field = shown
    BY <2>2, NoApplication DEF Lettered, Still
  <2>4. Text(field, <<>>, <<>>) BY <1>1, <2>2 DEF Lettered
  <2>5. field = AB
    <3>1. <<"a">> # <<>> /\ <<"b">> # <<>> /\ AB # <<>> BY OneWord, KeysTyped
    <3> QED BY <2>4, <3>1 DEF Text
  <2> QED BY <2>3, <2>5
<1>4. ASSUME NEW w \in Words, Due = Command(w), app = w PROVE FALSE
  <2>1. w \in Applications BY <1>4, NoApplication DEF Still
  <2>2. OpeningStep(step, w) BY <1>4, <2>1, KnownLocated DEF Located
  <2>3. FrameMarker(w) \in Said BY <1>4, <2>1 DEF Known, Frames, Still
  <2> QED BY <1>2, <2>2, <2>3 DEF OpeningStep
<1>5. ASSUME NEW w \in Words, app = "shell", Asks(Stream, w) PROVE FALSE
  <2>1. NoStop(line) BY <1>5 DEF Going, Prompt
  <2>2. line \in Seq(AllKeys) BY DEF Known, SmokeInv
  <2>3. Stream = line BY <1>1, <2>2 DEF Stream
  <2>4. PICK i \in 1..Len(line) - 1 : line[i + 1] = "ret" BY <1>5, <2>3 DEF Asks
  <2>5. i + 1 \in 1..Len(line)
    <3>1. \A n \in Nat : \A j \in 1..n - 1 : j + 1 \in 1..n OBVIOUS
    <3>2. Len(line) \in Nat BY <2>2, InList
    <3> QED BY <2>4, <3>1, <3>2
  <2> QED BY <2>1, <2>4, <2>5 DEF NoStop, Stops
<1>6. Due = <<"ret">> => tap = None
  <2>1. Due = <<"ret">> => Tapped BY DEF Going, OnKeys
  <2> QED BY <2>1, NoApplication DEF Tapped, Still
<1> QED BY <1>1, <1>3, <1>4, <1>5, <1>6 DEF Underway

LEMMA LossInFirst ==
  ASSUME Known, Fresh, Missed, step = 1
  PROVE  ~Blameless
<1>1. PICK m : m \in Mishaps("lost") BY DEF Missed
<1>2. m[2] \in 1..1 BY <1>1 DEF Fresh, Dated
<1>3. FragileToLoss(m[2]) BY <1>2 DEF FragileToLoss
<1> QED BY <1>1, <1>3 DEF Blameless

LEMMA TimeoutBlamed ==
  ASSUME MaxAttempts >= 3, Known, Fresh, Blameless /\ Alive => Going, TimedOut
  PROVE  ~Blameless
<1> SUFFICES ASSUME Blameless PROVE FALSE OBVIOUS
<1>1. Still /\ typed /\ ~Answer /\ ~MayRetype BY AllHeard
<1>2. Alive BY DEF TimedOut, Alive
<1>3. Going BY <1>2
<1>4. ~Underway /\ Due # AB BY <1>1, <1>3, NothingUnderway
<1>5. Completed = attempts BY <1>1 DEF Still, Completed
<1>6. \/ attempts = 0 \/ (attempts = 1 /\ Missed) \/ (attempts = 2 /\ Missed)
  BY <1>1, <1>3, <1>4, <1>5 DEF Going, Enough
<1>7. attempts \in Nat /\ attempts >= 1 BY <1>1 DEF Known, Basics
<1>8. Missed /\ attempts < 3 BY <1>6, <1>7
<1>9. step = 1
  <2>1. ~(step > 1 /\ attempts < MaxAttempts) BY <1>1 DEF MayRetype
  <2>2. attempts < MaxAttempts BY <1>7, <1>8, SmokeAssumption
  <2>3. step \in Nat /\ step >= 1 BY Heard
  <2> QED BY <2>1, <2>2, <2>3
<1> QED BY <1>8, <1>9, LossInFirst
-----------------------------------------------------------------------------
(* How the test ends.                                                      *)
LEMMA GuestEnds ==
  ASSUME SmokeInv, GuestBoots \/ GuestFaults \/ ShellKey \/ ApplicationEscape
                     \/ ApplicationKey \/ KeyboardKey \/ ApplicationPass
  PROVE  \/ code' = code /\ Alive'
         \/ app' = "off" /\ code' \in {"halt", "fault"}
<1>0. \A a \in Applications \cup {"boot", "shell"} : a # "off" BY NotOff
<1>1. CASE GuestBoots BY <1>0, <1>1 DEF GuestBoots, Alive
<1>2. CASE GuestFaults BY <1>2 DEF GuestFaults
<1>3. CASE ShellKey
  <2>1. app = "shell" BY <1>3 DEF ShellKey
  <2>2. CASE KeyEnters
    <3>1. (\E a : LineOpens(a)) \/ LineHalts \/ LineReplies BY <2>2, LineDoes DEF KeyEnters
    <3>2. CASE \E a : LineOpens(a) BY <1>0, <3>2 DEF LineOpens, Open, Alive
    <3>3. CASE LineHalts BY <3>3 DEF LineHalts
    <3>4. CASE LineReplies BY <1>0, <2>1, <3>4 DEF LineReplies, Alive
    <3> QED BY <3>1, <3>2, <3>3, <3>4
  <2>3. CASE KeyTypes BY <1>0, <2>1, <2>3 DEF KeyTypes, Alive
  <2>4. CASE KeyPasses BY <1>0, <2>1, <2>4 DEF KeyPasses, guest, Alive
  <2> QED BY <1>3, <2>2, <2>3, <2>4, ShellKeys
<1>4. CASE ApplicationEscape BY <1>0, <1>4 DEF ApplicationEscape, Alive
<1>5. CASE ApplicationKey
  <2>1. app \in Applications /\ app' = app /\ code' = code
    BY <1>5 DEF ApplicationKey, guest, Applications
  <2> QED BY <1>0, <2>1 DEF Alive
<1>6. CASE KeyboardKey
  <2>1. app \in Applications /\ app' = app /\ code' = code
    BY <1>6 DEF KeyboardKey, Applications
  <2> QED BY <1>0, <2>1 DEF Alive
<1>7. CASE ApplicationPass BY <1>0, <1>7 DEF ApplicationPass, Alive
<1> QED BY <1>1, <1>2, <1>3, <1>4, <1>5, <1>6, <1>7

(* A guest that halted has said everything, and the driver has read it.    *)
LEMMA HaltPasses ==
  ASSUME SmokeInv, HaltLast, logged = Len(out), code = "halt"
  PROVE  assert_smoke
<1>1. SmokeMarkers \subseteq Said BY DEF HaltLast
<1> QED BY <1>1, AllLogged DEF assert_smoke

LEMMA EndingStep ==
  ASSUME MaxAttempts >= 3, Known, Fresh, HaltLast, Ending,
         Blameless /\ Alive => Going, [SmokeNext]_smokeVars
  PROVE  Ending'
<1>0. SmokeInv /\ Basics BY DEF Known
<1>1. ~Blameless => ~Blameless' BY <1>0, BlameKept
<1>2. CASE GuestBoots \/ GuestFaults \/ ShellKey \/ ApplicationEscape
             \/ ApplicationKey \/ KeyboardKey \/ ApplicationPass
  <2>1. Alive BY <1>0, <1>2, GuestReads
  <2>2. status' = status BY <1>0, <1>2, GuestActs DEF GuestMoves
  <2>3. \/ code' = code /\ Alive'
        \/ app' = "off" /\ code' \in {"halt", "fault"}
    BY <1>0, <1>2, GuestEnds
  <2> QED BY <1>1, <2>1, <2>2, <2>3 DEF Ending, Returned, Alive
<1>3. CASE UNCHANGED <<status, app, code>>
  BY <1>1, <1>3 DEF Ending, Returned, Alive
<1>4. CASE Connect BY <1>4 DEF Ending, Returned, Connect, Alive, guest
<1>5. CASE SendFails BY <1>5 DEF Ending, Returned, SendFails, Driving, Alive, guest
<1>6. CASE NoticeExit
  <2>1. /\ app = "off" /\ ~Returned /\ logged = Len(out)
        /\ UNCHANGED <<app, code>>
        /\ status' = IF assert_smoke THEN "passed" ELSE "rejected"
    BY <1>6 DEF NoticeExit, Polling, Driving, Returned, Alive, guest
  <2>2. code \in {"halt", "fault"} BY <2>1 DEF Ending
  <2>3. code = "halt" => assert_smoke BY <1>0, <2>1, HaltPasses
  <2> QED BY <2>1, <2>2, <2>3 DEF Ending, Returned, Alive
<1>7. CASE Deadline
  <2>1. TimedOut /\ app' = "off" /\ code' = "killed" /\ status' = "timeout"
    BY <1>7 DEF Deadline, TimedOut
  <2>2. ~Blameless' BY <1>1, <2>1, TimeoutBlamed
  <2> QED BY <2>1, <2>2 DEF Ending, Returned, Alive
<1>8. CASE ReaderCopies \/ TypeCommand \/ Advance \/ Retype \/ SendKey \/ UNCHANGED smokeVars
  BY <1>3, <1>8 DEF ReaderCopies, TypeCommand, Advance, Retype, SendKey, smokeVars, driver,
     guest
<1> QED
  BY <1>2, <1>4, <1>5, <1>6, <1>7, <1>8 DEF SmokeNext, GuestNext, DriverNext

LEMMA OutcomeStart == SmokeInit => SmokeInv /\ OutcomeInv
<1> SUFFICES ASSUME SmokeInit PROVE SmokeInv /\ OutcomeInv OBVIOUS
<1>0. SmokeInv BY SmokeStart
<1>1. /\ status = "connecting" /\ step = 1 /\ typed = FALSE /\ attempts = 0
      /\ sending = <<>> /\ keys = <<>> /\ app = "boot" /\ line = <<>>
      /\ field = <<>> /\ shown = <<>> /\ tap = None /\ framed = FALSE
      /\ out = <<>> /\ code = None /\ mishaps = {}
  BY DEF SmokeInit
<1>2. Said = {} BY <1>1, Members DEF Said
<1>3. \A a \in Applications : a # "boot" BY DEF Applications
<1>4. Basics BY <1>1 DEF Basics, Alive
<1>5. Frames BY <1>1, <1>2, <1>3 DEF Frames, Applications
<1>6. \A kind : Mishaps(kind) = {} BY <1>1 DEF Mishaps
<1>7. Fresh BY <1>1, <1>6, FS_EmptySet DEF Fresh
<1>8. HaltLast
  <2>1. ToSet(<<>>) = {} BY Members
  <2> QED BY <1>1, <2>1 DEF HaltLast, None
<1>9. Ending BY <1>1 DEF Ending, Returned, None
<1>10. Going
  <2>1. Window /\ Prompt BY <1>1, <1>3 DEF Window, Prompt
  <2>2. OnKeys
    <3>1. Known BY <1>0, <1>4, <1>5 DEF Known
    <3>2. DueTells BY <3>1, KnownDue
    <3>3. Due = Command("gui") /\ step # 6 BY <1>1, <3>2 DEF DueTells
    <3>4. Due # <<"right">> /\ Due # <<"ret">> BY <3>3, WordsTyped DEF Words
    <3> QED BY <1>1, <3>3, <3>4 DEF OnKeys
  <2>3. Enough BY <1>1 DEF Enough
  <2> QED BY <2>1, <2>2, <2>3 DEF Going
<1> QED BY <1>0, <1>4, <1>5, <1>7, <1>8, <1>9, <1>10 DEF OutcomeInv

LEMMA OutcomeStep ==
  ASSUME MaxAttempts >= 3, SmokeInv, OutcomeInv, [SmokeNext]_smokeVars
  PROVE  SmokeInv' /\ OutcomeInv'
<1>1. SmokeInv' BY SmokeStep
<1>2. Known /\ Fresh /\ HaltLast /\ Ending /\ (Blameless /\ Alive => Going)
  BY DEF OutcomeInv, Known
<1>3. Basics' /\ Frames' /\ Fresh' /\ HaltLast'
  BY <1>2, BasicsStep, FramesStep, FreshStep, HaltLastStep DEF Known
<1>4. Known' BY <1>1, <1>3 DEF Known
<1>5. Ending' BY <1>2, EndingStep
<1>6. Blameless' /\ Alive' => Going' BY <1>2, <1>4, GoingStep
<1> QED BY <1>1, <1>3, <1>5, <1>6 DEF OutcomeInv

LEMMA OutcomeTold == OutcomeInv => OutcomeExplained
<1> SUFFICES ASSUME OutcomeInv PROVE OutcomeExplained OBVIOUS
<1>1. Ending BY DEF OutcomeInv
<1>2. OrphanOnlyAfterTransport BY <1>1 DEF Ending, OrphanOnlyAfterTransport
<1>3. FailureExplained BY <1>1 DEF Ending, Blameless, FailureExplained
<1> QED BY <1>2, <1>3 DEF OutcomeExplained

(* Every way the driver can end has its cause.  A boot that the guest      *)
(* survives fails only because the monitor connection broke, a key was     *)
(* lost in a step that cannot be repeated, a step that must not be         *)
(* repeated was typed again while its answer was on its way, or a second   *)
(* key was lost; and QEMU is left running only by a broken connection.     *)
(* Three attempts are what it takes: one that loses a key, one that ends   *)
(* the line it spoilt, one that is answered (runner.rs MAX_ATTEMPTS,       *)
(* run_with_injection).                                                    *)
THEOREM OutcomeIsExplained ==
  ASSUME MaxAttempts >= 3 PROVE SmokeSpec => []OutcomeExplained
<1>1. SmokeInit => SmokeInv /\ OutcomeInv BY OutcomeStart
<1>2. SmokeInv /\ OutcomeInv /\ [SmokeNext]_smokeVars => SmokeInv' /\ OutcomeInv'
  BY OutcomeStep
<1>3. SmokeInv /\ OutcomeInv => OutcomeExplained BY OutcomeTold
<1> QED BY <1>1, <1>2, <1>3, PTL DEF SmokeSpec
=============================================================================
