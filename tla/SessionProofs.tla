--------------------------- MODULE SessionProofs ---------------------------
(***************************************************************************)
(* Proofs about Session, for every keyboard, screen, layout, size of the   *)
(* buffer and bound, and the lemmas about Input they rest on.              *)
(*                                                                         *)
(* The stream of bytes between the user and the kernel is decoded by a     *)
(* recursive function, so first its laws: what no byte, one byte more and  *)
(* two parts decode to.  The library's induction takes an operator; here   *)
(* it is stated for sets, of numbers and then of sequences, from a minimal *)
(* element.  Then the decoder: what each keystroke's bytes mean to it, and *)
(* which streams leave it deaf; and StreamInv, which every action of the   *)
(* user, of the controller and of the poll preserves.                      *)
(*                                                                         *)
(* Every action of the machine is then found to be one of Input or to      *)
(* leave its variables alone.  The invariant of the clock rests on the     *)
(* stream's, for the arrow a press on the way has set, is down or has its  *)
(* release behind it.  That of the on-screen keyboard needs no other.      *)
(***************************************************************************)
EXTENDS Session, SequenceTheorems, FiniteSetTheorems, WellFoundedInduction, TLAPS

(* The decoders there are: five flags.                                     *)
Decoders == [extended : BOOLEAN, pause : BOOLEAN, left_shift : BOOLEAN,
             right_shift : BOOLEAN, caps_lock : BOOLEAN]

(* Induction over the numbers: a set of them without a least element is    *)
(* empty.                                                                  *)
LEMMA SetInduction ==
  ASSUME NEW T, 0 \in T, \A n \in Nat : n \in T => n + 1 \in T
  PROVE  Nat \subseteq T
<1> DEFINE R == OpToRel(<, Nat)
           U == Nat \ T
<1>1. IsWellFoundedOn(R, Nat) BY NatLessThanWellFounded
<1>2. R = {p \in Nat \X Nat : p[1] < p[2]} BY DEF OpToRel
<1>3. \A x, y \in Nat : x < y => <<x, y>> \in R BY DEF OpToRel
<1> HIDE DEF R
<1>4. SUFFICES ASSUME U # {} PROVE FALSE OBVIOUS
<1>5. U \subseteq Nat OBVIOUS
<1> HIDE DEF U
<1>6. PICK x \in U : \A y \in U : <<y, x>> \notin R BY <1>1, <1>4, <1>5, WFMin
<1>7. x \in Nat /\ x \notin T BY DEF U
<1>8. x # 0 BY <1>7
<1>9. x - 1 \in Nat /\ x - 1 < x /\ (x - 1) + 1 = x BY <1>7, <1>8
<1>10. x - 1 \notin U BY <1>3, <1>6, <1>7, <1>9
<1> QED BY <1>7, <1>9, <1>10 DEF U

(* f is what the decoder d makes of each prefix of s: the function Decode  *)
(* chooses.                                                                *)
Trace(f, d, s) ==
  f = [i \in 0 .. Len(s) |->
         IF i = 0 THEN [decoder |-> d, events |-> <<>>] ELSE Fed(f[i - 1], s[i])]

LEMMA DecodeIsChoose ==
  ASSUME NEW d, NEW s
  PROVE  Decode(d, s) = (CHOOSE f : Trace(f, d, s))[Len(s)]
BY DEF Decode, Trace

(* There is such a function, by induction on the length of the stream,     *)
LEMMA RunExists ==
  ASSUME NEW d, NEW S
  PROVE  \A s \in Seq(S) : \E f : Trace(f, d, s)
<1> DEFINE T == {n \in Nat : \A s \in Seq(S) : Len(s) = n => \E f : Trace(f, d, s)}
<1>1. 0 \in T
  <2>1. ASSUME NEW s \in Seq(S), Len(s) = 0
        PROVE  Trace([i \in 0 .. 0 |-> [decoder |-> d, events |-> <<>>]], d, s)
    BY <2>1 DEF Trace
  <2> QED BY <2>1
<1>2. ASSUME NEW n \in Nat, n \in T PROVE n + 1 \in T
  <2>1. ASSUME NEW s \in Seq(S), Len(s) = n + 1 PROVE \E f : Trace(f, d, s)
    <3> DEFINE r == SubSeq(s, 1, n)
    <3>1. r \in Seq(S) /\ Len(r) = n /\ \A i \in 1 .. n : r[i] = s[i]
      BY <2>1
    <3>2. PICK f : Trace(f, d, r) BY <1>2, <3>1
    <3> HIDE DEF r
    <3> DEFINE g == [i \in 0 .. n + 1 |-> IF i = n + 1 THEN Fed(f[n], s[n + 1]) ELSE f[i]]
               h == [i \in 0 .. n + 1 |->
         IF i = 0 THEN [decoder |-> d, events |-> <<>>] ELSE Fed(g[i - 1], s[i])]
    <3>3. ASSUME NEW i \in 0 .. n + 1 PROVE g[i] = h[i]
      <4>1. CASE i = n + 1 BY SMTT(60), <4>1
      <4>2. CASE i # n + 1
        <5>1. i \in 0 .. n /\ g[i] = f[i] BY <4>2
        <5>2. f[i] = IF i = 0 THEN [decoder |-> d, events |-> <<>>] ELSE Fed(f[i - 1], r[i])
          BY <3>1, <3>2, <5>1 DEF Trace
        <5>3. i # 0 => g[i - 1] = f[i - 1] /\ r[i] = s[i] BY <3>1, <5>1
        <5> QED BY <5>1, <5>2, <5>3
      <4> QED BY <4>1, <4>2
    <3>4. g = h BY <3>3
    <3> QED BY <2>1, <3>4 DEF Trace
  <2> QED BY <2>1
<1> HIDE DEF T
<1>3. Nat \subseteq T BY <1>1, <1>2, SetInduction
<1> QED BY <1>3 DEF T

(* and it is the same for every stream with that prefix.                   *)
LEMMA RunUnique ==
  ASSUME NEW d, NEW S, NEW s \in Seq(S), NEW f, Trace(f, d, s),
         NEW t \in Seq(S), NEW g, Trace(g, d, t), Len(s) <= Len(t),
         \A i \in 1 .. Len(s) : s[i] = t[i]
  PROVE  \A i \in 0 .. Len(s) : f[i] = g[i]
<1> DEFINE T == {n \in Nat : n <= Len(s) => f[n] = g[n]}
<1>1. 0 \in T BY DEF Trace
<1>2. ASSUME NEW n \in Nat, n \in T PROVE n + 1 \in T
  <2> SUFFICES ASSUME n + 1 <= Len(s) PROVE f[n + 1] = g[n + 1] OBVIOUS
  <2>1. f[n] = g[n] /\ n + 1 \in 1 .. Len(s) /\ n + 1 \in 0 .. Len(t) BY <1>2
  <2>2. f[n + 1] = Fed(f[n], s[n + 1])
    <3>1. n + 1 \in 0 .. Len(s) /\ n + 1 # 0 /\ (n + 1) - 1 = n BY <2>1
    <3> QED BY <3>1 DEF Trace
  <2>3. g[n + 1] = Fed(g[n], t[n + 1])
    <3>1. n + 1 \in 0 .. Len(t) /\ n + 1 # 0 /\ (n + 1) - 1 = n BY <2>1
    <3> QED BY <3>1 DEF Trace
  <2>4. s[n + 1] = t[n + 1] BY <2>1
  <2> QED BY <2>1, <2>2, <2>3, <2>4
<1> HIDE DEF T
<1>3. Nat \subseteq T BY <1>1, <1>2, SetInduction
<1> QED BY <1>3 DEF T

(* The laws of Decode: nothing, one byte more.                             *)
LEMMA DecodeNothing == ASSUME NEW d PROVE Decode(d, <<>>) = [decoder |-> d, events |-> <<>>]
<1>0. <<>> \in Seq({}) OBVIOUS
<1>1. PICK f : Trace(f, d, <<>>) BY <1>0, RunExists
<1>2. Trace((CHOOSE g : Trace(g, d, <<>>)), d, <<>>) BY <1>1
<1> QED BY <1>2, DecodeIsChoose DEF Trace

LEMMA DecodeOneMore ==
  ASSUME NEW d, NEW S, NEW s \in Seq(S), NEW b \in S
  PROVE  Decode(d, Append(s, b)) = Fed(Decode(d, s), b)
<1> DEFINE t == Append(s, b)
           f == CHOOSE f : Trace(f, d, s)
           g == CHOOSE g : Trace(g, d, t)
<1>1. t \in Seq(S) /\ Len(t) = Len(s) + 1 /\ t[Len(t)] = b /\ \A i \in 1 .. Len(s) : s[i] = t[i]
  OBVIOUS
<1> HIDE DEF t
<1>2. Trace(f, d, s) /\ Trace(g, d, t) BY <1>1, RunExists
<1>3. Decode(d, s) = f[Len(s)] /\ Decode(d, t) = g[Len(t)] BY DecodeIsChoose
<1> HIDE DEF f, g
<1>4. f[Len(s)] = g[Len(s)]
  <2>1. Len(s) \in 0 .. Len(s) /\ Len(s) <= Len(t) BY <1>1
  <2>2. \A i \in 0 .. Len(s) : f[i] = g[i] BY <1>1, <1>2, <2>1, RunUnique
  <2> QED BY <2>1, <2>2
<1>5. g[Len(t)] = Fed(g[Len(s)], b) BY <1>1, <1>2 DEF Trace
<1> QED BY <1>3, <1>4, <1>5 DEF t

(* Induction over sequences, by their length.                              *)
LEMMA SeqInduction ==
  ASSUME NEW S, NEW T, <<>> \in T,
         \A s \in Seq(S), b \in S : s \in T => Append(s, b) \in T
  PROVE  Seq(S) \subseteq T
<1> DEFINE U == {n \in Nat : \A s \in Seq(S) : Len(s) = n => s \in T}
<1>1. 0 \in U
  <2>1. \A s \in Seq(S) : Len(s) = 0 => s = <<>> OBVIOUS
  <2> QED BY <2>1
<1>2. ASSUME NEW n \in Nat, n \in U PROVE n + 1 \in U
  <2>1. ASSUME NEW s \in Seq(S), Len(s) = n + 1 PROVE s \in T
    <3>1. s # <<>> BY <2>1
    <3>2. PICK r \in Seq(S), b \in S : Len(r) = n /\ s = Append(r, b)
      <4> DEFINE r == SubSeq(s, 1, Len(s) - 1)
                 b == s[Len(s)]
      <4>1. s = Append(SubSeq(s, 1, Len(s) - 1), s[Len(s)])
        BY <3>1, AppendProperties, <2>1
      <4>2. SubSeq(s, 1, Len(s) - 1) \in Seq(S) /\ Len(SubSeq(s, 1, Len(s) - 1)) = n /\ s[Len(s)] \in S
        BY SMTT(60), <2>1
      <4> HIDE DEF r, b
      <4>3. r \in Seq(S) /\ b \in S /\ Len(r) = n /\ s = Append(r, b) BY <4>1, <4>2 DEF r, b
      <4> QED BY <4>3
    <3>3. r \in T BY <1>2, <2>1, <3>2
    <3> QED BY <3>2, <3>3
  <2> QED BY <2>1
<1> HIDE DEF U
<1>3. Nat \subseteq U BY <1>1, <1>2, SetInduction
<1> QED BY <1>3 DEF U

(* The tables of scancodes.rs, entry by entry.                             *)
LEMMA Domains ==
  /\ DOMAIN Printed = {30, 2, 57}
  /\ DOMAIN PlainCodes = {14, 28, 1, 42, 54, 29, 58, 72, 75, 77, 80}
  /\ DOMAIN ExtendedCodes = {29, 72, 75, 77, 80}
BY DEF Printed, PlainCodes, ExtendedCodes, ArrowCodes

LEMMA Values ==
  /\ Printed[30] = "a" /\ Printed[2] = "1" /\ Printed[57] = "Space"
  /\ PlainCodes[14] = "Backspace" /\ PlainCodes[28] = "Enter"
  /\ PlainCodes[1] = "Escape" /\ PlainCodes[42] = "LeftShift"
  /\ PlainCodes[54] = "RightShift" /\ PlainCodes[29] = "LeftControl"
  /\ PlainCodes[58] = "CapsLock"
  /\ PlainCodes[72] = "Up" /\ PlainCodes[75] = "Left"
  /\ PlainCodes[77] = "Right" /\ PlainCodes[80] = "Down"
  /\ ExtendedCodes[72] = "Up" /\ ExtendedCodes[75] = "Left"
  /\ ExtendedCodes[77] = "Right" /\ ExtendedCodes[80] = "Down"
BY DEF Printed, PlainCodes, ExtendedCodes, ArrowCodes

-----------------------------------------------------------------------------
(* The keys with a code of their own; Pause sends a sequence instead.      *)
PlainKeys == {"Backspace", "Enter", "Escape", "LeftShift", "RightShift", "LeftControl", "CapsLock"}
KnownKeys == Printable \cup PlainKeys \cup Arrows \cup {"NumLock"}

(* The code of a key is the one its table gives it.                        *)
LEMMA KeyCodes ==
  ASSUME NEW k \in KnownKeys
  PROVE  /\ CodeOf(k) \in 1 .. 80
         /\ k \in Printable =>
              CodeOf(k) \in DOMAIN Printed \ DOMAIN PlainCodes /\ Printed[CodeOf(k)] = k
         /\ k \in PlainKeys => CodeOf(k) \in DOMAIN PlainCodes /\ PlainCodes[CodeOf(k)] = k
         /\ k \in Arrows => CodeOf(k) \in DOMAIN ExtendedCodes /\ ExtendedCodes[CodeOf(k)] = k
         /\ k = "NumLock" => CodeOf(k) \notin DOMAIN PlainCodes \cup DOMAIN Printed
<1> DEFINE Name(c) == IF c \in DOMAIN Printed THEN Printed[c] ELSE PlainCodes[c]
           All == DOMAIN PlainCodes \cup DOMAIN Printed
<1>1. CASE k = "NumLock"
  <2>1. CodeOf(k) = 69 BY <1>1 DEF CodeOf, NumLockCode
  <2> QED BY <1>1, <2>1, Domains DEF Printable, PlainKeys, Arrows
<1>2. CASE k # "NumLock"
  <2>1. \E c \in All : k = Name(c)
    <3>1. k \in Printable \cup PlainKeys \cup Arrows BY <1>2 DEF KnownKeys
    <3>2. {30, 2, 57, 14, 28, 1, 42, 54, 29, 58, 72, 75, 77, 80} \subseteq All BY Domains
    <3>3. /\ Name(30) = "a" /\ Name(2) = "1" /\ Name(57) = "Space" /\ Name(14) = "Backspace"
          /\ Name(28) = "Enter" /\ Name(1) = "Escape" /\ Name(42) = "LeftShift"
          /\ Name(54) = "RightShift" /\ Name(29) = "LeftControl" /\ Name(58) = "CapsLock"
          /\ Name(72) = "Up" /\ Name(75) = "Left" /\ Name(77) = "Right" /\ Name(80) = "Down"
      BY Domains, Values
    <3> HIDE DEF All, Name
    <3> QED BY <3>1, <3>2, <3>3 DEF Printable, PlainKeys, Arrows
  <2>2. CodeOf(k) \in All /\ k = Name(CodeOf(k))
    <3>1. CodeOf(k) = CHOOSE c \in All : k = Name(c) BY <1>2 DEF CodeOf
    <3> HIDE DEF All, Name
    <3> QED BY <2>1, <3>1
  <2>3. CodeOf(k) \in {30, 2, 57, 14, 28, 1, 42, 54, 29, 58, 72, 75, 77, 80} BY <2>2, Domains
  <2>4. CodeOf(k) \in 1 .. 80 BY <2>3
  <2> HIDE DEF All
  <2> QED BY <1>2, <2>2, <2>3, <2>4, Domains, Values DEF Printable, PlainKeys, Arrows
<1> QED BY <1>1, <1>2

(* A byte that is no prefix makes an event of its own. *)
Of(d, byte) == IF byte >= BreakBit THEN Release(Map(d, byte - BreakBit)) ELSE Press(Map(d, byte))

LEMMA PlainByte ==
  ASSUME NEW d \in Decoders, ~d.pause, NEW byte \in Int, byte # 224, byte # 225
  PROVE  /\ Push(d, byte) = Yield(Tracked([d EXCEPT !.extended = FALSE], Of(d, byte)), Of(d, byte))
         /\ Of(d, byte) # NoEvent
BY DEF Push, Of, ExtendedPrefix, PausePrefix, NoEvent, Press, Release

(* push keeps a decoder a decoder, and is in the pause state exactly when  *)
(* it was left in it.                                                      *)
LEMMA PushType ==
  ASSUME NEW d \in Decoders, NEW byte
  PROVE  Push(d, byte).decoder \in Decoders
<1>1. ASSUME NEW e \in Decoders, NEW event PROVE Tracked(e, event) \in Decoders
  BY ZenonT(60) DEF Tracked, Decoders
<1>2. /\ [d EXCEPT !.extended = FALSE] \in Decoders /\ [d EXCEPT !.extended = TRUE] \in Decoders
      /\ [d EXCEPT !.pause = TRUE] \in Decoders /\ [d EXCEPT !.pause = byte # PauseEnd] \in Decoders
  BY DEF Decoders
<1> QED BY <1>1, <1>2 DEF Push, Yield

LEMMA PushPause ==
  ASSUME NEW d \in Decoders, NEW byte
  PROVE  Push(d, byte).decoder.pause <=> byte = PausePrefix \/ (d.pause /\ byte # PauseEnd)
<1>1. ASSUME NEW e \in Decoders, NEW event PROVE Tracked(e, event).pause = e.pause
  BY DEF Tracked, Decoders
<1>2. [d EXCEPT !.extended = FALSE] \in Decoders /\ [d EXCEPT !.extended = FALSE].pause = d.pause
  BY DEF Decoders
<1>3. d.pause \in BOOLEAN /\ PausePrefix # PauseEnd /\ PausePrefix # ExtendedPrefix
  BY DEF Decoders, PausePrefix, PauseEnd, ExtendedPrefix
<1>4. CASE d.pause
  <2>1. Push(d, byte).decoder.pause = (byte # PauseEnd) BY <1>4 DEF Push, Yield, Decoders
  <2> QED BY <1>3, <1>4, <2>1
<1>5. CASE ~d.pause /\ byte = ExtendedPrefix
  <2>1. Push(d, byte).decoder.pause = d.pause
    <3>1. Push(d, byte) = Yield([d EXCEPT !.extended = TRUE], NoEvent) 
      BY <1>5 DEF Push, ExtendedPrefix, PausePrefix
    <3> QED BY <3>1 DEF Yield, Decoders
  <2> QED BY <1>3, <1>5, <2>1
<1>6. CASE ~d.pause /\ byte = PausePrefix
  <2>1. Push(d, byte).decoder.pause = TRUE
    BY <1>6 DEF Push, Yield, Decoders, PausePrefix, ExtendedPrefix
  <2> QED BY <1>3, <1>6, <2>1
<1>7. CASE ~d.pause /\ byte # ExtendedPrefix /\ byte # PausePrefix
  <2>1. Push(d, byte).decoder.pause = [d EXCEPT !.extended = FALSE].pause
    BY <1>1, <1>2, <1>7 DEF Push, Yield
  <2> QED BY <1>2, <1>3, <1>7, <2>1
<1> QED BY <1>4, <1>5, <1>6, <1>7

(* The events the bytes of S can complete.                                 *)
EventsOf(S) == {Push(d, b).event : d \in Decoders, b \in S}

LEMMA DecodeType ==
  ASSUME NEW S, NEW d \in Decoders, NEW s \in Seq(S)
  PROVE  Decode(d, s) = [decoder |-> Decode(d, s).decoder, events |-> Decode(d, s).events]
         /\ Decode(d, s).decoder \in Decoders /\ Decode(d, s).events \in Seq(EventsOf(S))
<1> DEFINE R == [decoder : Decoders, events : Seq(EventsOf(S))]
           T == {t \in Seq(S) : Decode(d, t) \in R}
<1>1. <<>> \in T
  <2>1. Decode(d, <<>>) = [decoder |-> d, events |-> <<>>] BY DecodeNothing
  <2>2. <<>> \in Seq(S) /\ <<>> \in Seq(EventsOf(S)) OBVIOUS
  <2>3. Decode(d, <<>>) \in R
    <3> HIDE DEF T
    <3>1. [decoder |-> d, events |-> <<>>] \in R BY <2>2
    <3> QED BY <2>1, <3>1
  <2> QED BY <2>2, <2>3
<1>2. ASSUME NEW t \in Seq(S), NEW b \in S, t \in T PROVE Append(t, b) \in T
  <2>1. Decode(d, Append(t, b)) = Fed(Decode(d, t), b) BY DecodeOneMore
  <2>2. Decode(d, t).decoder \in Decoders /\ Decode(d, t).events \in Seq(EventsOf(S)) BY <1>2
  <2>3. /\ Push(Decode(d, t).decoder, b).decoder \in Decoders
        /\ Push(Decode(d, t).decoder, b).event \in EventsOf(S)
    BY <2>2, PushType DEF EventsOf
  <2>4. Fed(Decode(d, t), b) \in R BY <2>2, <2>3 DEF Fed
  <2> QED BY <2>1, <2>4
<1> HIDE DEF T
<1>3. Seq(S) \subseteq T BY <1>1, <1>2, SeqInduction
<1> QED BY <1>3 DEF T

(* A stream in two parts: the second is decoded by what the first leaves.  *)
LEMMA DecodeCat ==
  ASSUME NEW S, NEW d \in Decoders, NEW p \in Seq(S), NEW s \in Seq(S)
  PROVE  Decode(d, p \o s) =
           [decoder |-> Decode(Decode(d, p).decoder, s).decoder,
            events |-> Decode(d, p).events \o Decode(Decode(d, p).decoder, s).events]
<1> DEFINE y == Decode(d, p)
<1>0. y = Decode(d, p) OBVIOUS
<1> HIDE DEF y
<1> DEFINE first == y.events
           Whole(t) == [decoder |-> Decode(y.decoder, t).decoder,
                        events |-> first \o Decode(y.decoder, t).events]
           T == {t \in Seq(S) : Decode(d, p \o t) = Whole(t)}
           E == EventsOf(S)
<1>1. /\ y.decoder \in Decoders /\ first \in Seq(E)
      /\ y = [decoder |-> y.decoder, events |-> first]
  BY <1>0, DecodeType
<1>2. <<>> \in T
  <2>1. p \o <<>> = p /\ <<>> \in Seq(S) OBVIOUS
  <2>2. Decode(y.decoder, <<>>) = [decoder |-> y.decoder, events |-> <<>>] BY DecodeNothing
  <2>3. first \o <<>> = first
    <3> HIDE DEF first, E
    <3> QED BY <1>1
  <2>4. Whole(<<>>) = [decoder |-> y.decoder, events |-> first]
    <3> HIDE DEF first
    <3>1. /\ Decode(y.decoder, <<>>).decoder = y.decoder
          /\ Decode(y.decoder, <<>>).events = <<>>
      BY <2>2
    <3> QED BY <2>3, <3>1
  <2> HIDE DEF Whole
  <2> QED BY <1>0, <1>1, <2>1, <2>4
<1>3. ASSUME NEW t \in Seq(S), NEW c \in S, t \in T PROVE Append(t, c) \in T
  <2> DEFINE q == p \o t
             z == Decode(y.decoder, t)
             e == Push(z.decoder, c)
  <2>1. p \o Append(t, c) = Append(q, c) /\ q \in Seq(S) OBVIOUS
  <2>2. Decode(d, Append(q, c)) = Fed(Whole(t), c)
    <3>1. Decode(d, q) = Whole(t) BY <1>3
    <3> HIDE DEF q, Whole
    <3>2. Decode(d, Append(q, c)) = Fed(Decode(d, q), c) BY <2>1, DecodeOneMore
    <3> QED BY <3>1, <3>2
  <2>3. Decode(y.decoder, Append(t, c)) = Fed(z, c) BY DecodeOneMore
  <2>4. z.events \in Seq(E) /\ z.decoder \in Decoders BY <1>1, DecodeType
  <2>5. e.event \in E BY <2>4 DEF EventsOf
  <2>6. first \o Append(z.events, e.event) = Append(first \o z.events, e.event)
    <3> DEFINE zs == z.events
               x == e.event
    <3>1. zs \in Seq(E) /\ x \in E BY <2>4, <2>5
    <3> HIDE DEF first, E, zs, x
    <3>2. first \o Append(zs, x) = Append(first \o zs, x) BY SMTT(60), <1>1, <3>1
    <3> QED BY <3>2 DEF zs, x
  <2> HIDE DEF q, z, first, E, T
  <2>7. Fed(Whole(t), c) = [decoder |-> e.decoder,
          events |-> IF e.event = NoEvent THEN first \o z.events
                                          ELSE Append(first \o z.events, e.event)]
    BY DEF Fed, z
  <2>8. Fed(z, c) = [decoder |-> e.decoder,
          events |-> IF e.event = NoEvent THEN z.events ELSE Append(z.events, e.event)]
    BY DEF Fed
  <2>9. Whole(Append(t, c)) = Fed(Whole(t), c)
    <3>1. Decode(y.decoder, Append(t, c)).decoder = e.decoder BY <2>3, <2>8
    <3>2. first \o Decode(y.decoder, Append(t, c)).events =
            IF e.event = NoEvent THEN first \o z.events
                                 ELSE Append(first \o z.events, e.event)
      <4> DEFINE v == IF e.event = NoEvent THEN z.events ELSE Append(z.events, e.event)
      <4>1. Decode(y.decoder, Append(t, c)).events = v BY <2>3, <2>8
      <4>2. first \o v = IF e.event = NoEvent THEN first \o z.events
                                             ELSE Append(first \o z.events, e.event)
        BY <2>6
      <4> HIDE DEF v
      <4> QED BY <4>1, <4>2
    <3> QED BY <2>7, <3>1, <3>2
  <2>10. Append(t, c) \in Seq(S) OBVIOUS
  <2>11. Decode(d, p \o Append(t, c)) = Whole(Append(t, c)) BY <2>1, <2>2, <2>9
  <2> HIDE DEF Whole
  <2> QED BY <2>10, <2>11 DEF T
<1> HIDE DEF T
<1>4. Seq(S) \subseteq T BY <1>2, <1>3, SeqInduction
<1> QED BY <1>4 DEF T, y

LEMMA DecodeBoth ==
  ASSUME NEW S, NEW c \in Decoders, NEW p \in Seq(S), NEW m \in Seq(S), NEW z, NEW q, NEW r, NEW e,
         Decode(c, p) = [decoder |-> e, events |-> q], Decode(e, m) = [decoder |-> z, events |-> r]
  PROVE  Decode(c, p \o m) = [decoder |-> z, events |-> q \o r]
<1>1. Decode(c, p).decoder = e /\ Decode(c, p).events = q OBVIOUS
<1>2. Decode(e, m).decoder = z /\ Decode(e, m).events = r OBVIOUS
<1>3. Decode(c, p \o m) =
         [decoder |-> Decode(Decode(c, p).decoder, m).decoder,
          events |-> Decode(c, p).events \o Decode(Decode(c, p).decoder, m).events]
  BY DecodeCat, Zenon
<1> QED BY <1>1, <1>2, <1>3

LEMMA DecodeByte ==
  ASSUME NEW d, NEW b
  PROVE  Decode(d, <<b>>) = Fed([decoder |-> d, events |-> <<>>], b)
<1>1. <<>> \in Seq({b}) /\ Append(<<>>, b) = <<b>> OBVIOUS
<1>2. Decode(d, Append(<<>>, b)) = Fed(Decode(d, <<>>), b) BY ZenonT(60), <1>1, DecodeOneMore
<1> QED BY <1>1, <1>2, DecodeNothing

(* The stream ends in the middle of a pause sequence when the last of its  *)
(* two marks is the prefix.                                                *)
Deaf(d, s) ==
  \/ \E i \in 1 .. Len(s) : s[i] = PausePrefix /\ \A j \in i .. Len(s) : s[j] # PauseEnd
  \/ d.pause /\ \A j \in 1 .. Len(s) : s[j] # PauseEnd

(* A stream leaves the decoder in the pause state exactly when it is deaf. *)
LEMMA DecodeDeaf ==
  ASSUME NEW S, NEW d \in Decoders, NEW s \in Seq(S)
  PROVE  Decode(d, s).decoder.pause <=> Deaf(d, s)
<1> DEFINE T == {t \in Seq(S) : Decode(d, t).decoder.pause <=> Deaf(d, t)}
<1>1. <<>> \in T
  <2>1. Decode(d, <<>>).decoder = d BY DecodeNothing
  <2> QED BY <2>1 DEF Deaf, Decoders
<1>2. ASSUME NEW t \in Seq(S), NEW b \in S, t \in T PROVE Append(t, b) \in T
  <2> DEFINE u == Append(t, b)
  <2>1. Decode(d, u) = Fed(Decode(d, t), b) BY DecodeOneMore
  <2>2. Decode(d, t).decoder \in Decoders BY DecodeType
  <2>3. Decode(d, u).decoder.pause <=> b = PausePrefix \/ (Deaf(d, t) /\ b # PauseEnd)
    <3>1. Decode(d, t).decoder.pause <=> Deaf(d, t) BY <1>2
    <3>2. Decode(d, u).decoder = Push(Decode(d, t).decoder, b).decoder BY <2>1 DEF Fed
    <3> QED BY <2>2, <3>1, <3>2, PushPause
  <2>4. u \in Seq(S) /\ Len(u) = Len(t) + 1 /\ u[Len(u)] = b /\ \A i \in 1 .. Len(t) : u[i] = t[i]
    OBVIOUS
  <2> HIDE DEF u
  <2>5. ASSUME b = PausePrefix PROVE Deaf(d, u)
    BY <2>4, <2>5 DEF Deaf, PausePrefix, PauseEnd
  <2>6. ASSUME Deaf(d, t), b # PauseEnd PROVE Deaf(d, u)
    BY SMTT(60), <2>4, <2>6 DEF Deaf
  <2>7. ASSUME Deaf(d, u), b # PausePrefix PROVE Deaf(d, t) /\ b # PauseEnd
    BY SMTT(60), <2>4, <2>7 DEF Deaf
  <2> HIDE DEF T
  <2>8. Deaf(d, u) <=> b = PausePrefix \/ (Deaf(d, t) /\ b # PauseEnd) 
    <3>1. CASE b = PausePrefix BY <2>5, <3>1
    <3>2. CASE b # PausePrefix BY <2>6, <2>7, <3>2
    <3> QED BY <3>1, <3>2
  <2>9. Decode(d, u).decoder.pause <=> Deaf(d, u) BY <2>3, <2>8
  <2> QED BY <2>4, <2>9 DEF u, T
<1> HIDE DEF T
<1>3. Seq(S) \subseteq T BY <1>1, <1>2, SeqInduction
<1> QED BY <1>3 DEF T
-----------------------------------------------------------------------------
(* Every keystroke is decoded to what it means.                            *)
MeaningFor(d, k) ==
  CASE k = "NumLock"   -> Control("Unknown")
    [] k \in Printable -> Char(k, Raised(k, ShiftActive(d), d.caps_lock))
    [] OTHER           -> Control(k)

Ready(d) == d \in Decoders /\ ~d.extended /\ ~d.pause

(* map gives a key its meaning under the decoder's own modifiers.          *)
LEMMA CodeMapped ==
  ASSUME NEW k \in KnownKeys, NEW d \in Decoders, d.extended = (k \in Arrows)
  PROVE  Map(d, CodeOf(k)) = MeaningFor(d, k)
<1>1. k \notin Arrows => ControlKey(d.extended) = PlainCodes BY DEF ControlKey
<1>2. k \in Arrows => ControlKey(d.extended) = ExtendedCodes BY DEF ControlKey
<1>3. CASE k \in Printable
  <2>1. k # "NumLock" /\ k \notin Arrows BY <1>3 DEF Printable, Arrows
  <2>2. CodeOf(k) \in DOMAIN Printed \ DOMAIN PlainCodes /\ Printed[CodeOf(k)] = k
    BY <1>3, KeyCodes
  <2>3. Map(d, CodeOf(k)) = Char(k, Raised(k, ShiftActive(d), d.caps_lock))
    BY <1>1, <2>1, <2>2 DEF Map
  <2> QED BY <1>3, <2>1, <2>3 DEF MeaningFor
<1>4. CASE k = "NumLock"
  <2>1. k \notin Arrows BY <1>4 DEF Arrows
  <2>2. CodeOf(k) \notin DOMAIN PlainCodes \cup DOMAIN Printed BY <1>4, KeyCodes
  <2>3. Map(d, CodeOf(k)) = Control("Unknown") BY <1>1, <2>1, <2>2 DEF Map
  <2> QED BY <1>4, <2>3 DEF MeaningFor, Printable
<1>5. CASE k \in PlainKeys
  <2>1. k # "NumLock" /\ k \notin Arrows /\ k \notin Printable
    BY <1>5 DEF PlainKeys, Arrows, Printable
  <2>2. CodeOf(k) \in DOMAIN PlainCodes /\ PlainCodes[CodeOf(k)] = k BY <1>5, KeyCodes
  <2>3. Map(d, CodeOf(k)) = Control(k) BY <1>1, <2>1, <2>2 DEF Map
  <2> QED BY <2>1, <2>3 DEF MeaningFor
<1>6. CASE k \in Arrows
  <2>1. k # "NumLock" /\ k \notin Printable BY <1>6 DEF Arrows, Printable
  <2>2. CodeOf(k) \in DOMAIN ExtendedCodes /\ ExtendedCodes[CodeOf(k)] = k BY <1>6, KeyCodes
  <2>3. Map(d, CodeOf(k)) = Control(k) BY <1>2, <1>6, <2>2 DEF Map
  <2> QED BY <2>1, <2>3 DEF MeaningFor
<1> QED BY <1>3, <1>4, <1>5, <1>6 DEF KnownKeys

LEMMA CodePushed ==
  ASSUME NEW k \in KnownKeys, NEW d \in Decoders, d.extended = (k \in Arrows), ~d.pause
  PROVE  /\ Push(d, CodeOf(k)) =
              Yield(Tracked([d EXCEPT !.extended = FALSE], Press(MeaningFor(d, k))),
                    Press(MeaningFor(d, k)))
         /\ Push(d, CodeOf(k) + BreakBit) =
              Yield(Tracked([d EXCEPT !.extended = FALSE], Release(MeaningFor(d, k))),
                    Release(MeaningFor(d, k)))
<1>1. CodeOf(k) \in 1 .. 80 BY KeyCodes
<1>2. Of(d, CodeOf(k)) = Press(MeaningFor(d, k)) BY <1>1, CodeMapped DEF Of, BreakBit
<1>3. Of(d, CodeOf(k) + BreakBit) = Release(MeaningFor(d, k))
  <2>1. \A c \in 1 .. 80 : c + BreakBit >= BreakBit /\ (c + BreakBit) - BreakBit = c
    BY DEF BreakBit
  <2>2. Of(d, CodeOf(k) + BreakBit) = Release(Map(d, CodeOf(k))) BY <1>1, <2>1 DEF Of
  <2> QED BY <2>2, CodeMapped
<1>4. /\ CodeOf(k) \in Int /\ CodeOf(k) # 224 /\ CodeOf(k) # 225
      /\ CodeOf(k) + BreakBit \in Int /\ CodeOf(k) + BreakBit # 224 /\ CodeOf(k) + BreakBit # 225
  BY <1>1 DEF BreakBit
<1> QED BY <1>2, <1>3, <1>4, PlainByte

LEMMA PrefixPushed ==
  ASSUME NEW d, Ready(d)
  PROVE  /\ Push(d, ExtendedPrefix) = Yield([d EXCEPT !.extended = TRUE], NoEvent)
         /\ Push(d, PausePrefix) = Yield([d EXCEPT !.pause = TRUE], NoEvent)
BY DEF Ready, Push, ExtendedPrefix, PausePrefix

(* The prefixes only set a flag that the code clears.                      *)
LEMMA Flags ==
  ASSUME NEW d \in Decoders
  PROVE  /\ [d EXCEPT !.extended = TRUE] \in Decoders /\ [d EXCEPT !.pause = TRUE] \in Decoders
         /\ [d EXCEPT !.extended = TRUE].extended
         /\ ~d.pause => ~[d EXCEPT !.extended = TRUE].pause
         /\ ~d.extended => /\ [d EXCEPT !.extended = FALSE] = d
                           /\ [[d EXCEPT !.extended = TRUE] EXCEPT !.extended = FALSE] = d
         /\ ~d.pause => /\ [[d EXCEPT !.pause = TRUE] EXCEPT !.pause = FALSE] = d
         /\ [[d EXCEPT !.pause = TRUE] EXCEPT !.pause = TRUE] = [d EXCEPT !.pause = TRUE]
BY DEF Decoders

(* A code by itself, and a code behind the prefix. *)
LEMMA DecodeCode ==
  ASSUME NEW d, Ready(d), NEW k \in KnownKeys, NEW b, NEW event,
         \/ b = CodeOf(k) /\ event = Press(MeaningFor(d, k))
         \/ b = CodeOf(k) + BreakBit /\ event = Release(MeaningFor(d, k))
  PROVE  Decode(d, Prefixed(k) \o <<b>>) = [decoder |-> Tracked(d, event), events |-> <<event>>]
<1>1. event # NoEvent BY DEF Press, Release, NoEvent
<1>2. CASE k \notin Arrows
  <2>1. Prefixed(k) \o <<b>> = <<b>> BY <1>2 DEF Prefixed
  <2>2. Push(d, b) = Yield(Tracked(d, event), event)
    <3>1. d \in Decoders /\ ~d.pause /\ d.extended = (k \in Arrows)
      BY SMTT(60), <1>2 DEF Ready, Decoders
    <3>2. [d EXCEPT !.extended = FALSE] = d BY Flags DEF Ready
    <3> QED BY <3>1, <3>2, CodePushed
  <2>3. Append(<<>>, event) = <<event>> OBVIOUS
  <2>4. Fed([decoder |-> d, events |-> <<>>], b) = [decoder |-> Tracked(d, event), events |-> <<event>>]
    BY <1>1, <2>2, <2>3 DEF Fed, Yield
  <2> QED BY <2>1, <2>4, DecodeByte
<1>3. CASE k \in Arrows
  <2> DEFINE e == [d EXCEPT !.extended = TRUE]
             S == {ExtendedPrefix, b}
             s == <<ExtendedPrefix>>
  <2>1. Prefixed(k) \o <<b>> = Append(s, b) BY <1>3 DEF Prefixed
  <2>2. e \in Decoders /\ e.extended /\ ~e.pause /\ [e EXCEPT !.extended = FALSE] = d
        /\ e.left_shift = d.left_shift /\ e.right_shift = d.right_shift /\ e.caps_lock = d.caps_lock
    BY ZenonT(60), Flags DEF Ready, Decoders
  <2>3. Decode(d, s) = [decoder |-> e, events |-> <<>>]
    <3>1. Push(d, ExtendedPrefix) = Yield(e, NoEvent) BY PrefixPushed
    <3> HIDE DEF e
    <3> QED BY <3>1, DecodeByte DEF Fed, Yield
  <2>4. MeaningFor(e, k) = MeaningFor(d, k)
    <3> HIDE DEF e
    <3> QED BY <2>2 DEF MeaningFor, ShiftActive
  <2>5. Push(e, b) = Yield(Tracked(d, event), event)
    <3> HIDE DEF e
    <3>1. e.extended = (k \in Arrows) BY <1>3, <2>2 DEF Decoders
    <3> QED BY <3>1, <2>2, <2>4, CodePushed
  <2>6. s \in Seq(S) /\ b \in S OBVIOUS
  <2>7. Decode(d, Append(s, b)) = Fed(Decode(d, s), b)
    <3> HIDE DEF s, S
    <3> QED BY <2>6, DecodeOneMore
  <2>8. Append(<<>>, event) = <<event>> OBVIOUS
  <2> HIDE DEF e, s
  <2>9. Fed([decoder |-> e, events |-> <<>>], b) = [decoder |-> Tracked(d, event), events |-> <<event>>]
    BY <1>1, <2>5, <2>8 DEF Fed, Yield
  <2> QED BY <2>1, <2>3, <2>7, <2>9
<1> QED BY <1>2, <1>3

(* The six bytes of the pause key leave no trace (scancodes.rs, pause).    *)
LEMMA DecodePause == ASSUME NEW d, Ready(d) PROVE Decode(d, PauseBytes) = [decoder |-> d, events |-> <<>>]
<1> DEFINE e == [d EXCEPT !.pause = TRUE]
           E(x) == [decoder |-> x, events |-> <<>>]
           s == PauseBytes
<1>1. /\ s \in Seq(Int) /\ Len(s) = 6
      /\ s[1] = PausePrefix /\ s[2] = 29 /\ s[3] = NumLockCode /\ s[4] = PausePrefix
      /\ s[5] = 157 /\ s[6] = PauseEnd
  BY DEF PauseBytes, PausePrefix, NumLockCode, PauseEnd
<1> HIDE DEF s
<1>2. PICK f : Trace(f, d, s) /\ Decode(d, s) = f[6] BY ZenonT(60), <1>1, RunExists, DecodeIsChoose
<1>3. d \in Decoders /\ ~d.pause /\ e \in Decoders /\ e.pause BY DEF Ready, Decoders
<1>4. ASSUME NEW b, b # PauseEnd PROVE Fed(E(e), b) = E(e)
  <2>1. [e EXCEPT !.pause = TRUE] = e BY <1>3, Flags
  <2> HIDE DEF e
  <2>2. Push(e, b) = Yield(e, NoEvent) BY <1>3, <1>4, <2>1 DEF Push
  <2> QED BY <2>2 DEF Fed, Yield
<1>5. Fed(E(e), PauseEnd) = E(d)
  <2>1. [e EXCEPT !.pause = FALSE] = d BY <1>3, Flags
  <2> HIDE DEF e
  <2>2. Push(e, PauseEnd) = Yield(d, NoEvent) BY <1>3, <2>1 DEF Push
  <2> QED BY <2>2 DEF Fed, Yield
<1>6. Fed(E(d), PausePrefix) = E(e)
  <2>1. Push(d, PausePrefix) = Yield(e, NoEvent) BY PrefixPushed
  <2> HIDE DEF e
  <2> QED BY <2>1 DEF Fed, Yield
<1>7. 29 # PauseEnd /\ NumLockCode # PauseEnd /\ PausePrefix # PauseEnd /\ 157 # PauseEnd
  BY DEF PauseEnd, NumLockCode, PausePrefix
<1>8. /\ f[0] = E(d) /\ f[1] = Fed(f[0], s[1]) /\ f[2] = Fed(f[1], s[2])
      /\ f[3] = Fed(f[2], s[3]) /\ f[4] = Fed(f[3], s[4]) /\ f[5] = Fed(f[4], s[5])
      /\ f[6] = Fed(f[5], s[6])
  BY <1>1, <1>2 DEF Trace
<1> HIDE DEF E, e
<1>9. f[1] = E(e) /\ f[2] = E(e) /\ f[3] = E(e) BY <1>1, <1>4, <1>6, <1>7, <1>8
<1>10. f[5] = E(e) BY <1>1, <1>4, <1>7, <1>8, <1>9
<1>11. f[6] = E(d) BY <1>1, <1>5, <1>8, <1>10
<1> QED BY <1>2, <1>11 DEF E, s

(* The release of a shift that is still held, around a grey key. *)
LEMMA DecodeFakeBreak ==
  ASSUME NEW d, Ready(d), NEW s \in Shifts
  PROVE  Decode(d, FakeBreak(s)) =
           [decoder |-> d, events |-> <<Release(Control("Unknown"))>>]
<1> DEFINE e == [d EXCEPT !.extended = TRUE]
           b == CodeOf(s) + BreakBit
           u == Release(Control("Unknown"))
           p == <<ExtendedPrefix>>
<1>1. CodeOf(s) \in {42, 54}
  <2>1. s \in KnownKeys /\ s \in PlainKeys BY DEF KnownKeys, PlainKeys, Shifts
  <2>2. CodeOf(s) \in DOMAIN PlainCodes /\ PlainCodes[CodeOf(s)] = s BY <2>1, KeyCodes
  <2> QED BY <2>2, Domains, Values DEF Shifts
<1>2. e \in Decoders /\ e.extended /\ ~e.pause /\ [e EXCEPT !.extended = FALSE] = d
  <2>1. d \in Decoders /\ ~d.extended /\ ~d.pause BY SMTT(60) DEF Ready
  <2>2. e \in Decoders /\ e.extended /\ ~e.pause BY ZenonT(60), <2>1, Flags
  <2>3. [e EXCEPT !.extended = FALSE] = d BY <2>1, Flags
  <2> QED BY <2>2, <2>3
<1>3. Push(d, ExtendedPrefix) = Yield(e, NoEvent) BY PrefixPushed
<1>4. FakeBreak(s) = Append(p, b) /\ p \in Seq(Int) /\ b \in Int
  BY <1>1 DEF FakeBreak, ExtendedPrefix, BreakBit
<1> HIDE DEF e, p
<1>5. Of(e, b) = u
  <2>1. b >= BreakBit /\ b - BreakBit \in {42, 54} BY <1>1 DEF BreakBit
  <2>2. Map(e, b - BreakBit) = Control("Unknown")
    BY <1>2, <2>1, Domains DEF Map, ControlKey
  <2> QED BY <2>1, <2>2 DEF Of
<1>6. Tracked(d, u) = d BY DEF Tracked, Release, Control
<1>7. Push(e, b) = Yield(d, u)
  <2>1. b # 224 /\ b # 225 BY <1>1 DEF BreakBit
  <2> QED BY <1>2, <1>4, <1>5, <1>6, <2>1, PlainByte
<1>8. u # NoEvent /\ Append(<<>>, u) = <<u>> BY DEF Release, NoEvent
<1> HIDE DEF u, b
<1>9. Decode(d, p) = [decoder |-> e, events |-> <<>>] BY <1>3, DecodeByte DEF Fed, Yield, p
<1>10. Decode(d, Append(p, b)) = Fed(Decode(d, p), b) BY <1>4, DecodeOneMore
<1>11. Fed([decoder |-> e, events |-> <<>>], b) = [decoder |-> d, events |-> <<u>>]
  BY <1>7, <1>8 DEF Fed, Yield
<1> QED BY <1>4, <1>9, <1>10, <1>11 DEF u
-----------------------------------------------------------------------------
(* The invariant of the stream.  As long as no byte is lost, everything on *)
(* the way decodes to what is due; after another byte than the end of a    *)
(* pause sequence is lost, the decoder is not deaf once the stream is in.  *)
(* Every pause sequence in s is ended in s.                                *)
Closed(s) ==
  \A i \in 1 .. Len(s) : s[i] = PausePrefix => \E j \in i .. Len(s) : s[j] = PauseEnd

(* The press of an arrow on its way is that of a key still down, or has    *)
(* its release behind it.                                                  *)
Paired(q, keys) ==
  \A i \in 1 .. Len(q), k \in Arrows :
    q[i].kind = "press" /\ q[i].of.key = k =>
      k \in keys \/ \E j \in i + 1 .. Len(q) : q[j] = Release(Control(k))

StreamInv ==
  /\ decoder \in Decoders /\ caps \in BOOLEAN /\ down \subseteq KnownKeys
  /\ lost \in {NoByte, PauseEnd, OtherByte}
  /\ device = "ps2" =>
       /\ buffer \in Seq(Int) /\ wire \in Seq(Int) /\ Closed(wire)
       /\ lost = NoByte => /\ OnTheWay = [decoder |-> Caught, events |-> due]
                           /\ Paired(due, down)
       /\ lost = OtherByte => ~Deaf(decoder, buffer \o wire)

LEMMA KeysKnown == Keys \subseteq KnownKeys \cup {"Pause"}
<1>1. Range(Printed) \subseteq Printable BY Domains, Values DEF Range, Printable
<1>2. Range(PlainCodes) \subseteq PlainKeys \cup Arrows
  BY Domains, Values DEF Range, PlainKeys, Arrows
<1> QED BY <1>1, <1>2, KeysAssumption DEF KnownKeys

(* A stream that ends every pause sequence it begins deafens no decoder.   *)
LEMMA DeafCat ==
  ASSUME NEW S, NEW s \in Seq(S), NEW t \in Seq(S), Closed(t), NEW d, ~Deaf(d, s)
  PROVE  ~Deaf(d, s \o t)
<1> DEFINE u == s \o t
<1>1. /\ u \in Seq(S) /\ Len(u) = Len(s) + Len(t)
      /\ \A i \in 1 .. Len(s) : u[i] = s[i]
      /\ \A i \in 1 .. Len(t) : u[Len(s) + i] = t[i]
  OBVIOUS
<1>2. Len(s) \in Nat /\ Len(t) \in Nat OBVIOUS
<1> HIDE DEF u
<1>3. ASSUME NEW i \in 1 .. Len(u), u[i] = PausePrefix, \A j \in i .. Len(u) : u[j] # PauseEnd
      PROVE  FALSE
  <2>1. CASE i \in 1 .. Len(s)
    <3>1. s[i] = PausePrefix /\ \A j \in i .. Len(s) : s[j] # PauseEnd
      BY <1>1, <1>2, <1>3, <2>1
    <3> QED BY <2>1, <3>1 DEF Deaf
  <2>2. CASE i \notin 1 .. Len(s)
    <3>1. i - Len(s) \in 1 .. Len(t) /\ Len(s) + (i - Len(s)) = i BY <1>1, <1>2, <2>2
    <3>2. t[i - Len(s)] = PausePrefix BY <1>1, <1>3, <3>1
    <3>3. PICK j \in i - Len(s) .. Len(t) : t[j] = PauseEnd BY <3>1, <3>2 DEF Closed
    <3>4. Len(s) + j \in i .. Len(u) /\ j \in 1 .. Len(t) BY <1>1, <1>2, <3>1, <3>3
    <3> QED BY <1>1, <1>3, <3>3, <3>4
  <2> QED BY <2>1, <2>2
<1>4. ASSUME d.pause, \A j \in 1 .. Len(u) : u[j] # PauseEnd PROVE FALSE
  <2>1. \A j \in 1 .. Len(s) : s[j] # PauseEnd BY <1>1, <1>2, <1>4
  <2> QED BY <1>4, <2>1 DEF Deaf
<1>5. ~Deaf(d, u) BY <1>3, <1>4 DEF Deaf
<1> QED BY <1>5 DEF u

(* What the keyboard sends is such a stream.                               *)
LEMMA BytesSent ==
  ASSUME NEW k \in KnownKeys
  PROVE  /\ MakeBytes(k) = Prefixed(k) \o <<CodeOf(k)>>
         /\ BreakBytes(k) = Prefixed(k) \o <<CodeOf(k) + BreakBit>>
         /\ MakeBytes(k) \in Seq(Int) /\ Closed(MakeBytes(k))
         /\ BreakBytes(k) \in Seq(Int) /\ Closed(BreakBytes(k))
         /\ \A s \in Shifts : /\ FakeBreak(s) \in Seq(Int)
                              /\ Closed(FakeBreak(s) \o MakeBytes(k))
<1> DEFINE Tame(s) == s \in Seq(Int) /\ \A i \in 1 .. Len(s) : s[i] # PausePrefix
<1>1. k # "Pause" BY DEF KnownKeys, Printable, PlainKeys, Arrows
<1>2. \A s : Tame(s) => Closed(s) BY DEF Closed
<1>3. ASSUME NEW s, NEW t, Tame(s), Tame(t) PROVE Tame(s \o t)
  <2>1. s \in Seq(Int) /\ t \in Seq(Int) BY <1>3
  <2>2. /\ s \o t \in Seq(Int) /\ Len(s \o t) = Len(s) + Len(t)
        /\ \A i \in 1 .. Len(s) + Len(t) :
             (s \o t)[i] = IF i <= Len(s) THEN s[i] ELSE t[i - Len(s)]
    BY <2>1, ConcatProperties
  <2>3. ASSUME NEW i \in 1 .. Len(s) + Len(t) PROVE (s \o t)[i] # PausePrefix
    <3>1. CASE i <= Len(s) BY <1>3, <2>1, <2>2, <3>1
    <3>2. CASE ~(i <= Len(s))
      <4>1. i - Len(s) \in 1 .. Len(t) BY <2>1, <3>2
      <4> QED BY <1>3, <2>2, <3>2, <4>1
    <3> QED BY <3>1, <3>2
  <2> QED BY <2>2, <2>3
<1>4. \A b \in Int : b # PausePrefix => Tame(<<b>>) OBVIOUS
<1>5. Tame(Prefixed(k))
  <2>1. Tame(<<>>) OBVIOUS
  <2>2. ExtendedPrefix \in Int /\ ExtendedPrefix # PausePrefix
    BY DEF ExtendedPrefix, PausePrefix
  <2> HIDE DEF Tame
  <2> QED BY <1>4, <2>1, <2>2 DEF Prefixed
<1>6. \A x \in KnownKeys : /\ CodeOf(x) \in Int /\ CodeOf(x) # PausePrefix
                           /\ CodeOf(x) + BreakBit \in Int /\ CodeOf(x) + BreakBit # PausePrefix
  BY KeyCodes DEF PausePrefix, BreakBit
<1> HIDE DEF Tame
<1>7. Tame(MakeBytes(k)) /\ Tame(BreakBytes(k))
  BY <1>1, <1>3, <1>4, <1>5, <1>6 DEF MakeBytes, BreakBytes
<1>8. ASSUME NEW s \in Shifts PROVE Tame(FakeBreak(s))
  <2>1. s \in KnownKeys BY DEF KnownKeys, PlainKeys, Shifts
  <2>2. CodeOf(s) \in 1 .. 80 BY <2>1, KeyCodes
  <2> QED BY <2>2 DEF Tame, FakeBreak, ExtendedPrefix, PausePrefix, BreakBit
<1>9. \A s \in Shifts : Tame(FakeBreak(s) \o MakeBytes(k)) BY <1>3, <1>7, <1>8
<1>10. \A s : Tame(s) => s \in Seq(Int) BY DEF Tame
<1> QED BY <1>1, <1>2, <1>7, <1>8, <1>9, <1>10 DEF MakeBytes, BreakBytes

LEMMA PauseSent == PauseBytes \in Seq(Int) /\ Closed(PauseBytes)
<1> DEFINE s == PauseBytes
<1>1. s \in Seq(Int) /\ Len(s) = 6 /\ s[6] = PauseEnd
  BY DEF PauseBytes, PausePrefix, NumLockCode, PauseEnd
<1> HIDE DEF s
<1>2. \A i \in 1 .. 6 : 6 \in i .. 6 OBVIOUS
<1>3. Closed(s) BY <1>1, <1>2 DEF Closed
<1> QED BY <1>1, <1>3 DEF s
-----------------------------------------------------------------------------
(* What the user does.                                                     *)
(* The decoder that has caught up knows what the user's modifiers are.     *)
LEMMA CaughtReady ==
  ASSUME caps \in BOOLEAN
  PROVE  /\ Ready(Caught)
         /\ Caught.left_shift = ("LeftShift" \in down) /\ Caught.caps_lock = caps
         /\ Caught.right_shift = ("RightShift" \in down)
         /\ \A k : MeaningFor(Caught, k) = Meaning(k)
<1>1. Ready(Caught) BY DEF Ready, Caught, Decoders
<1>2. ShiftActive(Caught) <=> down \cap Shifts # {} BY DEF ShiftActive, Caught, Shifts
<1>3. Caught.caps_lock = caps BY DEF Caught
<1>4. ASSUME NEW k PROVE Raised(k, ShiftActive(Caught), Caught.caps_lock)
                           = Raised(k, down \cap Shifts # {}, caps)
  <2>1. ShiftActive(Caught) = (down \cap Shifts # {}) BY <1>2 DEF ShiftActive, Caught
  <2> QED BY <2>1, <1>3
<1>5. \A k : MeaningFor(Caught, k) = Meaning(k) BY <1>4 DEF MeaningFor, Meaning
<1> QED BY <1>1, <1>5 DEF Caught

(* One keystroke on, it still does: what Tracked does to the flags is what *)
(* the keystroke does to the keys held.                                    *)
LEMMA TrackedFlags ==
  ASSUME NEW keys, NEW more, NEW on \in BOOLEAN, NEW on2 \in BOOLEAN, NEW event,
         "LeftShift" \in more <=> IF event.of.key = "LeftShift" THEN event.kind = "press"
                                                              ELSE "LeftShift" \in keys,
         "RightShift" \in more <=> IF event.of.key = "RightShift" THEN event.kind = "press"
                                                                ELSE "RightShift" \in keys,
         on2 <=> IF event.of.key = "CapsLock" /\ event.kind = "press" THEN ~on ELSE on
  PROVE  Tracked([extended |-> FALSE, pause |-> FALSE, left_shift |-> "LeftShift" \in keys,
                  right_shift |-> "RightShift" \in keys, caps_lock |-> on], event)
           = [extended |-> FALSE, pause |-> FALSE, left_shift |-> "LeftShift" \in more,
              right_shift |-> "RightShift" \in more, caps_lock |-> on2]
<1> DEFINE d == [extended |-> FALSE, pause |-> FALSE, left_shift |-> "LeftShift" \in keys,
                 right_shift |-> "RightShift" \in keys, caps_lock |-> on]
           x == [extended |-> FALSE, pause |-> FALSE, left_shift |-> "LeftShift" \in more,
                 right_shift |-> "RightShift" \in more, caps_lock |-> on2]
           z == Tracked(d, event)
           pressed == event.kind = "press"
<1>1. /\ d \in Decoders /\ d.extended = FALSE /\ d.pause = FALSE /\ d.caps_lock = on
      /\ d.left_shift = ("LeftShift" \in keys) /\ d.right_shift = ("RightShift" \in keys)
      /\ x \in Decoders /\ x.extended = FALSE /\ x.pause = FALSE /\ x.caps_lock = on2
      /\ x.left_shift = ("LeftShift" \in more) /\ x.right_shift = ("RightShift" \in more)
  BY DEF Decoders
<1>2. z = Tracked(d, event) /\ pressed \in BOOLEAN OBVIOUS
<1>9. SUFFICES z = x BY DEF d, x, z
<1> HIDE DEF d, x, z
<1>3. CASE event.of.key = "LeftShift"
  <2>1. z = [d EXCEPT !.left_shift = pressed] BY <1>2, <1>3 DEF Tracked
  <2>2. x.left_shift = pressed /\ x.right_shift = d.right_shift /\ x.caps_lock = d.caps_lock
    BY <1>1, <1>3
  <2> HIDE DEF pressed
  <2> QED BY <1>1, <1>2, <2>1, <2>2 DEF Decoders
<1>4. CASE event.of.key = "RightShift"
  <2>1. z = [d EXCEPT !.right_shift = pressed] BY <1>2, <1>4 DEF Tracked
  <2>2. x.left_shift = d.left_shift /\ x.right_shift = pressed /\ x.caps_lock = d.caps_lock
    BY <1>1, <1>4
  <2> HIDE DEF pressed
  <2> QED BY <1>1, <1>2, <2>1, <2>2 DEF Decoders
<1>5. CASE event.of.key = "CapsLock" /\ pressed
  <2>1. z = [d EXCEPT !.caps_lock = ~@] BY <1>2, <1>5 DEF Tracked
  <2>2. x.left_shift = d.left_shift /\ x.right_shift = d.right_shift /\ x.caps_lock = ~d.caps_lock
    BY <1>1, <1>5
  <2> HIDE DEF pressed
  <2> QED BY <1>1, <1>2, <2>1, <2>2 DEF Decoders
<1>6. CASE /\ event.of.key # "LeftShift" /\ event.of.key # "RightShift"
           /\ ~(event.of.key = "CapsLock" /\ pressed)
  <2>1. z = d BY <1>2, <1>6 DEF Tracked
  <2>2. x.left_shift = d.left_shift /\ x.right_shift = d.right_shift /\ x.caps_lock = d.caps_lock
    BY <1>1, <1>6
  <2> HIDE DEF pressed
  <2> QED BY <1>1, <1>2, <2>1, <2>2 DEF Decoders
<1> QED BY <1>3, <1>4, <1>5, <1>6

(* A keystroke that means these events, and leaves these modifiers.        *)
LEMMA StrokeSent ==
  ASSUME StreamInv, NEW bytes \in Seq(Int), NEW events, Send(bytes, events), Closed(bytes),
         device = "ps2", down' \subseteq KnownKeys, caps' \in BOOLEAN,
         Decode(Caught, bytes) = [decoder |-> Caught', events |-> events],
         lost = NoByte /\ Paired(due, down) => Paired(due \o events, down')
  PROVE  StreamInv'
<1>1. /\ wire = <<>> /\ wire' = bytes /\ due' = IF lost = NoByte THEN due \o events ELSE <<>>
      /\ UNCHANGED <<device, buffer, decoder, lost>>
  BY DEF Send, Owe
<1>2. buffer \in Seq(Int) /\ buffer \o wire = buffer /\ buffer' \o wire' = buffer \o bytes
  BY <1>1 DEF StreamInv
<1>3. ASSUME lost = NoByte
      PROVE  OnTheWay' = [decoder |-> Caught', events |-> due'] /\ Paired(due', down')
  <2>1. Decode(decoder, buffer) = [decoder |-> Caught, events |-> due]
    BY <1>2, <1>3 DEF StreamInv, OnTheWay
  <2>2. OnTheWay' = Decode(decoder, buffer \o bytes) BY <1>1, <1>2 DEF OnTheWay
  <2>3. decoder \in Decoders BY DEF StreamInv
  <2>4. Decode(decoder, buffer \o bytes) = [decoder |-> Caught', events |-> due \o events]
    <3> DEFINE I == Int
    <3>1. buffer \in Seq(I) /\ bytes \in Seq(I) BY <1>2
    <3> HIDE DEF I
    <3> QED BY SMTT(60), <2>1, <2>3, <3>1, DecodeBoth
  <2>5. Paired(due \o events, down') BY <1>3 DEF StreamInv
  <2> QED BY <1>1, <1>3, <2>2, <2>4, <2>5
<1>4. ASSUME lost = OtherByte PROVE ~Deaf(decoder', buffer' \o wire')
  <2>1. ~Deaf(decoder, buffer) BY <1>2, <1>4 DEF StreamInv
  <2> QED BY <1>1, <1>2, <2>1, DeafCat
<1> QED BY <1>1, <1>2, <1>3, <1>4 DEF StreamInv

(* A keystroke that owes its release keeps the arrows paired.              *)
LEMMA PairedMore ==
  ASSUME NEW S, NEW q \in Seq(S), NEW t \in Seq(S), NEW keys, NEW more, Paired(q, keys),
         \A i \in 1 .. Len(t), k \in Arrows :
           t[i].kind = "press" /\ t[i].of.key = k => k \in more,
         \A k \in (keys \ more) \cap Arrows :
           \E j \in 1 .. Len(t) : t[j] = Release(Control(k))
  PROVE  Paired(q \o t, more)
<1> DEFINE u == q \o t
<1>1. /\ u \in Seq(S) /\ Len(u) = Len(q) + Len(t)
      /\ \A i \in 1 .. Len(q) : u[i] = q[i]
      /\ \A i \in 1 .. Len(t) : u[Len(q) + i] = t[i]
  OBVIOUS
<1>2. Len(q) \in Nat /\ Len(t) \in Nat OBVIOUS
<1> HIDE DEF u
<1>3. ASSUME NEW i \in 1 .. Len(u), NEW k \in Arrows, u[i].kind = "press", u[i].of.key = k
      PROVE  k \in more \/ \E j \in i + 1 .. Len(u) : u[j] = Release(Control(k))
  <2>1. CASE i \in 1 .. Len(q)
    <3>1. k \in keys \/ \E j \in i + 1 .. Len(q) : q[j] = Release(Control(k))
      BY ZenonT(60), <1>1, <1>3, <2>1 DEF Paired
    <3>2. ASSUME NEW j \in i + 1 .. Len(q), q[j] = Release(Control(k))
          PROVE  j \in i + 1 .. Len(u) /\ u[j] = Release(Control(k))
      BY <1>1, <1>2, <2>1, <3>2
    <3>3. ASSUME NEW j \in 1 .. Len(t), t[j] = Release(Control(k))
          PROVE  Len(q) + j \in i + 1 .. Len(u) /\ u[Len(q) + j] = Release(Control(k))
      BY <1>1, <1>2, <2>1, <3>3
    <3> QED BY <3>1, <3>2, <3>3
  <2>2. CASE i \notin 1 .. Len(q)
    <3>1. i - Len(q) \in 1 .. Len(t) /\ Len(q) + (i - Len(q)) = i BY <1>1, <1>2, <2>2
    <3>2. u[i] = t[i - Len(q)] BY <1>1, <3>1
    <3> QED BY <1>3, <3>1, <3>2
  <2> QED BY <2>1, <2>2
<1>4. Paired(u, more) BY <1>3 DEF Paired
<1> QED BY <1>4 DEF u

(* The events due are events of the decoder.                               *)
LEMMA DueType ==
  ASSUME StreamInv, device = "ps2", lost = NoByte
  PROVE  due \in Seq(EventsOf(Int))
<1>1. buffer \o wire \in Seq(Int) /\ decoder \in Decoders BY DEF StreamInv
<1>2. OnTheWay.events = due BY DEF StreamInv
<1> QED BY <1>1, <1>2, DecodeType DEF OnTheWay

LEMMA MeaningKey ==
  ASSUME NEW k \in KnownKeys
  PROVE  /\ Meaning(k).key = IF k = "NumLock" THEN "Unknown" ELSE k
         /\ k \in Arrows => Meaning(k) = Control(k)
BY DEF Meaning, Control, Char, Arrows, Printable

LEMMA KeyDownStep == ASSUME StreamInv, NEW k \in Keys, KeyDown(k) PROVE StreamInv'
<1> DEFINE events == Meant(k, Press(Meaning(k)))
<1>1. /\ device = "ps2" /\ Send(MakeBytes(k), events)
      /\ down' = down \cup ({k} \ {"Pause"}) /\ caps' = (caps # (k = "CapsLock"))
  BY DEF KeyDown
<1>2. caps \in BOOLEAN /\ down \subseteq KnownKeys BY DEF StreamInv
<1>3. down' \subseteq KnownKeys /\ caps' \in BOOLEAN BY <1>1, <1>2, KeysKnown
<1>4. CASE k = "Pause"
  <2>1. MakeBytes(k) = PauseBytes /\ events = <<>> BY <1>4 DEF MakeBytes, Meant
  <2>2. down' = down /\ caps' = caps BY <1>1, <1>2, <1>4
  <2>3. Caught' = Caught BY <2>2 DEF Caught
  <2>4. Decode(Caught, PauseBytes) = [decoder |-> Caught', events |-> <<>>]
    BY <1>2, <2>3, CaughtReady, DecodePause
  <2>5. lost = NoByte => due \o <<>> = due BY <1>1, DueType
  <2> QED BY <1>1, <1>3, <2>1, <2>2, <2>4, <2>5, PauseSent, StrokeSent
<1>5. CASE k # "Pause"
  <2> DEFINE event == Press(Meaning(k))
  <2>1. k \in KnownKeys /\ events = <<event>> BY <1>5, KeysKnown DEF Meant
  <2>2. MakeBytes(k) \in Seq(Int) /\ Closed(MakeBytes(k))
        /\ MakeBytes(k) = Prefixed(k) \o <<CodeOf(k)>>
    BY <2>1, BytesSent
  <2>3. Decode(Caught, MakeBytes(k)) = [decoder |-> Tracked(Caught, event), events |-> <<event>>]
    BY <1>2, <2>1, <2>2, CaughtReady, DecodeCode
  <2>4. Tracked(Caught, event) = Caught'
    <3>1. event.kind = "press" /\ event.of.key = IF k = "NumLock" THEN "Unknown" ELSE k
      BY <2>1, MeaningKey DEF Press
    <3>2. down' = down \cup {k} BY <1>1, <1>5
    <3>3. caps' = IF k = "CapsLock" THEN ~caps ELSE caps BY <1>1, <1>2
    <3> HIDE DEF event
    <3>4. "LeftShift" \in down' <=> IF event.of.key = "LeftShift" THEN event.kind = "press"
                                                                  ELSE "LeftShift" \in down
      BY <3>1, <3>2
    <3>5. "RightShift" \in down' <=> IF event.of.key = "RightShift" THEN event.kind = "press"
                                                                    ELSE "RightShift" \in down
      BY <3>1, <3>2
    <3>6. caps' <=> IF event.of.key = "CapsLock" /\ event.kind = "press" THEN ~caps ELSE caps
      BY <3>1, <3>3
    <3> QED BY <1>2, <1>3, <3>4, <3>5, <3>6, TrackedFlags DEF Caught
  <2>5. ASSUME lost = NoByte, Paired(due, down) PROVE Paired(due \o <<event>>, down')
    <3> DEFINE S == EventsOf(Int) \cup {event}
    <3>1. due \in Seq(S) /\ <<event>> \in Seq(S)
      <4>1. due \in Seq(EventsOf(Int)) BY <1>1, <2>5, DueType
      <4> HIDE DEF event
      <4> QED BY <4>1, SeqMonotonic
    <3>2. \A i \in 1 .. Len(<<event>>), a \in Arrows :
             <<event>>[i].kind = "press" /\ <<event>>[i].of.key = a => a \in down'
      <4>1. event.of.key = IF k = "NumLock" THEN "Unknown" ELSE k
        BY <2>1, MeaningKey DEF Press
      <4>2. k \in down' BY <1>1, <1>5
      <4>3. "Unknown" \notin Arrows BY DEF Arrows
      <4> HIDE DEF event
      <4> QED BY <4>1, <4>2, <4>3
    <3>3. down \ down' = {} BY <1>1
    <3> HIDE DEF event, S
    <3> QED BY <2>5, <3>1, <3>2, <3>3, PairedMore
  <2> HIDE DEF event
  <2> QED BY <1>1, <1>3, <2>1, <2>2, <2>3, <2>4, <2>5, StrokeSent
<1> QED BY <1>4, <1>5

LEMMA KeyUpStep == ASSUME StreamInv, NEW k \in Keys, KeyUp(k) PROVE StreamInv'
<1> DEFINE event == Release(Meaning(k))
           S == EventsOf(Int) \cup {event}
<1>1. /\ device = "ps2" /\ k \in down /\ Send(BreakBytes(k), Meant(k, event))
      /\ down' = down \ {k} /\ caps' = caps
  BY DEF KeyUp
<1>2. caps \in BOOLEAN /\ down \subseteq KnownKeys BY DEF StreamInv
<1>3. k \in KnownKeys /\ k # "Pause" BY <1>1, <1>2 DEF KnownKeys, Printable, PlainKeys, Arrows
<1>4. Meant(k, event) = <<event>> BY <1>3 DEF Meant
<1>5. BreakBytes(k) \in Seq(Int) /\ Closed(BreakBytes(k))
      /\ BreakBytes(k) = Prefixed(k) \o <<CodeOf(k) + BreakBit>>
  BY <1>3, BytesSent
<1>6. Decode(Caught, BreakBytes(k)) = [decoder |-> Tracked(Caught, event), events |-> <<event>>]
  BY <1>2, <1>3, <1>5, CaughtReady, DecodeCode
<1>7. event.kind = "release" /\ event.of.key = IF k = "NumLock" THEN "Unknown" ELSE k
  BY <1>3, MeaningKey DEF Release
<1>8. k \in Arrows => event = Release(Control(k)) BY <1>3, MeaningKey
<1> HIDE DEF event
<1>9. Tracked(Caught, event) = Caught'
  <2>1. "LeftShift" \in down' <=> IF event.of.key = "LeftShift" THEN event.kind = "press"
                                                                ELSE "LeftShift" \in down
    BY <1>1, <1>7
  <2>2. "RightShift" \in down' <=> IF event.of.key = "RightShift" THEN event.kind = "press"
                                                                  ELSE "RightShift" \in down
    BY <1>1, <1>7
  <2>3. caps' <=> IF event.of.key = "CapsLock" /\ event.kind = "press" THEN ~caps ELSE caps
    BY <1>1, <1>7
  <2> QED BY <1>1, <1>2, <2>1, <2>2, <2>3, TrackedFlags DEF Caught
<1>10. ASSUME lost = NoByte, Paired(due, down) PROVE Paired(due \o <<event>>, down')
  <2>1. due \in Seq(S) /\ <<event>> \in Seq(S)
    <3>1. due \in Seq(EventsOf(Int)) BY <1>1, <1>10, DueType
    <3> QED BY <3>1, SeqMonotonic
  <2>2. \A i \in 1 .. Len(<<event>>), a \in Arrows :
           <<event>>[i].kind = "press" /\ <<event>>[i].of.key = a => a \in down'
    BY <1>7
  <2>3. \A a \in (down \ down') \cap Arrows :
          \E j \in 1 .. Len(<<event>>) : <<event>>[j] = Release(Control(a))
    BY <1>1, <1>8
  <2> HIDE DEF S
  <2> QED BY <1>10, <2>1, <2>2, <2>3, PairedMore
<1> QED BY <1>1, <1>2, <1>4, <1>5, <1>6, <1>9, <1>10, StrokeSent

LEMMA FakeShiftedStep ==
  ASSUME StreamInv, NEW k \in Keys \cap Arrows, FakeShiftedArrow(k) PROVE StreamInv'
<1> DEFINE first == Release(Control("Unknown"))
           event == Press(Meaning(k))
           U == EventsOf(Int) \cup {first, event}
           both == <<first, event>>
<1>1. /\ device = "ps2" /\ down' = down \cup {k} /\ caps' = caps
      /\ \E s \in down \cap Shifts : Send(FakeBreak(s) \o MakeBytes(k), both)
  BY DEF FakeShiftedArrow
<1>2. PICK s \in down \cap Shifts : Send(FakeBreak(s) \o MakeBytes(k), both) BY <1>1
<1>3. caps \in BOOLEAN /\ down \subseteq KnownKeys BY DEF StreamInv
<1>4. k \in KnownKeys BY DEF KnownKeys
<1>5. /\ FakeBreak(s) \in Seq(Int) /\ MakeBytes(k) \in Seq(Int)
      /\ Closed(FakeBreak(s) \o MakeBytes(k))
      /\ MakeBytes(k) = Prefixed(k) \o <<CodeOf(k)>>
  BY <1>4, BytesSent
<1>6. Decode(Caught, FakeBreak(s)) = [decoder |-> Caught, events |-> <<first>>]
  BY <1>3, CaughtReady, DecodeFakeBreak
<1>7. Decode(Caught, MakeBytes(k)) = [decoder |-> Tracked(Caught, event), events |-> <<event>>]
  BY <1>3, <1>4, <1>5, CaughtReady, DecodeCode
<1>8. event.kind = "press" /\ event.of.key = k BY <1>4, MeaningKey DEF Press, Arrows
<1>9. first.kind = "release" BY DEF Release
<1>10. <<first>> \o <<event>> = both
  <2> DEFINE u == <<first>> \o <<event>>
             T == {first, event}
  <2>1. u \in Seq(T) /\ both \in Seq(T) /\ Len(u) = 2 /\ Len(both) = 2
        /\ u[1] = first /\ u[2] = event /\ both[1] = first /\ both[2] = event
    OBVIOUS
  <2> HIDE DEF u, both, T
  <2>2. u = both BY <2>1, SeqEqual
  <2> QED BY <2>2 DEF u
<1> HIDE DEF first, event
<1>11. Tracked(Caught, event) = Caught'
  <2>1. "LeftShift" \in down' <=> IF event.of.key = "LeftShift" THEN event.kind = "press"
                                                                ELSE "LeftShift" \in down
    BY <1>1, <1>8 DEF Arrows
  <2>2. "RightShift" \in down' <=> IF event.of.key = "RightShift" THEN event.kind = "press"
                                                                  ELSE "RightShift" \in down
    BY <1>1, <1>8 DEF Arrows
  <2>3. caps' <=> IF event.of.key = "CapsLock" /\ event.kind = "press" THEN ~caps ELSE caps
    BY <1>1, <1>8 DEF Arrows
  <2> QED BY <1>1, <1>3, <2>1, <2>2, <2>3, TrackedFlags DEF Caught
<1>12. Decode(Caught, FakeBreak(s) \o MakeBytes(k)) = [decoder |-> Caught', events |-> both]
  <2>1. Caught \in Decoders BY <1>3, CaughtReady DEF Ready
  <2>2. Decode(Caught, MakeBytes(k)) = [decoder |-> Caught', events |-> <<event>>]
    BY <1>7, <1>11
  <2> HIDE DEF both
  <2>3. Decode(Caught, FakeBreak(s) \o MakeBytes(k))
          = [decoder |-> Caught', events |-> <<first>> \o <<event>>]
    <3> DEFINE I == Int
               one == <<first>>
               two == <<event>>
    <3>1. FakeBreak(s) \in Seq(I) /\ MakeBytes(k) \in Seq(I) BY <1>5
    <3>2. Decode(Caught, FakeBreak(s)) = [decoder |-> Caught, events |-> one] BY <1>6
    <3>3. Decode(Caught, MakeBytes(k)) = [decoder |-> Caught', events |-> two] BY <2>2
    <3> HIDE DEF I, one, two
    <3>4. LET x == Decode(Caught, FakeBreak(s)) IN
          Decode(Caught, FakeBreak(s) \o MakeBytes(k))
            = [decoder |-> Decode(x.decoder, MakeBytes(k)).decoder,
               events |-> x.events \o Decode(x.decoder, MakeBytes(k)).events]
      BY <2>1, <3>1, DecodeCat, ZenonT(60)
    <3>5. Decode(Caught, FakeBreak(s)).decoder = Caught
          /\ Decode(Caught, FakeBreak(s)).events = one
      BY <3>2
    <3>6. Decode(Caught, MakeBytes(k)).decoder = Caught'
          /\ Decode(Caught, MakeBytes(k)).events = two
      BY <3>3
    <3>7. Decode(Caught, FakeBreak(s) \o MakeBytes(k)) = [decoder |-> Caught', events |-> one \o two]
      BY <3>4, <3>5, <3>6
    <3> QED BY <3>7 DEF one, two
  <2> QED BY <1>10, <2>3
<1>13. ASSUME lost = NoByte, Paired(due, down) PROVE Paired(due \o both, down')
  <2>1. due \in Seq(U) /\ both \in Seq(U)
    <3>1. due \in Seq(EventsOf(Int)) BY <1>1, <1>13, DueType
    <3> QED BY <3>1, SeqMonotonic
  <2>2. \A i \in 1 .. Len(both), a \in Arrows :
           both[i].kind = "press" /\ both[i].of.key = a => a \in down'
    BY <1>1, <1>8, <1>9
  <2>3. down \ down' = {} BY <1>1
  <2> HIDE DEF U, both
  <2> QED BY <1>13, <2>1, <2>2, <2>3, PairedMore
<1>14. FakeBreak(s) \o MakeBytes(k) \in Seq(Int) BY <1>5
<1>15. down' \subseteq KnownKeys BY <1>1, <1>3, <1>4
<1> HIDE DEF both
<1> QED BY <1>1, <1>2, <1>3, <1>5, <1>12, <1>13, <1>14, <1>15, StrokeSent

LEMMA TerminalStep == ASSUME StreamInv, NEW byte, TerminalSends(byte) PROVE StreamInv'
BY DEF StreamInv, TerminalSends, Send
-----------------------------------------------------------------------------
(* What the controller and the kernel do with the bytes.                   *)
(* Moving the head of t to the end of s moves nothing in the stream.       *)
LEMMA Joined ==
  ASSUME NEW S, NEW s \in Seq(S), NEW t \in Seq(S), t # <<>>
  PROVE  /\ Append(s, Head(t)) \o Tail(t) = s \o t
         /\ Head(t) \in S /\ Tail(t) \in Seq(S) /\ Len(Tail(t)) = Len(t) - 1
         /\ \A i \in 1 .. Len(t) - 1 : Tail(t)[i] = t[i + 1]
         /\ Head(t) = t[1] /\ Len(t) \in Nat /\ Len(t) >= 1
<1>1. /\ Head(t) \in S /\ Tail(t) \in Seq(S) /\ Len(Tail(t)) = Len(t) - 1
      /\ \A i \in 1 .. Len(t) - 1 : Tail(t)[i] = t[i + 1]
      /\ Head(t) = t[1] /\ Len(t) \in Nat /\ Len(t) >= 1
  OBVIOUS
<1> DEFINE h == Head(t)
           r == Tail(t)
           a == Append(s, h)
           u == a \o r
           v == s \o t
<1>2. h \in S /\ r \in Seq(S) BY <1>1
<1>3. a \in Seq(S) /\ Len(a) = Len(s) + 1 /\ a[Len(s) + 1] = h
      /\ \A i \in 1 .. Len(s) : a[i] = s[i]
  <2> HIDE DEF h
  <2> QED BY <1>2
<1>4. /\ u \in Seq(S) /\ Len(u) = Len(a) + Len(r)
      /\ \A i \in 1 .. Len(a) + Len(r) : u[i] = IF i <= Len(a) THEN a[i] ELSE r[i - Len(a)]
  <2> HIDE DEF a, r
  <2> QED BY <1>2, <1>3, ConcatProperties
<1>5. /\ v \in Seq(S) /\ Len(v) = Len(s) + Len(t)
      /\ \A i \in 1 .. Len(s) + Len(t) : v[i] = IF i <= Len(s) THEN s[i] ELSE t[i - Len(s)]
  BY ConcatProperties
<1>6. Len(s) \in Nat /\ Len(r) = Len(t) - 1 /\ h = t[1]
      /\ \A i \in 1 .. Len(t) - 1 : r[i] = t[i + 1]
  BY <1>1
<1> HIDE DEF a, u, v, r, h
<1>7. Len(u) = Len(v) BY <1>1, <1>3, <1>4, <1>5, <1>6
<1>8. ASSUME NEW i \in 1 .. Len(u) PROVE u[i] = v[i]
  <2>1. CASE i <= Len(s)
    <3>1. i \in 1 .. Len(a) + Len(r) /\ i <= Len(a) /\ i \in 1 .. Len(s) + Len(t)
          /\ i \in 1 .. Len(s)
      BY <1>1, <1>3, <1>4, <1>6, <2>1
    <3>2. u[i] = a[i] /\ a[i] = s[i] /\ v[i] = s[i] BY <1>3, <1>4, <1>5, <2>1, <3>1
    <3> QED BY <3>2
  <2>2. CASE i = Len(s) + 1 BY <1>1, <1>3, <1>4, <1>5, <1>6, <1>7, <2>2
  <2>3. CASE i > Len(s) + 1
    <3>1. i - Len(a) \in 1 .. Len(t) - 1 /\ (i - Len(a)) + 1 = i - Len(s)
      BY SMTT(60), <1>1, <1>3, <1>4, <1>6, <2>3
    <3>2. i \in 1 .. Len(a) + Len(r) /\ ~(i <= Len(a)) /\ i \in 1 .. Len(s) + Len(t)
          /\ ~(i <= Len(s))
      BY <1>1, <1>3, <1>4, <1>6, <2>3
    <3>3. u[i] = r[i - Len(a)] /\ v[i] = t[i - Len(s)] BY <1>4, <1>5, <3>2
    <3>4. r[i - Len(a)] = t[(i - Len(a)) + 1] BY <1>6, <3>1
    <3> QED BY <3>1, <3>3, <3>4
  <2> QED BY <1>6, <2>1, <2>2, <2>3
<1>9. u = v BY <1>4, <1>5, <1>7, <1>8, SeqEqual
<1> QED BY <1>1, <1>9 DEF u, v, a, h, r

LEMMA TailClosed ==
  ASSUME NEW S, NEW t \in Seq(S), t # <<>>, Closed(t)
  PROVE  Closed(Tail(t))
<1> DEFINE r == Tail(t)
<1>1. <<>> \in Seq(S) OBVIOUS
<1>2. /\ Len(r) = Len(t) - 1 /\ Len(t) \in Nat
      /\ \A i \in 1 .. Len(t) - 1 : r[i] = t[i + 1]
  BY <1>1, Joined
<1> HIDE DEF r
<1>3. ASSUME NEW i \in 1 .. Len(r), r[i] = PausePrefix PROVE \E j \in i .. Len(r) : r[j] = PauseEnd
  <2>1. i + 1 \in 1 .. Len(t) /\ t[i + 1] = PausePrefix BY <1>2, <1>3
  <2>2. PICK j \in i + 1 .. Len(t) : t[j] = PauseEnd BY <2>1 DEF Closed
  <2>3. j - 1 \in i .. Len(r) /\ j - 1 \in 1 .. Len(t) - 1 /\ (j - 1) + 1 = j BY <1>2, <2>2
  <2>4. r[j - 1] = t[(j - 1) + 1] BY <1>2, <2>3
  <2> QED BY <2>2, <2>3, <2>4
<1>4. Closed(r) BY <1>3 DEF Closed
<1> QED BY <1>4 DEF r

(* Dropping a byte that ends no pause sequence leaves no decoder deaf.     *)
LEMMA DeafDrop ==
  ASSUME NEW S, NEW s \in Seq(S), NEW t \in Seq(S), t # <<>>, Head(t) # PauseEnd,
         NEW d, ~Deaf(d, s \o t)
  PROVE  ~Deaf(d, s \o Tail(t))
<1> DEFINE r == Tail(t)
           u == s \o t
           v == s \o r
<1>1. /\ Head(t) = t[1] /\ r \in Seq(S) /\ Len(r) = Len(t) - 1 /\ Len(t) \in Nat /\ Len(t) >= 1
      /\ \A i \in 1 .. Len(t) - 1 : r[i] = t[i + 1]
  BY Joined
<1>2. /\ Len(u) = Len(s) + Len(t) /\ Len(s) \in Nat
      /\ \A i \in 1 .. Len(s) + Len(t) : u[i] = IF i <= Len(s) THEN s[i] ELSE t[i - Len(s)]
  BY ConcatProperties
<1>3. /\ Len(v) = Len(s) + Len(r)
      /\ \A i \in 1 .. Len(s) + Len(r) : v[i] = IF i <= Len(s) THEN s[i] ELSE r[i - Len(s)]
  <2> HIDE DEF r
  <2> QED BY ZenonT(60), <1>1, ConcatProperties
<1> HIDE DEF r, u, v
<1>4. Len(u) = Len(v) + 1 BY <1>1, <1>2, <1>3
<1>5. ASSUME NEW j \in 1 .. Len(u), j <= Len(s) PROVE u[j] = v[j] /\ j \in 1 .. Len(v)
  BY <1>1, <1>2, <1>3, <1>4, <1>5
<1>6. ASSUME NEW j \in 1 .. Len(u), j > Len(s) + 1 PROVE u[j] = v[j - 1] /\ j - 1 \in 1 .. Len(v)
  <2>1. (j - 1) - Len(s) \in 1 .. Len(t) - 1 /\ ((j - 1) - Len(s)) + 1 = j - Len(s)
    BY <1>1, <1>2, <1>6
  <2>2. /\ j \in 1 .. Len(s) + Len(t) /\ ~(j <= Len(s))
        /\ j - 1 \in 1 .. Len(s) + Len(r) /\ ~(j - 1 <= Len(s)) /\ j - 1 \in 1 .. Len(v)
    BY <1>1, <1>2, <1>3, <1>4, <1>6
  <2>3. u[j] = t[j - Len(s)] /\ v[j - 1] = r[(j - 1) - Len(s)] BY <1>2, <1>3, <2>2
  <2>4. r[(j - 1) - Len(s)] = t[((j - 1) - Len(s)) + 1] BY <1>1, <2>1
  <2> QED BY <2>1, <2>2, <2>3, <2>4
<1>7. Len(s) + 1 \in 1 .. Len(u) /\ u[Len(s) + 1] # PauseEnd BY <1>1, <1>2
<1>8. ASSUME NEW i \in 1 .. Len(v), v[i] = PausePrefix, \A j \in i .. Len(v) : v[j] # PauseEnd
      PROVE  FALSE
  <2>1. CASE i <= Len(s)
    <3>1. i \in 1 .. Len(u) /\ u[i] = PausePrefix BY <1>2, <1>4, <1>5, <1>8, <2>1
    <3>2. ASSUME NEW j \in i .. Len(u) PROVE u[j] # PauseEnd
      <4>1. CASE j <= Len(s) BY <1>2, <1>4, <1>5, <1>8, <4>1
      <4>2. CASE j = Len(s) + 1 BY <1>7, <4>2
      <4>3. CASE j > Len(s) + 1
        <5>1. j \in 1 .. Len(u) /\ j - 1 \in i .. Len(v) BY <1>2, <1>4, <2>1, <4>3
        <5> QED BY <1>6, <1>8, <4>3, <5>1
      <4> QED BY <1>2, <4>1, <4>2, <4>3
    <3> QED BY <3>1, <3>2 DEF Deaf, u
  <2>2. CASE i > Len(s)
    <3>1. i + 1 \in 1 .. Len(u) /\ i + 1 > Len(s) + 1 /\ (i + 1) - 1 = i BY <1>2, <1>4, <2>2
    <3>2. u[i + 1] = PausePrefix BY <1>6, <1>8, <3>1
    <3>3. ASSUME NEW j \in i + 1 .. Len(u) PROVE u[j] # PauseEnd
      <4>1. j \in 1 .. Len(u) /\ j > Len(s) + 1 /\ j - 1 \in i .. Len(v)
        BY SMTT(60), <1>2, <1>4, <3>1
      <4> QED BY <1>6, <1>8, <4>1
    <3> QED BY <3>1, <3>2, <3>3 DEF Deaf, u
  <2> QED BY <1>2, <2>1, <2>2
<1>9. ASSUME d.pause, \A j \in 1 .. Len(v) : v[j] # PauseEnd PROVE FALSE
  <2>1. ASSUME NEW j \in 1 .. Len(u) PROVE u[j] # PauseEnd
    <3>1. CASE j <= Len(s) BY <1>5, <1>9, <3>1
    <3>2. CASE j = Len(s) + 1 BY <1>7, <3>2
    <3>3. CASE j > Len(s) + 1 BY <1>6, <1>9, <3>3
    <3> QED BY <1>2, <3>1, <3>2, <3>3
  <2> QED BY <1>9, <2>1 DEF Deaf, u
<1>10. ~Deaf(d, v) BY <1>8, <1>9 DEF Deaf
<1> QED BY <1>10 DEF v, r

LEMMA ArriveStep == ASSUME StreamInv, Arrive PROVE StreamInv'
<1>1. /\ wire # <<>> /\ buffer' = Append(buffer, Head(wire)) /\ wire' = Tail(wire)
      /\ UNCHANGED <<device, down, caps, decoder, due, lost>>
  BY DEF Arrive
<1>2. Caught' = Caught BY <1>1 DEF Caught
<1>3. CASE device = "ps2"
  <2>1. buffer \in Seq(Int) /\ wire \in Seq(Int) /\ Closed(wire) BY <1>3 DEF StreamInv
  <2>2. /\ buffer' \o wire' = buffer \o wire /\ wire' \in Seq(Int) /\ Head(wire) \in Int
    <3> DEFINE I == Int
    <3>1. buffer \in Seq(I) /\ wire \in Seq(I) BY <2>1
    <3> HIDE DEF I
    <3>2. buffer' \o wire' = buffer \o wire /\ wire' \in Seq(I) /\ Head(wire) \in I
      BY <1>1, <3>1, Joined
    <3> QED BY <3>2 DEF I
  <2>3. buffer' \in Seq(Int) BY <1>1, <2>1, <2>2
  <2>4. Closed(wire') BY <1>1, <2>1, TailClosed
  <2>5. OnTheWay' = OnTheWay BY <1>1, <2>2 DEF OnTheWay
  <2> QED BY <1>1, <1>2, <2>2, <2>3, <2>4, <2>5 DEF StreamInv
<1>4. CASE device # "ps2" BY <1>1, <1>4 DEF StreamInv
<1> QED BY <1>3, <1>4

LEMMA OverrunStep == ASSUME StreamInv, Overrun PROVE StreamInv'
<1>1. /\ wire # <<>> /\ lost = NoByte /\ wire' = Tail(wire)
      /\ lost' = IF Head(wire) = PauseEnd THEN PauseEnd ELSE OtherByte
      /\ UNCHANGED <<device, down, caps, buffer, decoder>>
  BY DEF Overrun
<1>2. lost' \in {PauseEnd, OtherByte} /\ lost' # NoByte
  BY <1>1 DEF PauseEnd, OtherByte, NoByte
<1>3. CASE device = "ps2"
  <2>1. /\ buffer \in Seq(Int) /\ wire \in Seq(Int) /\ Closed(wire) /\ decoder \in Decoders
        /\ OnTheWay.decoder = Caught
    BY <1>1, <1>3 DEF StreamInv
  <2>2. ~Caught.pause BY DEF Caught
  <2>3. ~Deaf(decoder, buffer \o wire)
    <3>1. buffer \o wire \in Seq(Int) BY <2>1
    <3>2. OnTheWay.decoder.pause <=> Deaf(decoder, buffer \o wire)
      <4> DEFINE I == Int
                 t == buffer \o wire
      <4>1. t \in Seq(I) /\ OnTheWay = Decode(decoder, t) BY <3>1 DEF OnTheWay
      <4> HIDE DEF I, t
      <4>2. OnTheWay.decoder.pause <=> Deaf(decoder, t) BY <2>1, <4>1, DecodeDeaf
      <4> QED BY <4>2 DEF t
    <3> QED BY <2>1, <2>2, <3>2
  <2>4. wire' \in Seq(Int) /\ Closed(wire') BY <1>1, <2>1, TailClosed
  <2>5. ASSUME lost' = OtherByte PROVE ~Deaf(decoder', buffer' \o wire')
    <3>1. Head(wire) # PauseEnd BY <1>1, <2>5 DEF PauseEnd, OtherByte
    <3> DEFINE I == Int
    <3>2. buffer \in Seq(I) /\ wire \in Seq(I) BY <2>1
    <3> HIDE DEF I
    <3>3. ~Deaf(decoder, buffer \o Tail(wire)) BY <1>1, <2>3, <3>1, <3>2, DeafDrop
    <3> QED BY <1>1, <3>3
  <2> QED BY <1>1, <1>2, <2>1, <2>4, <2>5 DEF StreamInv
<1>4. CASE device # "ps2" BY <1>1, <1>2, <1>4 DEF StreamInv
<1> QED BY <1>3, <1>4
(* One byte decoded off the front of a stream.                             *)
LEMMA DecodeHead ==
  ASSUME NEW S, NEW d \in Decoders, NEW b \in S, NEW r \in Seq(S)
  PROVE  LET y == Push(d, b)
             x == Decode(y.decoder, r)
         IN  /\ Decode(d, <<b>> \o r).decoder = x.decoder
             /\ Decode(d, <<b>> \o r).events =
                  IF y.event = NoEvent THEN x.events ELSE <<y.event>> \o x.events
<1> DEFINE p == <<b>>
           y == Push(d, b)
           e == y.decoder
           x == Decode(e, r)
           q == IF y.event = NoEvent THEN <<>> ELSE <<y.event>>
<1>1. p \in Seq(S) OBVIOUS
<1>2. Decode(d, p).decoder = e /\ Decode(d, p).events = q
  <2>1. Decode(d, p) = Fed([decoder |-> d, events |-> <<>>], b) BY DecodeByte
  <2>2. Append(<<>>, y.event) = <<y.event>> OBVIOUS
  <2> QED BY <2>1, <2>2 DEF Fed
<1>3. e \in Decoders BY PushType
<1>4. x.events \in Seq(EventsOf(S))
  <2> HIDE DEF e
  <2> QED BY <1>3, DecodeType
<1>5. <<>> \o x.events = x.events
  <2> DEFINE z == x.events
             E == EventsOf(S)
  <2>1. z \in Seq(E) BY <1>4
  <2> HIDE DEF z, E
  <2>2. <<>> \o z = z BY <2>1
  <2> QED BY <2>2 DEF z
<1> HIDE DEF p, e
<1>6. Decode(d, p \o r) = [decoder |-> Decode(Decode(d, p).decoder, r).decoder,
                           events |-> Decode(d, p).events \o Decode(Decode(d, p).decoder, r).events]
  BY <1>1, DecodeCat, ZenonT(60)
<1>7. Decode(d, p \o r).decoder = x.decoder /\ Decode(d, p \o r).events = q \o x.events
  <2> HIDE DEF q
  <2> QED BY <1>2, <1>6
<1>8. q \o x.events = IF y.event = NoEvent THEN x.events ELSE <<y.event>> \o x.events
  <2> HIDE DEF x, y
  <2> QED BY <1>5
<1> QED BY <1>7, <1>8 DEF p, e

(* A stream by its first byte.                                             *)
LEMMA Split ==
  ASSUME NEW S, NEW s \in Seq(S), NEW t \in Seq(S), s # <<>>
  PROVE  /\ s \o t = <<Head(s)>> \o (Tail(s) \o t)
         /\ Head(s) \in S /\ Tail(s) \in Seq(S) /\ Tail(s) \o t \in Seq(S)
<1> DEFINE h == Head(s)
           r == Tail(s)
           p == <<h>>
           u == p \o (r \o t)
           v == s \o t
<1>1. /\ h \in S /\ r \in Seq(S) /\ Len(r) = Len(s) - 1 /\ h = s[1] /\ Len(s) \in Nat /\ Len(s) >= 1
      /\ \A i \in 1 .. Len(s) - 1 : r[i] = s[i + 1]
  OBVIOUS
<1>2. r \o t \in Seq(S)
  <2> HIDE DEF r
  <2> QED BY <1>1
<1>3. s = p \o r
  <2>1. <<>> \in Seq(S) /\ Append(<<>>, h) = p
    <3> HIDE DEF h
    <3> QED OBVIOUS
  <2>2. Append(<<>>, Head(s)) \o Tail(s) = <<>> \o s BY <2>1, Joined
  <2>3. <<>> \o s = s OBVIOUS
  <2> QED BY <2>1, <2>2, <2>3
<1>4. p \in Seq(S)
  <2> HIDE DEF h
  <2> QED BY <1>1
<1> HIDE DEF p, r, h
<1>5. (p \o r) \o t = p \o (r \o t)
  <2>1. p \in Seq(S) /\ r \in Seq(S) BY <1>1, <1>4
  <2> QED BY SMTT(60), <2>1, ConcatAssociative
<1> QED BY <1>1, <1>2, <1>3, <1>5 DEF p, h, r

LEMMA PairedTail ==
  ASSUME NEW S, NEW q \in Seq(S), q # <<>>, NEW keys, Paired(q, keys)
  PROVE  Paired(Tail(q), keys)
<1> DEFINE r == Tail(q)
<1>1. <<>> \in Seq(S) OBVIOUS
<1>2. /\ Len(r) = Len(q) - 1 /\ Len(q) \in Nat
      /\ \A i \in 1 .. Len(q) - 1 : r[i] = q[i + 1]
  BY <1>1, Joined
<1> HIDE DEF r
<1>3. ASSUME NEW i \in 1 .. Len(r), NEW k \in Arrows, r[i].kind = "press", r[i].of.key = k
      PROVE  k \in keys \/ \E j \in i + 1 .. Len(r) : r[j] = Release(Control(k))
  <2>1. i + 1 \in 1 .. Len(q) /\ q[i + 1] = r[i] BY <1>2
  <2>2. k \in keys \/ \E j \in i + 2 .. Len(q) : q[j] = Release(Control(k))
    <3>1. k \in keys \/ \E j \in (i + 1) + 1 .. Len(q) : q[j] = Release(Control(k))
      BY <1>3, <2>1 DEF Paired
    <3> QED BY <3>1
  <2>3. ASSUME NEW j \in i + 2 .. Len(q), q[j] = Release(Control(k))
        PROVE  j - 1 \in i + 1 .. Len(r) /\ r[j - 1] = Release(Control(k))
    <3>1. j - 1 \in i + 1 .. Len(r) /\ j - 1 \in 1 .. Len(q) - 1 /\ (j - 1) + 1 = j
      BY <1>2, <2>3
    <3>2. r[j - 1] = q[(j - 1) + 1] BY <1>2, <3>1
    <3> QED BY <2>3, <3>1, <3>2
  <2> QED BY <2>2, <2>3
<1>4. Paired(r, keys) BY <1>3 DEF Paired
<1> QED BY <1>4 DEF r

(* What a byte taken by the kernel does to the rest of the stream.         *)
LEMMA Taken ==
  ASSUME StreamInv, TakeByte, device = "ps2"
  PROVE  /\ buffer' \in Seq(Int) /\ buffer' \o wire' \in Seq(Int) /\ decoder' \in Decoders
         /\ OnTheWay.decoder = OnTheWay'.decoder
         /\ OnTheWay.events = IF Decoded.event = NoEvent THEN OnTheWay'.events
                                                        ELSE <<Decoded.event>> \o OnTheWay'.events
         /\ ~Deaf(decoder, buffer \o wire) => ~Deaf(decoder', buffer' \o wire')
         /\ Caught' = Caught
<1>1. /\ buffer # <<>> /\ buffer' = Tail(buffer) /\ wire' = wire
      /\ decoder' = Push(decoder, Head(buffer)).decoder
      /\ Decoded = Push(decoder, Head(buffer))
      /\ UNCHANGED <<device, down, caps>>
  BY DEF TakeByte, Decoded
<1>2. buffer \in Seq(Int) /\ wire \in Seq(Int) /\ decoder \in Decoders BY DEF StreamInv
<1> DEFINE I == Int
           b == Head(buffer)
           r == buffer' \o wire'
           s == buffer \o wire
<1>3. /\ s = <<b>> \o r /\ b \in I /\ buffer' \in Seq(I) /\ r \in Seq(I) /\ s \in Seq(I)
  <2>1. buffer \in Seq(I) /\ wire \in Seq(I) BY <1>2
  <2> HIDE DEF I
  <2>2. s \in Seq(I) BY <2>1
  <2> QED BY <1>1, <2>1, <2>2, Split
<1>4. decoder' = Push(decoder, b).decoder /\ Decoded = Push(decoder, b) BY <1>1
<1>5. OnTheWay = Decode(decoder, <<b>> \o r) /\ OnTheWay' = Decode(decoder', r)
  BY <1>3 DEF OnTheWay
<1> HIDE DEF I, b, r, s
<1>6. decoder' \in Decoders BY <1>2, <1>4, PushType
<1>7. /\ Decode(decoder, <<b>> \o r).decoder = Decode(decoder', r).decoder
      /\ Decode(decoder, <<b>> \o r).events =
           IF Decoded.event = NoEvent THEN Decode(decoder', r).events
                                      ELSE <<Decoded.event>> \o Decode(decoder', r).events
  BY <1>2, <1>3, <1>4, DecodeHead
<1>8. Decode(decoder, s).decoder.pause <=> Deaf(decoder, s) BY <1>2, <1>3, DecodeDeaf
<1>9. Decode(decoder', r).decoder.pause <=> Deaf(decoder', r) BY <1>3, <1>6, DecodeDeaf
<1>10. ~Deaf(decoder, s) => ~Deaf(decoder', r) BY <1>3, <1>7, <1>8, <1>9
<1>11. Caught' = Caught BY <1>1 DEF Caught
<1> QED BY <1>3, <1>5, <1>6, <1>7, <1>10, <1>11 DEF I, r, s

LEMMA TakenElse ==
  ASSUME StreamInv, TakeByte, device # "ps2"
  PROVE  StreamInv'
BY DEF StreamInv, TakeByte, Decoded, Yield

LEMMA SilentStep == ASSUME StreamInv, TakeByte, NoEventYet, UNCHANGED due PROVE StreamInv'
<1>1. CASE device # "ps2" BY <1>1, TakenElse
<1>2. CASE device = "ps2"
  <2>1. Decoded.event = NoEvent BY DEF NoEventYet, Events
  <2>2. OnTheWay'.decoder = OnTheWay.decoder /\ OnTheWay'.events = OnTheWay.events
    BY <1>2, <2>1, Taken
  <2>3. OnTheWay' = [decoder |-> OnTheWay'.decoder, events |-> OnTheWay'.events]
    <3> DEFINE I == Int
               s == buffer' \o wire'
    <3>1. s \in Seq(I) /\ decoder' \in Decoders /\ OnTheWay' = Decode(decoder', s)
      BY <1>2, Taken DEF OnTheWay
    <3> HIDE DEF I, s
    <3>2. Decode(decoder', s) = [decoder |-> Decode(decoder', s).decoder,
                                 events |-> Decode(decoder', s).events]
      BY <3>1, DecodeType
    <3> QED BY <3>1, <3>2
  <2>4. lost = NoByte => OnTheWay' = [decoder |-> Caught', events |-> due']
    <3>1. lost = NoByte => OnTheWay.decoder = Caught /\ OnTheWay.events = due
      BY <1>2 DEF StreamInv
    <3> QED BY <1>2, <2>2, <2>3, <3>1, Taken
  <2>5. /\ buffer' \in Seq(Int) /\ decoder' \in Decoders
        /\ ~Deaf(decoder, buffer \o wire) => ~Deaf(decoder', buffer' \o wire')
    BY <1>2, Taken
  <2>6. UNCHANGED <<device, down, caps, wire, lost>> BY DEF TakeByte
  <2> QED BY <1>2, <2>4, <2>5, <2>6 DEF StreamInv
<1> QED BY <1>1, <1>2

(* The event the kernel is given is the next one due.                      *)
LEMMA Told ==
  ASSUME StreamInv, NEW event \in Events, NextKey(event), device = "ps2", lost = NoByte
  PROVE  /\ due # <<>> /\ event = Head(due) /\ due' = Tail(due) /\ due' \in Seq(EventsOf(Int))
         /\ OnTheWay' = [decoder |-> Caught', events |-> due']
<1>1. TakeByte /\ Decoded.event # NoEvent /\ event = Decoded.event
      /\ due' = IF due = <<>> THEN due ELSE Tail(due)
  BY DEF NextKey, Events
<1>2. OnTheWay.decoder = Caught /\ OnTheWay.events = due BY DEF StreamInv
<1>3. /\ OnTheWay'.decoder = Caught' /\ due = <<event>> \o OnTheWay'.events
  BY <1>1, <1>2, Taken
<1> DEFINE rest == OnTheWay'.events
           E == EventsOf(Int)
<1>4. /\ OnTheWay' = [decoder |-> OnTheWay'.decoder, events |-> rest]
      /\ rest \in Seq(E)
  <2> DEFINE I == Int
             s == buffer' \o wire'
  <2>1. s \in Seq(I) /\ decoder' \in Decoders /\ OnTheWay' = Decode(decoder', s)
    BY <1>1, Taken DEF OnTheWay
  <2> HIDE DEF s
  <2>2. Decode(decoder', s) = [decoder |-> Decode(decoder', s).decoder,
                               events |-> Decode(decoder', s).events]
        /\ Decode(decoder', s).events \in Seq(EventsOf(I))
    <3> HIDE DEF I
    <3> QED BY <2>1, DecodeType
  <2> QED BY <2>1, <2>2
<1>5. due = <<event>> \o rest BY <1>3
<1> HIDE DEF rest, E
<1>6. due # <<>> /\ Head(due) = event /\ Tail(due) = rest
  <2> DEFINE T == E \cup {event}
             one == <<event>>
  <2>1. rest \in Seq(T) /\ one \in Seq(T)
    <3>1. rest \in Seq(T) BY <1>4, SeqMonotonic
    <3> QED BY <3>1
  <2>2. one # <<>> /\ Head(one) = event /\ Tail(one) = <<>> OBVIOUS
  <2> HIDE DEF T, one
  <2>3. /\ one \o rest = <<event>> \o rest
        /\ \A i \in 1 .. 1 : one[i] = event
        /\ Len(one) = 1
    BY DEF one
  <2>4. /\ one \o rest \in Seq(T) /\ Len(one \o rest) = 1 + Len(rest) /\ Len(rest) \in Nat
        /\ (one \o rest)[1] = event
        /\ \A i \in 1 .. Len(rest) : (one \o rest)[1 + i] = rest[i]
    BY <2>1, <2>3, ConcatProperties
  <2>5. due \in Seq(T) /\ Len(due) = 1 + Len(rest) /\ due[1] = event
        /\ \A i \in 1 .. Len(rest) : due[1 + i] = rest[i]
    BY <1>5, <2>3, <2>4
  <2>6. due # <<>> BY <2>4, <2>5
  <2> DEFINE t == Tail(due)
  <2>7. /\ t \in Seq(T) /\ Len(t) = Len(due) - 1 /\ \A i \in 1 .. Len(due) - 1 : t[i] = due[i + 1]
        /\ Head(due) = due[1]
    <3>1. <<>> \in Seq(T) OBVIOUS
    <3> QED BY <2>5, <2>6, <3>1, Joined
  <2> HIDE DEF t
  <2>8. Len(t) = Len(rest) /\ \A i \in 1 .. Len(t) : t[i] = rest[i]
    <3>1. Len(t) = Len(rest) BY <2>4, <2>5, <2>7
    <3>2. ASSUME NEW i \in 1 .. Len(t) PROVE t[i] = rest[i]
      <4>1. i \in 1 .. Len(due) - 1 /\ i \in 1 .. Len(rest) /\ i + 1 = 1 + i
        BY <2>4, <2>5, <2>7, <3>1
      <4>2. t[i] = due[i + 1] /\ due[1 + i] = rest[i] BY <2>5, <2>7, <4>1
      <4> QED BY <4>1, <4>2
    <3> QED BY <3>1, <3>2
  <2>9. t = rest BY <2>1, <2>7, <2>8, SeqEqual
  <2> QED BY <2>5, <2>6, <2>7, <2>9 DEF t
<1> QED BY <1>1, <1>3, <1>4, <1>6 DEF rest, E

LEMMA NextKeyStep == ASSUME StreamInv, NEW event \in Events, NextKey(event) PROVE StreamInv'
<1>1. TakeByte BY DEF NextKey
<1>2. CASE device # "ps2" BY <1>1, <1>2, TakenElse
<1>3. CASE device = "ps2"
  <2>1. /\ buffer' \in Seq(Int) /\ decoder' \in Decoders
        /\ ~Deaf(decoder, buffer \o wire) => ~Deaf(decoder', buffer' \o wire')
    BY <1>1, <1>3, Taken
  <2>2. UNCHANGED <<device, down, caps, wire, lost>> BY <1>1 DEF TakeByte
  <2>3. ASSUME lost = NoByte
        PROVE  OnTheWay' = [decoder |-> Caught', events |-> due'] /\ Paired(due', down')
    <3>1. due # <<>> /\ due' = Tail(due) /\ OnTheWay' = [decoder |-> Caught', events |-> due']
      BY <1>3, <2>3, Told
    <3>2. Paired(due, down) BY <1>3, <2>3 DEF StreamInv
    <3>3. due \in Seq(EventsOf(Int)) BY <1>3, <2>3, DueType
    <3> DEFINE E == EventsOf(Int)
    <3>4. due \in Seq(E) BY <3>3
    <3> HIDE DEF E
    <3>5. Paired(Tail(due), down) BY <3>1, <3>2, <3>4, PairedTail
    <3> QED BY <2>2, <3>1, <3>5
  <2> QED BY <1>3, <2>1, <2>2, <2>3 DEF StreamInv
<1> QED BY <1>2, <1>3

LEMMA StreamInit == ASSUME NEW d \in Devices, InputInit(d, "Enter") PROVE StreamInv
<1>1. /\ device = d /\ down = (IF d = "ps2" THEN {"Enter"} ELSE {}) /\ caps = FALSE
      /\ wire = <<>> /\ decoder = NewDecoder /\ lost = NoByte
      /\ d = "ps2" => buffer = MakeBytes("Enter")
      /\ due = <<Press(Control("Enter"))>>
  BY DEF InputInit
<1>2. Ready(NewDecoder) BY DEF Ready, NewDecoder, Decoders
<1>3. decoder \in Decoders /\ caps \in BOOLEAN /\ down \subseteq KnownKeys
  BY <1>1, <1>2 DEF Ready, KnownKeys, PlainKeys
<1>4. NoByte # OtherByte BY DEF NoByte, OtherByte
<1>5. ASSUME device = "ps2"
      PROVE  /\ buffer \in Seq(Int) /\ wire \in Seq(Int) /\ Closed(wire)
             /\ OnTheWay = [decoder |-> Caught, events |-> due] /\ Paired(due, down)
  <2> DEFINE event == Press(Control("Enter"))
  <2>1. "Enter" \in KnownKeys /\ "Enter" \notin Arrows BY DEF KnownKeys, PlainKeys, Arrows
  <2>2. MakeBytes("Enter") = Prefixed("Enter") \o <<CodeOf("Enter")>>
        /\ MakeBytes("Enter") \in Seq(Int)
    BY <2>1, BytesSent
  <2>3. event = Press(MeaningFor(NewDecoder, "Enter")) BY DEF MeaningFor, Printable
  <2>4. Decode(NewDecoder, MakeBytes("Enter"))
          = [decoder |-> Tracked(NewDecoder, event), events |-> <<event>>]
    BY <1>2, <2>1, <2>2, <2>3, DecodeCode
  <2>5. Tracked(NewDecoder, event) = NewDecoder BY DEF Tracked, Press, Control
  <2>6. Caught = NewDecoder
    <3>1. ~("LeftShift" \in down) /\ ~("RightShift" \in down) /\ ~caps BY <1>1
    <3>2. ("LeftShift" \in down) = FALSE /\ ("RightShift" \in down) = FALSE /\ caps = FALSE
      BY <1>1, <3>1
    <3> QED BY <3>2 DEF Caught, NewDecoder
  <2>7. buffer \o wire = buffer
    <3>1. buffer \in Seq(Int) BY <1>1, <1>5, <2>2
    <3> QED BY <1>1, <3>1
  <2>8. OnTheWay = [decoder |-> Caught, events |-> due]
    BY <1>1, <1>5, <2>4, <2>5, <2>6, <2>7 DEF OnTheWay
  <2>9. Paired(due, down)
    <3>1. due = <<event>> /\ event.of.key = "Enter" BY <1>1 DEF Press, Control
    <3> HIDE DEF event
    <3> QED BY <2>1, <3>1 DEF Paired
  <2>10. wire \in Seq(Int) /\ Closed(wire) BY <1>1 DEF Closed
  <2> QED BY <1>1, <1>5, <2>2, <2>8, <2>9, <2>10
<1> QED BY <1>1, <1>3, <1>4, <1>5 DEF StreamInv
-----------------------------------------------------------------------------
(* What an application does with the input.                                *)
LEMMA KernelReads ==
  ASSUME Kernel
  PROVE  \/ \E event \in Events : NextKey(event)
         \/ TakeByte /\ NoEventYet /\ UNCHANGED due
         \/ UNCHANGED inputVars
<1>1. ASSUME NoKey
      PROVE  (TakeByte /\ NoEventYet /\ UNCHANGED due) \/ UNCHANGED inputVars
  BY <1>1 DEF NoKey
<1>2. ASSUME LaunchKeyboard \/ LaunchClock \/ Leave \/ ShellEvent \/ KeyboardEvent \/ ClockEvent
      PROVE  \E event \in Events : NextKey(event)
  <2>1. LaunchKeyboard \/ LaunchClock => \E event \in Events : NextKey(event)
    <3>1. \A a : Runs(a) => \E event \in Events : NextKey(event) BY Zenon DEF Runs
    <3> QED BY <3>1, Zenon DEF LaunchKeyboard, LaunchClock
  <2>2. Leave => \E event \in Events : NextKey(event) BY Zenon DEF Leave
  <2>3. ShellEvent => \E event \in Events : NextKey(event) BY Zenon DEF ShellEvent
  <2>4. KeyboardEvent => \E event \in Events : NextKey(event) BY Zenon DEF KeyboardEvent
  <2>5. ClockEvent => \E event \in Events : NextKey(event) BY Zenon DEF ClockEvent
  <2> QED BY <1>2, <2>1, <2>2, <2>3, <2>4, <2>5
<1>3. ASSUME Decoding PROVE TakeByte /\ NoEventYet /\ UNCHANGED due
  BY <1>3 DEF Decoding, MidEvent
<1>4. ASSUME KeyboardPasses \/ ClockPasses \/ ShellPasses PROVE NoKey
  BY <1>4 DEF KeyboardPasses, ClockPasses, ShellPasses
<1> QED BY <1>1, <1>2, <1>3, <1>4 DEF Kernel

(* Every step of the machine is one of the stream's, or none.              *)
LEMMA StreamStep == ASSUME StreamInv, [Next]_vars PROVE StreamInv'
<1>1. CASE UNCHANGED inputVars
  BY <1>1 DEF StreamInv, OnTheWay, Caught, inputVars
<1>2. CASE User
  BY <1>2, KeyDownStep, KeyUpStep, FakeShiftedStep, TerminalStep DEF User
<1>3. CASE Arrive BY <1>3, ArriveStep
<1>4. CASE Overrun BY <1>4, OverrunStep
<1>5. CASE Kernel BY <1>1, <1>5, KernelReads, NextKeyStep, SilentStep
<1> QED BY <1>1, <1>2, <1>3, <1>4, <1>5 DEF Next, vars

(* The stream keeps its invariant under every action of the machine.       *)
THEOREM StreamIsInvariant == Spec => []StreamInv
<1>1. Init => StreamInv BY StreamInit DEF Init
<1>2. StreamInv /\ [Next]_vars => StreamInv' BY StreamStep
<1> QED BY <1>1, <1>2, PTL DEF Spec

(* The bytes carry the keys: until a byte is lost, decoding what is on the *)
(* way gives the events of the user's keystrokes and the user's modifiers, *)
(* wherever next_key stopped (scancodes.rs, push and map).                 *)
THEOREM StreamIsFaithful == Spec => []StreamFaithful
<1>1. StreamInv => StreamFaithful BY DEF StreamInv, StreamFaithful
<1> QED BY <1>1, StreamIsInvariant, PTL

(* No loss but that of the last byte of a pause sequence leaves a decoder  *)
(* that swallows every later key (scancodes.rs, the pause state).          *)
THEOREM DeafIsExplained == Spec => []DeafOnlyWithoutPauseEnd
<1>1. ASSUME StreamInv PROVE DeafOnlyWithoutPauseEnd
  <2>1. SUFFICES ASSUME device = "ps2", lost = OtherByte PROVE ~OnTheWay.decoder.pause
    BY <1>1 DEF DeafOnlyWithoutPauseEnd, StreamInv
  <2> DEFINE I == Int
             s == buffer \o wire
  <2>2. s \in Seq(I) /\ decoder \in Decoders /\ ~Deaf(decoder, s) /\ OnTheWay = Decode(decoder, s)
    BY <1>1, <2>1 DEF StreamInv, OnTheWay, OtherByte, NoByte
  <2> HIDE DEF I, s
  <2>3. Decode(decoder, s).decoder.pause <=> Deaf(decoder, s) BY <2>2, DecodeDeaf
  <2> QED BY <2>2, <2>3
<1> QED BY <1>1, StreamIsInvariant, PTL
-----------------------------------------------------------------------------
(* The clock.                                                              *)
Clocks == [origin : (0 .. MaxX) \X (0 .. MaxY), held : Arrows \cup {NoDir}, moved : BOOLEAN]

ClockInv ==
  /\ clk \in Clocks
  /\ front \in {"shell", "keyboard", "clock"}
  /\ front # "clock" => clk.held = NoDir
  /\ front = "clock" => screen = Draw(Console, clk.origin)
  /\ front = "shell" => screen = Console
  /\ HeldIsDown

(* The window's origin ranges over what translate clamps to.               *)
LEMMA Bounds == MaxX \in Nat /\ MaxY \in Nat /\ MaxX \div 2 \in 0 .. MaxX /\ MaxY \div 2 \in 0 .. MaxY
<1>1. MaxX \in Nat /\ MaxY \in Nat BY ClockAssumption DEF MaxX, MaxY, SubClamped
<1>2. \A n \in Nat : n \div 2 \in 0 .. n OBVIOUS
<1> QED BY <1>1, <1>2

LEMMA RunClockType == RunClock \in Clocks /\ RunClock.held = NoDir /\ RunClock.origin = Centered
BY Bounds DEF RunClock, Clocks, Centered

(* Repainting the console where the window was, then drawing it, is drawing *)
(* it on the console.                                                      *)
LEMMA DrawOver ==
  ASSUME NEW s, NEW a, NEW b
  PROVE  /\ RepaintRect(Draw(Console, a), a) = Console
         /\ Draw(Draw(Console, a), a) = Draw(Console, a)
         /\ MoveBy(Draw(Console, a), a, b) = Draw(Console, b)
<1>1. RepaintRect(Draw(Console, a), a) = Console
  <2>1. \A p \in Cells : RepaintRect(Draw(Console, a), a)[p] = Console[p]
    BY DEF RepaintRect, Draw, Console
  <2> QED BY <2>1 DEF RepaintRect, Console
<1>2. Draw(Draw(Console, a), a) = Draw(Console, a)
  <2>1. \A p \in Cells : Draw(Draw(Console, a), a)[p] = Draw(Console, a)[p]
    BY DEF Draw
  <2> QED BY <2>1 DEF Draw
<1> QED BY <1>1, <1>2 DEF MoveBy

LEMMA ClockKeyType ==
  ASSUME clk \in Clocks, NEW event
  PROVE  /\ ClockKey(clk, event) \in Clocks
         /\ ClockKey(clk, event).origin = clk.origin
         /\ ClockKey(clk, event).held =
              IF event.kind = "press" /\ event.of.key \in Arrows THEN event.of.key
              ELSE IF event.kind = "release" /\ event.of.key \in Arrows THEN NoDir
              ELSE clk.held
BY DEF ClockKey, Clocks

(* The direction held stays that of a key down, or of a release on the way.*)
LEMMA HeldKept ==
  ASSUME ClockInv, clk'.held = clk.held, device' = device,
         lost' = NoByte => lost = NoByte,
         lost = NoByte /\ device = "ps2" /\ clk.held \in Arrows =>
           \/ clk.held \in down /\ clk.held \in down'
           \/ clk.held \in down /\ Release(Control(clk.held)) \in ToSet(due')
           \/ Release(Control(clk.held)) \in ToSet(due) /\ Release(Control(clk.held)) \in ToSet(due')
           \/ down = down' /\ due = due'
           \/ lost' # NoByte
  PROVE  HeldIsDown'
<1>1. clk.held \in Arrows \/ clk.held = NoDir BY DEF ClockInv, Clocks
<1> QED BY <1>1 DEF ClockInv, HeldIsDown

(* What was due stays due when more is.                                    *)
LEMMA OwedLater ==
  ASSUME NEW S, NEW q \in Seq(S), NEW t \in Seq(S), NEW x
  PROVE  /\ x \in ToSet(q) => x \in ToSet(q \o t)
         /\ x \in ToSet(t) => x \in ToSet(q \o t)
<1>1. /\ q \o t \in Seq(S) /\ Len(q \o t) = Len(q) + Len(t)
      /\ \A i \in 1 .. Len(q) : (q \o t)[i] = q[i]
      /\ \A i \in 1 .. Len(t) : (q \o t)[Len(q) + i] = t[i]
      /\ Len(q) \in Nat /\ Len(t) \in Nat
  OBVIOUS
<1>2. /\ DOMAIN q = 1 .. Len(q) /\ DOMAIN t = 1 .. Len(t) /\ DOMAIN (q \o t) = 1 .. Len(q) + Len(t)
  BY <1>1
<1>3. ASSUME NEW i \in DOMAIN q PROVE i \in DOMAIN (q \o t) /\ (q \o t)[i] = q[i] BY <1>1, <1>2
<1>4. ASSUME NEW i \in DOMAIN t
      PROVE  Len(q) + i \in DOMAIN (q \o t) /\ (q \o t)[Len(q) + i] = t[i]
  BY <1>1, <1>2
<1> QED BY <1>3, <1>4 DEF ToSet

LEMMA UserHeld == ASSUME StreamInv, ClockInv, User, UNCHANGED appVars PROVE ClockInv'
<1>1. UNCHANGED <<clk, screen, front>> BY DEF appVars
<1>2. device' = device /\ lost' = lost
  BY DEF User, KeyDown, KeyUp, FakeShiftedArrow, TerminalSends, Send
<1>3. HeldIsDown'
  <2>1. SUFFICES ASSUME lost = NoByte, device = "ps2", clk.held \in Arrows
                 PROVE  \/ clk.held \in down /\ clk.held \in down'
                        \/ clk.held \in down /\ Release(Control(clk.held)) \in ToSet(due')
                        \/ Release(Control(clk.held)) \in ToSet(due)
                           /\ Release(Control(clk.held)) \in ToSet(due')
    BY <1>1, <1>2, HeldKept
  <2> DEFINE gone == Release(Control(clk.held))
  <2>2. clk.held \in down \/ gone \in ToSet(due)
    BY <2>1 DEF ClockInv, HeldIsDown, NoDir, Arrows
  <2>3. due \in Seq(EventsOf(Int)) BY <2>1, DueType
  <2>4. ASSUME NEW t, due' = due \o t, t = <<>> \/ \E a : t = <<a>> \/ \E b : t = <<a, b>>,
               \/ clk.held \in down => clk.held \in down'
               \/ t = <<gone>>
        PROVE  \/ clk.held \in down /\ clk.held \in down'
               \/ clk.held \in down /\ gone \in ToSet(due')
               \/ gone \in ToSet(due) /\ gone \in ToSet(due')
    <3>1. PICK S : due \in Seq(S) /\ t \in Seq(S)
      <4> DEFINE E == EventsOf(Int)
      <4>1. due \in Seq(E) BY <2>3
      <4> HIDE DEF E
      <4>2. CASE t = <<>> BY <4>1, <4>2
      <4>3. ASSUME NEW a, t = <<a>> PROVE due \in Seq(E \cup {a}) /\ t \in Seq(E \cup {a})
        BY <4>1, <4>3, SeqMonotonic
      <4>4. ASSUME NEW a, NEW b, t = <<a, b>>
            PROVE  due \in Seq(E \cup {a, b}) /\ t \in Seq(E \cup {a, b})
        BY <4>1, <4>4, SeqMonotonic
      <4> QED BY <2>4, <4>2, <4>3, <4>4
    <3>2. gone \in ToSet(due) \/ gone \in ToSet(t) => gone \in ToSet(due')
      <4> HIDE DEF gone
      <4> QED BY <2>4, <3>1, OwedLater
    <3>3. t = <<gone>> => gone \in ToSet(t)
      <4> HIDE DEF gone
      <4>1. 1 \in DOMAIN <<gone>> /\ <<gone>>[1] = gone OBVIOUS
      <4> QED BY <4>1 DEF ToSet
    <3> QED BY <2>2, <2>4, <3>2, <3>3
  <2> HIDE DEF gone
  <2>5. ASSUME NEW k \in Keys, KeyDown(k)
        PROVE  \/ clk.held \in down /\ clk.held \in down'
               \/ clk.held \in down /\ gone \in ToSet(due')
               \/ gone \in ToSet(due) /\ gone \in ToSet(due')
    <3>1. due' = due \o Meant(k, Press(Meaning(k))) /\ down' = down \cup ({k} \ {"Pause"})
      BY <2>1, <2>5 DEF KeyDown, Send, Owe
    <3>2. Meant(k, Press(Meaning(k))) = <<>>
          \/ \E a : Meant(k, Press(Meaning(k))) = <<a>>
      BY DEF Meant
    <3> QED BY <2>4, <3>1, <3>2
  <2>6. ASSUME NEW k \in Keys, KeyUp(k)
        PROVE  \/ clk.held \in down /\ clk.held \in down'
               \/ clk.held \in down /\ gone \in ToSet(due')
               \/ gone \in ToSet(due) /\ gone \in ToSet(due')
    <3> DEFINE t == Meant(k, Release(Meaning(k)))
    <3>1. due' = due \o t /\ down' = down \ {k} BY <2>1, <2>6 DEF KeyUp, Send, Owe
    <3>2. t = <<>> \/ \E a : t = <<a>> BY DEF Meant
    <3>3. k = clk.held => t = <<gone>>
      <4>1. k = clk.held => k \in Arrows /\ k \in KnownKeys /\ k # "Pause"
        BY <2>1 DEF KnownKeys, Arrows
      <4> QED BY <4>1, MeaningKey DEF Meant, gone
    <3>4. k # clk.held => (clk.held \in down => clk.held \in down') BY <3>1
    <3> HIDE DEF t
    <3> QED BY <2>4, <3>1, <3>2, <3>3, <3>4
  <2>7. ASSUME NEW k \in Keys \cap Arrows, FakeShiftedArrow(k)
        PROVE  \/ clk.held \in down /\ clk.held \in down'
               \/ clk.held \in down /\ gone \in ToSet(due')
               \/ gone \in ToSet(due) /\ gone \in ToSet(due')
    <3>1. due' = due \o <<Release(Control("Unknown")), Press(Meaning(k))>>
          /\ down' = down \cup {k}
      BY <2>1, <2>7 DEF FakeShiftedArrow, Send, Owe
    <3> QED BY <2>4, <3>1
  <2>8. ~ \E byte \in TerminalBytes : TerminalSends(byte) BY <2>1 DEF TerminalSends
  <2> QED BY <2>5, <2>6, <2>7, <2>8 DEF User, gone
<1> QED BY <1>1, <1>3 DEF ClockInv
LEMMA WireHeld == ASSUME ClockInv, Arrive \/ Overrun, UNCHANGED appVars PROVE ClockInv'
<1>1. UNCHANGED <<clk, screen, front>> BY DEF appVars
<1>2. device' = device /\ down' = down /\ (lost' = NoByte => lost = NoByte /\ due' = due)
  BY DEF Arrive, Overrun, NoByte, PauseEnd, OtherByte
<1>3. HeldIsDown' BY <1>1, <1>2, HeldKept
<1> QED BY <1>1, <1>3 DEF ClockInv

(* An event read leaves the release that is on the way there, unless it is *)
(* that release.                                                           *)
LEMMA ReadOff ==
  ASSUME NEW S, NEW q \in Seq(S), q # <<>>, NEW x, x \in ToSet(q), x # Head(q)
  PROVE  x \in ToSet(Tail(q))
<1>1. <<>> \in Seq(S) OBVIOUS
<1>2. /\ Len(Tail(q)) = Len(q) - 1 /\ Len(q) \in Nat /\ Head(q) = q[1]
      /\ \A i \in 1 .. Len(q) - 1 : Tail(q)[i] = q[i + 1]
      /\ Tail(q) \in Seq(S)
  BY <1>1, Joined
<1>3. PICK i \in 1 .. Len(q) : q[i] = x BY DEF ToSet
<1>4. i # 1 BY <1>2, <1>3
<1>5. i - 1 \in 1 .. Len(q) - 1 /\ (i - 1) + 1 = i BY <1>2, <1>3, <1>4
<1>6. Tail(q)[i - 1] = x /\ i - 1 \in DOMAIN Tail(q) BY <1>2, <1>3, <1>5
<1> QED BY <1>6 DEF ToSet

LEMMA ClockEventHeld == ASSUME StreamInv, ClockInv, ClockEvent PROVE ClockInv'
<1>1. PICK event \in Events : NextKey(event) /\ clk' = ClockKey(clk, event)
  BY DEF ClockEvent
<1>2. /\ front = "clock" /\ front' = front /\ screen' = screen
      /\ device' = device /\ down' = down /\ lost' = lost
  BY <1>1 DEF ClockEvent, NextKey, TakeByte
<1>3. clk \in Clocks BY DEF ClockInv
<1> DEFINE arrow == event.of.key \in Arrows
<1>4. /\ clk' \in Clocks /\ clk'.origin = clk.origin
      /\ clk'.held = IF event.kind = "press" /\ event.of.key \in Arrows THEN event.of.key
                     ELSE IF event.kind = "release" /\ event.of.key \in Arrows THEN NoDir
                     ELSE clk.held
  BY <1>1, <1>3, ClockKeyType
<1>5. HeldIsDown'
  <2> SUFFICES ASSUME clk'.held # NoDir, device = "ps2", lost = NoByte
               PROVE  clk'.held \in down \/ Release(Control(clk'.held)) \in ToSet(due')
    BY <1>2 DEF HeldIsDown
  <2> DEFINE E == EventsOf(Int)
             gone == Release(Control(clk'.held))
  <2>1. /\ due # <<>> /\ event = Head(due) /\ due' = Tail(due) BY <1>1, Told
  <2>2. due \in Seq(E) BY DueType
  <2> HIDE DEF E
  <2>3. CASE event.kind = "press" /\ event.of.key \in Arrows
    <3>1. clk'.held = event.of.key BY <1>4, <2>3
    <3>2. /\ Len(due) \in Nat /\ Len(due) >= 1 /\ due[1] = event
      BY <2>1, <2>2
    <3>3. clk'.held \in down \/ \E j \in 2 .. Len(due) : due[j] = gone
      <4>1. Paired(due, down) BY DEF StreamInv
      <4>2. clk'.held \in down \/ \E j \in 1 + 1 .. Len(due) : due[j] = Release(Control(clk'.held))
        BY <2>3, <3>1, <3>2, <4>1 DEF Paired
      <4> QED BY <4>2
    <3>4. event # gone BY <2>3 DEF Release
    <3>5. ASSUME NEW j \in 2 .. Len(due), due[j] = gone PROVE gone \in ToSet(due)
      BY <2>2, <3>2, <3>5 DEF ToSet
    <3> HIDE DEF gone
    <3>6. gone \in ToSet(due) => gone \in ToSet(due') BY <2>1, <2>2, <3>4, ReadOff
    <3> QED BY <3>3, <3>5, <3>6 DEF gone
  <2>4. CASE ~(event.kind = "press" /\ event.of.key \in Arrows)
    <3>1. clk'.held = clk.held /\ ~(event.kind = "release" /\ event.of.key \in Arrows)
      BY <1>4, <2>4
    <3>2. clk.held \in down \/ gone \in ToSet(due) BY <3>1 DEF ClockInv, HeldIsDown
    <3>3. clk'.held \in Arrows BY <1>4, <3>1 DEF Clocks
    <3>4. gone.kind = "release" /\ gone.of.key \in Arrows BY <3>3 DEF Release, Control
    <3>5. event # gone BY <3>1, <3>4
    <3> HIDE DEF gone
    <3>6. gone \in ToSet(due) => gone \in ToSet(due') BY <2>1, <2>2, <3>5, ReadOff
    <3> QED BY <3>1, <3>2, <3>6 DEF gone
  <2> QED BY <2>3, <2>4
<1> QED BY <1>2, <1>4, <1>5 DEF ClockInv

LEMMA NotClockHeld ==
  ASSUME ClockInv, clk' \in Clocks, clk'.held = NoDir, front' \in {"shell", "keyboard", "clock"},
         front' = "clock" => screen' = Draw(Console, clk'.origin),
         front' = "shell" => screen' = Console
  PROVE  ClockInv'
BY DEF ClockInv, HeldIsDown

LEMMA TranslateType ==
  ASSUME clk \in Clocks, clk.held # NoDir
  PROVE  Translate(clk.origin, clk.held) \in (0 .. MaxX) \X (0 .. MaxY)
<1>1. clk.held \in Arrows /\ clk.origin[1] \in Int /\ clk.origin[2] \in Int
  BY DEF Clocks
<1>2. DirStep(clk.held)[1] \in Int /\ DirStep(clk.held)[2] \in Int
  <2>1. MOVE_STEP \in Int /\ -MOVE_STEP \in Int BY ClockAssumption
  <2> QED BY <1>1, <2>1 DEF DirStep, Arrows
<1>3. \A v \in Int, n \in Nat : Between2(v, n) \in 0 .. n BY DEF Between2
<1>4. clk.origin[1] + DirStep(clk.held)[1] \in Int /\ clk.origin[2] + DirStep(clk.held)[2] \in Int
  BY <1>1, <1>2
<1> QED BY <1>3, <1>4, Bounds DEF Translate

LEMMA ClockPassesHeld == ASSUME ClockInv, ClockPasses PROVE ClockInv'
<1>1. front = "clock" /\ front' = front /\ NoKey BY DEF ClockPasses
<1>2. PICK elapsed \in BOOLEAN, second \in BOOLEAN : ClockPass(elapsed, second)
  BY DEF ClockPasses
<1> DEFINE steps == clk.held # NoDir /\ (elapsed \/ ~clk.moved)
           o == IF steps THEN Translate(clk.origin, clk.held) ELSE clk.origin
           s == MoveBy(screen, clk.origin, o)
<1>3. /\ clk' = [clk EXCEPT !.origin = o, !.moved = @ \/ steps]
      /\ screen' = IF second THEN Draw(s, o) ELSE s
  BY <1>2 DEF ClockPass
<1>4. clk \in Clocks /\ screen = Draw(Console, clk.origin) BY <1>1 DEF ClockInv
<1>5. steps \in BOOLEAN /\ o \in (0 .. MaxX) \X (0 .. MaxY)
  <2>1. steps => Translate(clk.origin, clk.held) \in (0 .. MaxX) \X (0 .. MaxY)
    BY <1>4, TranslateType
  <2>2. clk.origin \in (0 .. MaxX) \X (0 .. MaxY) /\ clk.moved \in BOOLEAN BY <1>4 DEF Clocks
  <2> QED BY <2>1, <2>2
<1> HIDE DEF steps, o
<1>6. clk' \in Clocks /\ clk'.held = clk.held /\ clk'.origin = o
  <2> DEFINE m == clk.moved \/ steps
  <2>1. m \in BOOLEAN BY <1>4, <1>5 DEF Clocks
  <2>2. clk' = [clk EXCEPT !.origin = o, !.moved = m] BY <1>3
  <2> HIDE DEF m
  <2> QED BY <1>4, <1>5, <2>1, <2>2 DEF Clocks
<1>7. s = Draw(Console, o) BY <1>4, DrawOver
<1>8. screen' = Draw(Console, o) BY <1>3, <1>7, DrawOver
<1>9. device' = device /\ down' = down /\ due' = due /\ lost' = lost
  BY <1>1 DEF NoKey, TakeByte, inputVars
<1>10. HeldIsDown' BY <1>6, <1>9, HeldKept
<1> QED BY <1>1, <1>6, <1>8, <1>10 DEF ClockInv

LEMMA ClockStep == ASSUME StreamInv, ClockInv, [Next]_vars PROVE ClockInv'
<1>1. CASE UNCHANGED vars
  BY <1>1 DEF ClockInv, HeldIsDown, vars, inputVars
<1>2. CASE User /\ UNCHANGED appVars BY <1>2, UserHeld
<1>3. CASE (Arrive \/ Overrun) /\ UNCHANGED appVars BY <1>3, WireHeld
<1>4. CASE LaunchKeyboard
  <2>1. front = "shell" /\ front' = "keyboard" /\ clk' = clk BY <1>4 DEF LaunchKeyboard, Runs
  <2>2. clk' \in Clocks /\ clk'.held = NoDir BY <2>1 DEF ClockInv
  <2> QED BY <2>1, <2>2, NotClockHeld
<1>5. CASE LaunchClock
  <2>1. front = "shell" /\ front' = "clock" /\ clk' = RunClock /\ screen' = Draw(screen, Centered)
    BY <1>5 DEF LaunchClock, Runs
  <2>2. screen = Console BY <2>1 DEF ClockInv
  <2> QED BY <2>1, <2>2, RunClockType, NotClockHeld
<1>6. CASE Leave
  <2>1. front' = "shell" /\ screen' = Console /\ clk' = RunClock BY <1>6 DEF Leave
  <2> QED BY <2>1, RunClockType, NotClockHeld
<1>7. CASE ShellEvent \/ ShellPasses
  <2>1. front = "shell" /\ UNCHANGED appVars BY <1>7 DEF ShellEvent, ShellPasses
  <2>2. clk \in Clocks /\ clk.held = NoDir /\ screen = Console BY <2>1 DEF ClockInv
  <2> QED BY <2>1, <2>2, NotClockHeld DEF appVars
<1>8. CASE KeyboardEvent \/ KeyboardPasses
  <2>1. front = "keyboard" /\ front' = front /\ clk' = clk
    BY <1>8 DEF KeyboardEvent, KeyboardPasses
  <2>2. clk \in Clocks /\ clk.held = NoDir BY <2>1 DEF ClockInv
  <2> QED BY <2>1, <2>2, NotClockHeld
<1>9. CASE ClockEvent BY <1>9, ClockEventHeld
<1>10. CASE ClockPasses BY <1>10, ClockPassesHeld
<1>11. CASE Decoding
  <2>1. UNCHANGED <<clk, screen, front, device, down, due, lost>>
    BY <1>11 DEF Decoding, MidEvent, TakeByte, appVars
  <2> QED BY <2>1 DEF ClockInv, HeldIsDown
<1> QED BY <1>1, <1>2, <1>3, <1>4, <1>5, <1>6, <1>7, <1>8, <1>9, <1>10, <1>11 DEF Next, Kernel

LEMMA ClockStart == ASSUME Init PROVE ClockInv
<1>1. clk = RunClock /\ screen = Console /\ front = "shell" BY DEF Init
<1> QED BY <1>1, RunClockType DEF ClockInv, HeldIsDown

LEMMA CellsInARow ==
  ASSUME NEW a \in Int, NEW n \in Nat \ {0}
  PROVE  IsFiniteSet(a .. a + n - 1) /\ Cardinality(a .. a + n - 1) = n
<1> DEFINE b == a + n - 1
<1>1. b \in Int /\ ~(a > b) /\ b - a + 1 = n OBVIOUS
<1> HIDE DEF b
<1>2. IsFiniteSet(a .. b) /\ Cardinality(a .. b) = IF a > b THEN 0 ELSE b - a + 1
  BY <1>1, FS_Interval
<1> QED BY <1>1, <1>2 DEF b

(* The rectangle of the window, cut off where the screen ends.             *)
LEMMA Shown ==
  ASSUME NEW o \in (0 .. MaxX) \X (0 .. MaxY)
  PROVE  Cardinality(Rect(o)) = Between2(WIDTH, ScreenW) * Between2(HEIGHT, ScreenH)
<1> DEFINE w == Between2(WIDTH, ScreenW)
           h == Between2(HEIGHT, ScreenH)
           X == o[1] .. o[1] + w - 1
           Y == o[2] .. o[2] + h - 1
<1>1. {ScreenW, ScreenH, WIDTH, HEIGHT} \subseteq Nat \ {0} BY ClockAssumption
<1>2. /\ w \in Nat \ {0} /\ w <= WIDTH /\ w <= ScreenW /\ (w = WIDTH \/ w = ScreenW)
      /\ h \in Nat \ {0} /\ h <= HEIGHT /\ h <= ScreenH /\ (h = HEIGHT \/ h = ScreenH)
  BY <1>1 DEF Between2
<1>3. o[1] \in Nat /\ o[1] <= MaxX /\ o[2] \in Nat /\ o[2] <= MaxY /\ o = <<o[1], o[2]>>
  BY Bounds
<1>4. MaxX + w <= ScreenW /\ MaxY + h <= ScreenH /\ MaxX \in Nat /\ MaxY \in Nat
      /\ (w < WIDTH => MaxX = 0) /\ (h < HEIGHT => MaxY = 0)
  BY <1>1 DEF Between2, MaxX, MaxY, SubClamped
<1> HIDE DEF w, h
<1>5. ASSUME NEW x \in 0 .. ScreenW - 1 PROVE x - o[1] \in 0 .. WIDTH - 1 <=> x \in X
  BY <1>1, <1>2, <1>3, <1>4
<1>6. ASSUME NEW y \in 0 .. ScreenH - 1 PROVE y - o[2] \in 0 .. HEIGHT - 1 <=> y \in Y
  BY <1>1, <1>2, <1>3, <1>4
<1>7. X \subseteq 0 .. ScreenW - 1 /\ Y \subseteq 0 .. ScreenH - 1
  BY <1>1, <1>2, <1>3, <1>4
<1>8. IsFiniteSet(X) /\ Cardinality(X) = w /\ IsFiniteSet(Y) /\ Cardinality(Y) = h
  <2>1. o[1] \in Int /\ o[2] \in Int /\ w \in Nat \ {0} /\ h \in Nat \ {0} BY <1>2, <1>3
  <2>2. IsFiniteSet(X) /\ Cardinality(X) = w BY <2>1, CellsInARow, Zenon
  <2>3. IsFiniteSet(Y) /\ Cardinality(Y) = h BY <2>1, CellsInARow, Zenon
  <2> QED BY <2>2, <2>3
<1> HIDE DEF X, Y
<1>9. Rect(o) = X \X Y BY <1>5, <1>6, <1>7 DEF Rect, Cells
<1> QED BY <1>8, <1>9, FS_Product DEF w, h

(* The invariant of the clock, with that of the stream it rests on, holds  *)
(* of every behaviour.                                                     *)
THEOREM ClockIsInvariant == Spec => [](StreamInv /\ ClockInv)
<1>1. Init => ClockInv BY ClockStart
<1>2. StreamInv /\ ClockInv /\ [Next]_vars => ClockInv' BY ClockStep
<1> QED BY <1>1, <1>2, StreamIsInvariant, PTL DEF Spec

(* run_clock holds the direction of an arrow that is down, or whose release *)
(* is on the way: the window never glides for a key that is up (app.rs).   *)
THEOREM HeldDirectionIsDown == Spec => []HeldIsDown
<1>1. ClockInv => HeldIsDown BY DEF ClockInv
<1> QED BY <1>1, ClockIsInvariant, PTL

(* Whatever the screen, the window and the step, move_by leaves exactly the *)
(* window's rectangle, clipped to the screen, over the console, and Escape *)
(* leaves the console (app.rs, move_by; clock_app.rs, translate).          *)
THEOREM WindowLeavesNoTrace == Spec => []NoAfterimage
<1>1. ASSUME ClockInv PROVE NoAfterimage
  <2>1. ASSUME front = "clock"
        PROVE  /\ Rect(clk.origin) = {p \in Cells : screen[p] = "window"}
               /\ Cardinality(Rect(clk.origin)) =
                    Between2(WIDTH, ScreenW) * Between2(HEIGHT, ScreenH)
    <3>1. screen = Draw(Console, clk.origin) BY <1>1, <2>1 DEF ClockInv
    <3>2. \A p \in Cells : screen[p] = "window" <=> p \in Rect(clk.origin)
      BY <3>1 DEF Draw, Console
    <3>3. Rect(clk.origin) \subseteq Cells BY DEF Rect
    <3>4. clk.origin \in (0 .. MaxX) \X (0 .. MaxY) BY <1>1 DEF ClockInv, Clocks
    <3> QED BY <3>2, <3>3, <3>4, Shown
  <2> QED BY <1>1, <2>1 DEF NoAfterimage, ClockInv
<1> QED BY <1>1, ClockIsInvariant, PTL
-----------------------------------------------------------------------------
(* The on-screen keyboard.                                                 *)
Fields == {"sel", "pending", "drained", "state", "ui", "text", "last_text", "want", "crowded"}

(* What was tapped and not typed yet is all that the text lacks.           *)
Deferred(k) ==
  /\ k = [f \in Fields |-> k[f]]
  /\ k.sel \in Int \X Int /\ OnGrid(k.sel[1], k.sel[2])
  /\ k.pending \in Printable \cup {NoTap}
  /\ k.crowded \in BOOLEAN
  /\ k.state = KeyboardModel /\ k.ui = KeyboardModel
  /\ ~k.crowded => k.want = IF k.pending = NoTap THEN k.text
                            ELSE Append(k.text, Encode(k.state, k.pending))
  /\ k.drained => k.pending = NoTap /\ k.last_text = k.text

(* The rows of the layout, counted from 0.                                 *)
LEMMA LayoutRows ==
  /\ Len(Layout) \in 1 .. 13
  /\ \A r \in 0 .. Len(Layout) - 1 : Len(Row(r)) \in 1 .. 13
  /\ \A r, c : OnGrid(r, c) /\ r \in Int /\ c \in Int => Row(r)[c + 1] \in Printable
<1>1. Len(Layout) \in 1 .. 13 BY LayoutAssumption
<1>2. ASSUME NEW r \in 0 .. Len(Layout) - 1
      PROVE  Row(r) \in Seq(Printable) /\ Len(Row(r)) \in 1 .. 13
  <2>1. r + 1 \in 1 .. Len(Layout) BY <1>1
  <2>2. Layout[r + 1] \in Seq(Printable) /\ Len(Layout[r + 1]) \in 1 .. 13
    BY <2>1, LayoutAssumption
  <2> QED BY <2>2 DEF Row
<1>3. ASSUME NEW r \in Int, NEW c \in Int, OnGrid(r, c) PROVE Row(r)[c + 1] \in Printable
  <2>1. r \in 0 .. Len(Layout) - 1 /\ c \in 0 .. Len(Row(r)) - 1 BY <1>3 DEF OnGrid
  <2>2. Row(r) \in Seq(Printable) /\ Len(Row(r)) \in 1 .. 13 BY <1>2, <2>1
  <2>3. c + 1 \in 1 .. Len(Row(r)) BY <2>1, <2>2
  <2> QED BY <2>2, <2>3
<1> QED BY <1>1, <1>2, <1>3

LEMMA FirstKey == Deferred(RunKeyboard)
<1>1. OnGrid(0, 0)
  <2>1. 0 \in 0 .. Len(Layout) - 1 BY SMTT(60), LayoutRows
  <2>2. Len(Row(0)) \in 1 .. 13 BY <2>1, LayoutRows
  <2> DEFINE n == Len(Row(0))
  <2>3. n \in 1 .. 13 BY <2>2
  <2> HIDE DEF n
  <2>4. 0 \in 0 .. n - 1 BY <2>3
  <2> QED BY <2>1, <2>4 DEF OnGrid, n
<1> QED BY <1>1 DEF Deferred, RunKeyboard, Fields

(* move_selection clamps the row first, then the column to that row.       *)
LEMMA MovedOnGrid ==
  ASSUME NEW sel \in Int \X Int, OnGrid(sel[1], sel[2]), NEW a \in Arrows
  PROVE  /\ MoveSelection(sel, a) \in Int \X Int
         /\ OnGrid(MoveSelection(sel, a)[1], MoveSelection(sel, a)[2])
<1> DEFINE dr == Step(a)[1]
           dc == Step(a)[2]
           r == Clamp(sel[1] + dr, Len(Layout) - 1)
           c == Clamp(sel[2] + dc, Len(Row(r)) - 1)
<1>1. dr \in Int /\ dc \in Int BY DEF Step, Arrows
<1>2. \A v \in Int, n \in Nat : Clamp(v, n) \in 0 .. n BY DEF Clamp
<1>3. sel[1] + dr \in Int /\ sel[2] + dc \in Int BY <1>1
<1>4. r \in 0 .. Len(Layout) - 1
  <2>1. Len(Layout) - 1 \in Nat
    <3> DEFINE n == Len(Layout)
    <3>1. n \in 1 .. 13 BY LayoutRows
    <3> HIDE DEF n
    <3>2. n - 1 \in Nat BY <3>1
    <3> QED BY <3>2 DEF n
  <2> HIDE DEF dr
  <2> QED BY <1>2, <1>3, <2>1
<1> HIDE DEF r, dr, dc
<1>5. Len(Row(r)) - 1 \in Nat
  <2> DEFINE n == Len(Row(r))
  <2>1. n \in 1 .. 13 BY <1>4, LayoutRows
  <2> HIDE DEF n
  <2>2. n - 1 \in Nat BY <2>1
  <2> QED BY <2>2 DEF n
<1>6. c \in 0 .. Len(Row(r)) - 1 BY <1>2, <1>3, <1>5
<1> HIDE DEF c
<1>7. MoveSelection(sel, a) = <<r, c>> BY DEF MoveSelection, r, c, dr, dc
<1>8. r \in Int /\ c \in Int /\ OnGrid(r, c) BY <1>4, <1>5, <1>6, LayoutRows DEF OnGrid
<1> QED BY <1>7, <1>8

(* The synthesized click lands on the key that is highlighted.             *)
LEMMA ClickLands ==
  ASSUME NEW k, Deferred(k)
  PROVE  ClickSelected(k) = [k EXCEPT !.pending = KeyOf(k.sel)] /\ KeyOf(k.sel) \in Printable
<1> DEFINE r == k.sel[1]
           c == k.sel[2]
           x == KEYS_X0 + c * KEY_PITCH + KEY_W \div 2
           y == KEYS_Y0 + r * KEY_PITCH + KEY_H \div 2
           Hit == {p \in (0 .. 12) \X (0 .. 12) : OnGrid(p[1], p[2]) /\ Covers(p[1], p[2], x, y)}
<1>1. k.sel = <<r, c>> /\ r \in Int /\ c \in Int /\ OnGrid(r, c) BY DEF Deferred
<1>2. r \in 0 .. 12 /\ c \in 0 .. 12
  <2>1. r \in 0 .. Len(Layout) - 1 /\ c \in 0 .. Len(Row(r)) - 1 BY <1>1 DEF OnGrid
  <2>2. Len(Layout) \in 1 .. 13 /\ Len(Row(r)) \in 1 .. 13 BY <2>1, LayoutRows
  <2>3. \A n \in 1 .. 13, i \in Int : i \in 0 .. n - 1 => i \in 0 .. 12 OBVIOUS
  <2> QED BY <1>1, <2>1, <2>2, <2>3
<1>3. x = 49 + c * 42 /\ y = 121 + r * 42
  <2>1. 38 \div 2 = 19 /\ 34 \div 2 = 17 OBVIOUS
  <2> QED BY <1>2, <2>1 DEF KEYS_X0, KEYS_Y0, KEY_W, KEY_H, KEY_PITCH
<1> DEFINE sel == k.sel
<1>4. sel = <<r, c>> BY <1>1
<1> HIDE DEF x, y, r, c, sel
<1>5. ASSUME NEW p \in (0 .. 12) \X (0 .. 12) PROVE Covers(p[1], p[2], x, y) <=> p = sel
  <2>1. PICK i \in 0 .. 12, j \in 0 .. 12 : p = <<i, j>> OBVIOUS
  <2>2. Covers(i, j, x, y) <=> /\ (49 + c * 42) - (30 + j * 42) \in 0 .. 37
                               /\ (121 + r * 42) - (104 + i * 42) \in 0 .. 33
    BY <1>3 DEF Covers
  <2>3. (49 + c * 42) - (30 + j * 42) \in 0 .. 37 <=> c = j BY <1>2
  <2>4. (121 + r * 42) - (104 + i * 42) \in 0 .. 33 <=> r = i BY <1>2
  <2> QED BY <1>4, <2>1, <2>2, <2>3, <2>4
<1>6. sel \in (0 .. 12) \X (0 .. 12) /\ OnGrid(sel[1], sel[2]) BY <1>1, <1>2, <1>4
<1>7. Hit = {sel} BY <1>5, <1>6
<1>8. (CHOOSE p \in Hit : TRUE) = sel /\ Hit # {}
  <2> HIDE DEF Hit
  <2> QED BY <1>7
<1>9. ClickSelected(k) = IF Hit = {} THEN k ELSE [k EXCEPT !.pending = KeyOf(CHOOSE p \in Hit : TRUE)]
  BY DEF ClickSelected, x, y, r, c
<1> HIDE DEF Hit
<1>10. ClickSelected(k) = [k EXCEPT !.pending = KeyOf(sel)] BY <1>8, <1>9
<1>11. KeyOf(sel) \in Printable BY <1>1, <1>4, LayoutRows DEF KeyOf
<1> QED BY <1>10, <1>11 DEF sel

(* Every event of the drain keeps the tap deferred.                        *)
LEMMA KeyHandled ==
  ASSUME NEW k, Deferred(k), NEW event
  PROVE  Deferred(KeyboardKey(k, event))
<1> DEFINE key == event.of.key
           Quiet(n) == Deferred([n EXCEPT !.drained = FALSE])
<1>1. NoTap \notin Printable BY DEF NoTap, Printable
<1>2. Quiet(k) BY DEF Deferred, Fields
<1>3. Quiet(Tapped(k))
  <2> DEFINE tap == KeyOf(k.sel)
             want == Append(k.want, Encode(k.ui, tap))
             crowded == k.crowded \/ k.pending # NoTap
  <2>1. tap \in Printable /\ ClickSelected(k) = [k EXCEPT !.pending = tap] BY ClickLands
  <2>2. Tapped(k) = [[k EXCEPT !.pending = tap] EXCEPT !.want = want, !.crowded = crowded]
    BY <2>1 DEF Tapped, Deferred, Fields
  <2>3. ~crowded => want = Append(k.text, Encode(k.state, tap)) BY DEF Deferred
  <2>4. crowded \in BOOLEAN BY DEF Deferred
  <2> HIDE DEF tap, want, crowded
  <2> QED BY ZenonT(60), <1>1, <2>1, <2>2, <2>3, <2>4 DEF Deferred, Fields
<1>4. ASSUME NEW a \in Arrows PROVE Quiet(Moved(k, a))
  <2> DEFINE sel == MoveSelection(k.sel, a)
  <2>1. sel \in Int \X Int /\ OnGrid(sel[1], sel[2]) BY MovedOnGrid DEF Deferred
  <2>2. Moved(k, a) = [k EXCEPT !.sel = sel] BY DEF Moved
  <2> HIDE DEF sel
  <2> QED BY <2>1, <2>2 DEF Deferred, Fields
<1>5. ASSUME NEW m PROVE Quiet(Modified(k, m))
  BY DEF Modified, GetThenCall, Deferred, Fields
<1>6. ASSUME NEW ch PROVE Quiet(Typed(k, ch))
  BY DEF Typed, Deferred, Fields
<1>7. Quiet(Erased(k))
  <2> DEFINE text == DropLast(k.text)
             want == DropLast(k.want)
             crowded == k.crowded \/ k.pending # NoTap
  <2>1. Erased(k) = [k EXCEPT !.text = text, !.want = want, !.crowded = crowded] BY DEF Erased
  <2>2. ~crowded => want = text /\ k.pending = NoTap BY DEF Deferred
  <2>3. crowded \in BOOLEAN BY DEF Deferred
  <2> HIDE DEF text, want, crowded
  <2> QED BY ZenonT(60), <2>1, <2>2, <2>3 DEF Deferred, Fields
<1> HIDE DEF Quiet
<1>8. Quiet(Handled(k, event)) BY <1>2, <1>3, <1>4, <1>5, <1>6, <1>7 DEF Handled
<1> QED BY <1>8 DEF Quiet, KeyboardKey

LEMMA PassTypes ==
  ASSUME NEW k, Deferred(k)
  PROVE  Deferred(KeyboardPass(k))
<1> DEFINE text == IF k.pending = NoTap THEN k.text ELSE Append(k.text, Encode(k.state, k.pending))
<1>1. DispatchPendingKey(k) = [k EXCEPT !.pending = NoTap, !.text = text]
  BY DEF DispatchPendingKey, Deferred, Fields
<1>2. ~k.crowded => k.want = text BY DEF Deferred
<1> HIDE DEF text
<1> QED BY ZenonT(60), <1>1, <1>2 DEF KeyboardPass, Deferred, Fields

LEMMA KeyboardStep == ASSUME Deferred(kb), [Next]_vars PROVE Deferred(kb')
<1>1. CASE UNCHANGED kb BY <1>1
<1>2. CASE LaunchKeyboard \/ Leave BY <1>2, FirstKey DEF LaunchKeyboard, Leave
<1>3. CASE KeyboardEvent BY <1>3, KeyHandled DEF KeyboardEvent
<1>4. CASE KeyboardPasses BY <1>4, PassTypes DEF KeyboardPasses
<1>5. CASE LaunchClock \/ ShellEvent \/ ClockEvent \/ Decoding \/ ClockPasses \/ ShellPasses
  BY <1>1, <1>5 DEF LaunchClock, ShellEvent, ClockEvent, Decoding, ClockPasses, ShellPasses, appVars
<1>6. CASE UNCHANGED appVars BY <1>1, <1>6 DEF appVars
<1>7. CASE UNCHANGED vars BY <1>1, <1>7 DEF vars
<1> QED BY <1>2, <1>3, <1>4, <1>5, <1>6, <1>7 DEF Next, Kernel

(* For every layout within GRID_ROWS, a deferred tap types the key that was *)
(* highlighted, the highlight stays on the keys, and the text announced is *)
(* the text (keyboard.rs, run_keyboard, click_selected, move_selection).   *)
THEOREM TapsAreInvisible == Spec => []TextAsTyped
<1>1. Init => Deferred(kb) BY FirstKey DEF Init
<1>2. Deferred(kb) /\ [Next]_vars => Deferred(kb') BY KeyboardStep
<1>3. Deferred(kb) => TextAsTyped BY DEF Deferred, TextAsTyped
<1>4. Deferred(kb)' <=> Deferred(kb') BY DEF Deferred
<1> QED BY <1>1, <1>2, <1>3, <1>4, PTL DEF Spec
=============================================================================
