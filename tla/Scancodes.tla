----------------------------- MODULE Scancodes -----------------------------
(***************************************************************************)
(* The scancode set 1 decoder (scancodes.rs) and the terminal bytes that   *)
(* take its place on aarch64 (terminal.rs).  A character is the key it is  *)
(* printed on and which of the key's two glyphs it is: the tables of the   *)
(* layout are reduced to one letter, "a", and one other key, "1".          *)
(***************************************************************************)
EXTENDS Naturals

NoEvent == [kind |-> "none"]
Control(name) == [key |-> name, high |-> FALSE]
Char(k, high) == [key |-> k, high |-> high]
Press(k) == [kind |-> "press", of |-> k]
Release(k) == [kind |-> "release", of |-> k]

Letters == {"a"}
Printable == {"a", "1", "Space"}
Shifts == {"LeftShift", "RightShift"}
Arrows == {"Up", "Down", "Left", "Right"}

ExtendedPrefix == 224       \* 0xE0
PausePrefix == 225          \* 0xE1
PauseEnd == 197             \* 0xC5, which is also the break code of Num Lock
BreakBit == 128

(* The make codes of the keys printed with a character. *)
Printed == [c \in {30, 2, 57} |-> CASE c = 30 -> "a" [] c = 2 -> "1" [] c = 57 -> "Space"]

(* control_key: keys with a code of their own, without or with the prefix. *)
ArrowCodes == [c \in {72, 75, 77, 80} |->
  CASE c = 72 -> "Up" [] c = 75 -> "Left" [] c = 77 -> "Right" [] c = 80 -> "Down"]
PlainCodes == [c \in {14, 28, 1, 42, 54, 29, 58} \cup DOMAIN ArrowCodes |->
  CASE c = 14 -> "Backspace" [] c = 28 -> "Enter" [] c = 1 -> "Escape" [] c = 42 -> "LeftShift"
    [] c = 54 -> "RightShift" [] c = 29 -> "LeftControl" [] c = 58 -> "CapsLock"
    [] OTHER -> ArrowCodes[c]]
ExtendedCodes == [c \in {29} \cup DOMAIN ArrowCodes |->
  IF c = 29 THEN "RightControl" ELSE ArrowCodes[c]]

ControlKey(extended) == IF extended THEN ExtendedCodes ELSE PlainCodes
-----------------------------------------------------------------------------
NewDecoder == [extended |-> FALSE, pause |-> FALSE, left_shift |-> FALSE,
               right_shift |-> FALSE, caps_lock |-> FALSE]

(* Which glyph of a key is typed: letters rise with caps lock or shift but *)
(* not both, the others with shift alone, the space never.                 *)
Raised(k, shift, caps) ==
  \/ k \in Letters /\ shift # caps
  \/ k \in Printable \ (Letters \cup {"Space"}) /\ shift

ShiftActive(d) == d.left_shift \/ d.right_shift

Map(d, make) ==
  LET control == ControlKey(d.extended) IN
  CASE make \in DOMAIN control -> Control(control[make])
    [] make \in DOMAIN Printed \ DOMAIN control ->
         Char(Printed[make], Raised(Printed[make], ShiftActive(d), d.caps_lock))
    [] OTHER -> Control("Unknown")

(* A bug to compare with: the release of one shift releases both. *)
MutantTracked(d, event) ==
  LET down == event.kind = "press" IN
  CASE event.of.key \in Shifts -> [d EXCEPT !.left_shift = down, !.right_shift = down]
    [] event.of.key = "CapsLock" /\ down -> [d EXCEPT !.caps_lock = ~@]
    [] OTHER -> d

(* What push leaves of the modifiers after an event. *)
Tracked(d, event) ==
  LET down == event.kind = "press" IN
  CASE event.of.key = "LeftShift"  -> [d EXCEPT !.left_shift = down]
    [] event.of.key = "RightShift" -> [d EXCEPT !.right_shift = down]
    [] event.of.key = "CapsLock" /\ down -> [d EXCEPT !.caps_lock = ~@]
    [] OTHER -> d

Yield(d, event) == [decoder |-> d, event |-> event]

(* A bug to compare with: the pause sequence is over at its third byte. *)
MutantPush(d, byte) ==
  LET event == IF byte >= BreakBit THEN Release(Map(d, byte - BreakBit))
                                   ELSE Press(Map(d, byte))
  IN CASE d.pause -> Yield([d EXCEPT !.pause = byte # PauseEnd - BreakBit], NoEvent)
       [] ~d.pause /\ byte = ExtendedPrefix -> Yield([d EXCEPT !.extended = TRUE], NoEvent)
       [] ~d.pause /\ byte = PausePrefix -> Yield([d EXCEPT !.pause = TRUE], NoEvent)
       [] OTHER -> Yield(Tracked([d EXCEPT !.extended = FALSE], event), event)

Push(d, byte) ==
  LET event == IF byte >= BreakBit THEN Release(Map(d, byte - BreakBit))
                                   ELSE Press(Map(d, byte))
  IN CASE d.pause -> Yield([d EXCEPT !.pause = byte # PauseEnd], NoEvent)
       [] ~d.pause /\ byte = ExtendedPrefix -> Yield([d EXCEPT !.extended = TRUE], NoEvent)
       [] ~d.pause /\ byte = PausePrefix -> Yield([d EXCEPT !.pause = TRUE], NoEvent)
       [] OTHER -> Yield(Tracked([d EXCEPT !.extended = FALSE], event), event)
-----------------------------------------------------------------------------
(* terminal_byte_to_key: presses only, and nothing for the control bytes   *)
(* that mean nothing to a line of input.                                   *)
TerminalKeys == [byte \in {13, 10, 127, 8, 27, 97, 65, 49, 33, 32} |->
  CASE byte \in {13, 10} -> Control("Enter")  [] byte \in {127, 8} -> Control("Backspace")
    [] byte = 27 -> Control("Escape")         [] byte = 97 -> Char("a", FALSE)
    [] byte = 65 -> Char("a", TRUE)           [] byte = 49 -> Char("1", FALSE)
    [] byte = 33 -> Char("1", TRUE)           [] byte = 32 -> Char("Space", FALSE)]

TerminalByteToKey(byte) ==
  IF byte \in DOMAIN TerminalKeys THEN Press(TerminalKeys[byte]) ELSE NoEvent
=============================================================================
