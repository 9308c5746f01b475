------------------------------- MODULE Input -------------------------------
(***************************************************************************)
(* The input device and its poll (ps2.rs, pl011.rs, input.rs).  A keyboard *)
(* sends the bytes of each keystroke one at a time into the output buffer  *)
(* of the 8042, or a terminal sends characters into the receive FIFO of    *)
(* the PL011; what meets a full buffer is dropped.  The kernel takes bytes *)
(* out when the application in front asks next_key for an event.           *)
(*                                                                         *)
(* due says what the user did and the kernel has still to be told: the     *)
(* events of the keystrokes on the way, by what the keys mean and without  *)
(* regard to bytes.  It is given up at the first byte lost.                *)
(***************************************************************************)
EXTENDS Scancodes, Sequences, SequencesExt

CONSTANTS Devices,       \* of "ps2" and "pl011": the machines to consider
          Keys,          \* the keys of the keyboard
          TerminalBytes, \* what the terminal may send
          Capacity,      \* bytes the buffer holds
          MaxStrokes     \* bound: keystrokes of a behaviour

(* Pause and Num Lock apart, the keys are those of the tables.             *)
ASSUME KeysAssumption ==
  Keys \subseteq {"Pause", "NumLock"} \cup Range(Printed) \cup Range(PlainCodes)

VARIABLES device,    \* the input device of this machine
          down,      \* the keys held down
          caps,      \* whether the user has caps lock on
          wire,      \* the bytes of the last keystroke still to arrive
          buffer,    \* the output buffer of the controller
          decoder,   \* the ScancodeDecoder
          due,       \* the events the kernel has still to see
          lost,      \* what was lost: NoByte, PauseEnd or OtherByte
          strokes    \* how many keystrokes so far

inputVars == <<device, down, caps, wire, buffer, decoder, due, lost, strokes>>

NoByte == 256
OtherByte == 257

-----------------------------------------------------------------------------
(* The keyboard: which bytes it sends. *)
NumLockCode == 69
PauseBytes == <<PausePrefix, 29, NumLockCode, PausePrefix, 157, PauseEnd>>

CodeOf(k) ==
  IF k = "NumLock" THEN NumLockCode
  ELSE CHOOSE c \in DOMAIN PlainCodes \cup DOMAIN Printed :
         k = IF c \in DOMAIN Printed THEN Printed[c] ELSE PlainCodes[c]

Prefixed(k) == IF k \in Arrows THEN <<ExtendedPrefix>> ELSE <<>>
MakeBytes(k) == IF k = "Pause" THEN PauseBytes ELSE Prefixed(k) \o <<CodeOf(k)>>
BreakBytes(k) == IF k = "Pause" THEN <<>> ELSE Prefixed(k) \o <<CodeOf(k) + BreakBit>>

(* With a shift held, a keyboard may cancel it around a grey key. *)
FakeBreak(s) == <<ExtendedPrefix, CodeOf(s) + BreakBit>>

(* On device d, the user has just pressed a key: after Ps2Keyboard::new,   *)
(* which flushes what the firmware left, this is where a session begins.   *)
InputInit(d, k) ==
  /\ device = d
  /\ down = IF d = "ps2" THEN {k} ELSE {}
  /\ caps = FALSE
  /\ wire = <<>>
  /\ buffer = IF d = "ps2" THEN MakeBytes(k) ELSE <<13>>
  /\ due = <<Press(Control(k))>>
  /\ decoder = NewDecoder
  /\ lost = NoByte
  /\ strokes = 0

(* What a key means, by the other keys held: no event for the pause key. *)
Meaning(k) ==
  CASE k = "NumLock"      -> Control("Unknown")
    [] k \in Printable    -> Char(k, Raised(k, down \cap Shifts # {}, caps))
    [] OTHER              -> Control(k)
Meant(k, event) == IF k = "Pause" THEN <<>> ELSE <<event>>

Owe(events) == due' = IF lost = NoByte THEN due \o events ELSE <<>>

Send(bytes, events) ==
  /\ wire = <<>> /\ strokes < MaxStrokes
  /\ strokes' = strokes + 1
  /\ wire' = bytes
  /\ Owe(events)
  /\ UNCHANGED <<device, buffer, decoder, lost>>

(* A key goes down, or is held down long enough to repeat. *)
KeyDown(k) ==
  /\ device = "ps2"
  /\ Send(MakeBytes(k), Meant(k, Press(Meaning(k))))
  /\ down' = down \cup ({k} \ {"Pause"})
  /\ caps' = (caps # (k = "CapsLock"))

FakeShiftedArrow(k) ==
  /\ device = "ps2"
  /\ \E s \in down \cap Shifts :
       Send(FakeBreak(s) \o MakeBytes(k), <<Release(Control("Unknown")), Press(Meaning(k))>>)
  /\ down' = down \cup {k}
  /\ UNCHANGED caps

KeyUp(k) ==
  /\ device = "ps2" /\ k \in down
  /\ Send(BreakBytes(k), Meant(k, Release(Meaning(k))))
  /\ down' = down \ {k}
  /\ UNCHANGED caps

TerminalSends(byte) ==
  /\ device = "pl011"
  /\ Send(<<byte>>, IF byte \in DOMAIN TerminalKeys THEN <<Press(TerminalKeys[byte])>> ELSE <<>>)
  /\ UNCHANGED <<down, caps>>

(* A byte reaches the buffer, or is dropped because it is full. *)
Arrive ==
  /\ wire # <<>> /\ Len(buffer) < Capacity
  /\ buffer' = Append(buffer, Head(wire))
  /\ wire' = Tail(wire)
  /\ UNCHANGED <<device, down, caps, decoder, due, lost, strokes>>

Overrun ==
  /\ wire # <<>> /\ Len(buffer) = Capacity /\ lost = NoByte
  /\ lost' = IF Head(wire) = PauseEnd THEN PauseEnd ELSE OtherByte
  /\ wire' = Tail(wire)
  /\ due' = <<>>
  /\ UNCHANGED <<device, down, caps, buffer, decoder, strokes>>

User == \/ \E k \in Keys : KeyDown(k) \/ KeyUp(k)
        \/ \E k \in Keys \cap Arrows : FakeShiftedArrow(k)
        \/ \E byte \in TerminalBytes : TerminalSends(byte)
-----------------------------------------------------------------------------
(* The kernel's side: next_key. *)
Decoded == IF device = "ps2" THEN Push(decoder, Head(buffer))
                             ELSE Yield(decoder, TerminalByteToKey(Head(buffer)))

TakeByte ==
  /\ buffer # <<>>
  /\ buffer' = Tail(buffer)
  /\ decoder' = Decoded.decoder
  /\ UNCHANGED <<device, down, caps, wire, lost, strokes>>

(* The event the byte at the head of the buffer completes, if it does. *)
Events == IF buffer = <<>> THEN {} ELSE {Decoded.event} \ {NoEvent}

(* Ps2Keyboard::next_key goes on to the next byte inside its loop. *)
NoEventYet == buffer # <<>> /\ Events = {}

MidEvent == device = "ps2" /\ NoEventYet /\ TakeByte /\ UNCHANGED due

(* next_key returns an event. *)
NextKey(event) ==
  /\ TakeByte
  /\ due' = IF due = <<>> THEN due ELSE Tail(due)

(* next_key returns None: no byte, or, from the PL011, a byte that is no   *)
(* key, whatever waits behind it.                                          *)
NoKey ==
  \/ buffer = <<>> /\ UNCHANGED inputVars
  \/ device = "pl011" /\ NoEventYet /\ TakeByte /\ UNCHANGED due
-----------------------------------------------------------------------------
(* Everything on the way, decoded: a function, as it is reasoned about. *)
Fed(d, byte) ==
  LET y == Push(d.decoder, byte) IN
  [decoder |-> y.decoder,
   events |-> IF y.event = NoEvent THEN d.events ELSE Append(d.events, y.event)]
Decode(d, bytes) ==
  LET after[i \in 0 .. Len(bytes)] ==
        IF i = 0 THEN [decoder |-> d, events |-> <<>>] ELSE Fed(after[i - 1], bytes[i])
  IN  after[Len(bytes)]
OnTheWay == Decode(decoder, buffer \o wire)

(* What the decoder should be then: it has down what the user has, and is  *)
(* in the middle of nothing.                                               *)
Caught == [extended |-> FALSE, pause |-> FALSE, left_shift |-> "LeftShift" \in down,
           right_shift |-> "RightShift" \in down, caps_lock |-> caps]

(* The bytes carry the keys: as long as no byte is lost, what is still to  *)
(* be decoded is exactly what the user did, in order, each character with  *)
(* the glyph the modifiers held at the keystroke give it, and the decoder  *)
(* ends with the user's modifiers (scancodes.rs, push and map) - across    *)
(* prefixes, the pause sequence and the fake shifts of grey keys, wherever *)
(* a poll stopped.                                                         *)
StreamFaithful ==
  device = "ps2" /\ lost = NoByte => OnTheWay = [decoder |-> Caught, events |-> due]

(* A decoder that swallows everything, with no pause sequence on the way   *)
(* to end it, has lost the end of one: no other loss leaves the machine    *)
(* deaf (scancodes.rs, the pause state).                                   *)
DeafOnlyWithoutPauseEnd ==
  device = "ps2" /\ lost # NoByte /\ OnTheWay.decoder.pause => lost = PauseEnd
=============================================================================
