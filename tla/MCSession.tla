----------------------------- MODULE MCSession -----------------------------
(* A keyboard of the keys that matter, three rows of drawn keys that are   *)
(* not equally long, a screen the window can run against on every side.    *)
EXTENDS Session

MCDevices == {"ps2", "pl011"}
MCKeys == {"a", "LeftShift", "RightShift", "CapsLock", "Enter", "Escape", "Right", "Down",
           "NumLock", "Pause"}
MCTerminalBytes == {3, 13, 27, 65, 97, 127}
MCLayout == <<<<"1", "a">>, <<"1", "1">>, <<"a">>>>
=============================================================================
