------------------------------ MODULE MCDevices -----------------------------
(***************************************************************************)
(* Two shifts, control, alt, an arrow, a key without a character; the boot *)
(* loader leaves all lines open, the worst case; a device on the second    *)
(* chip, the mouse, raises its line at any time.                           *)
(***************************************************************************)
EXTENDS Devices

SomeKeys == {LSFT, RSFT, CTRL, ALT, Blank}
SomeLines == {<<2, 4>>}
SomeMasks == {{}}
=============================================================================
