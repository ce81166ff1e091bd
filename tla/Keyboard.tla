------------------------------ MODULE Keyboard ------------------------------
(***************************************************************************)
(* The scan codes of src/drivers/ps2_keyboard_driver.c.  A code names a    *)
(* key and says whether it was released.  Of the keys that have characters *)
(* there is one letter, one digit, and one key without an entry in the     *)
(* tables; UP stands for the four arrows, whose codes follow a prefix, E0. *)
(* The driver has no case for it: it is the release of no key.             *)
(*                                                                         *)
(* The state is a record: shift, caps, ctrl and alt are the key_state_t    *)
(* variables (TRUE is PRESSED).  caps also says which pair of tables       *)
(* ascii_table_LOWER and ascii_table_UPPER point to.                       *)
(***************************************************************************)
EXTENDS Naturals, Sequences

LSFT == "LSFT"
RSFT == "RSFT"
CAPS == "CAPS"
CTRL == "CTRL"
ALT == "ALT"
UP == "UP"
Letter == "letter"
Digit == "digit"
Blank == "blank"

Modifiers == {LSFT, RSFT, CAPS, CTRL, ALT}
AllKeys == Modifiers \cup {UP, Letter, Digit, Blank}
E0 == "E0"

Code(key, released) == [key |-> key, released |-> released]
Prefixed(key, released) == <<Code(E0, TRUE), Code(key, released)>>

(* The codes of a key; faked: in a shift that nobody pressed. *)
CodesOf(key, released, faked) ==
  CASE key # UP             -> <<Code(key, released)>>
    [] key = UP /\ ~faked   -> Prefixed(UP, released)
    [] key = UP /\ faked    ->
         IF released THEN Prefixed(UP, TRUE) \o Prefixed(LSFT, TRUE)
         ELSE Prefixed(LSFT, FALSE) \o Prefixed(UP, FALSE)

NO_CHAR == "no char"
Warning == "warning"  \* no character, and a message is printed
Chars == {"a", "A", "1", "!"}

Released == [shift |-> FALSE, caps |-> FALSE, ctrl |-> FALSE, alt |-> FALSE]

(* The four tables: caps lock exchanges the cases of the letters only. *)
CharOf(key, shift, caps) ==
  CASE key = Letter -> IF shift # caps THEN "A" ELSE "a"
    [] key = Digit  -> IF shift THEN "!" ELSE "1"
    [] OTHER        -> Warning

(* The state variable of a modifier, set to pressed. *)
WithModifier(kb, key, pressed) ==
  CASE key \in {LSFT, RSFT} -> [kb EXCEPT !.shift = pressed]
    [] key = CAPS           -> [kb EXCEPT !.caps = pressed]
    [] key = CTRL           -> [kb EXCEPT !.ctrl = pressed]
    [] key = ALT            -> [kb EXCEPT !.alt = pressed]
    [] OTHER                -> kb

\* mutated: the case RSFT is missing when a key is released
ProcessWithoutRSFT(kb, code) ==
  [kb  |-> IF code.released /\ code.key = RSFT THEN kb
           ELSE WithModifier(kb, code.key, ~code.released),
   key |-> IF code.released \/ code.key \in Modifiers \cup {UP} THEN NO_CHAR
           ELSE CharOf(code.key, kb.shift, kb.caps)]

(* process_scan_code(): the new state, and the character returned. *)
process_scan_code(kb, code) ==
  [kb  |-> WithModifier(kb, code.key, ~code.released),
   key |-> IF code.released \/ code.key \in Modifiers \cup {UP} THEN NO_CHAR
           ELSE CharOf(code.key, kb.shift, kb.caps)]
=============================================================================
