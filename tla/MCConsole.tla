----------------------------- MODULE MCConsole ------------------------------
(***************************************************************************)
(* A screen of two lines of three characters, a FIFO of two bytes (16 in   *)
(* the code) and a UART of one (16), so that lines fill, the screen        *)
(* scrolls, the FIFO fills and wraps around and the UART is full.          *)
(***************************************************************************)
EXTENDS Console

Messages == {<<"a", TAB, LF>>, <<BS, "b">>, <<CR, "b">>}

\* a key's character with one that follows it in memory, and an escape
Shown == {<<"k", "g">>, <<ESC>>}

Characters == {"a", "b", "k", "g", "e", TAB, BS, CR, LF, ESC}
=============================================================================
