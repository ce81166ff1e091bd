------------------------------ MODULE Strings ------------------------------
(***************************************************************************)
(* The functions of lib/string.c on memory.  A char * is a function from   *)
(* 0..n to bytes (NUL is 0); what it says beyond the string is what happens*)
(* to be in memory.                                                        *)
(***************************************************************************)
EXTENDS Integers, Sequences

CONSTANT MAX_STR_LEN

ASSUME StringsAssumption == MAX_STR_LEN \in Nat \ {0}

NUL == 0
NULL == -1   \* an offset that is none: a null pointer

-----------------------------------------------------------------------------
(* memset(): n characters from offset on. *)
memset(dst, offset, c, n) ==
  [i \in DOMAIN dst |-> IF i \in offset .. (offset + n - 1) THEN c ELSE dst[i]]

(* memcpy(): n characters, the terminator no exception. *)
memcpy(dest, src, n) == [i \in DOMAIN dest |-> IF i < n THEN src[i] ELSE dest[i]]

(* strnlen(): the end is looked for before the length is compared. *)
strnlen(s, maxlen) ==
  LET from[len \in 0..maxlen] ==
        IF s[len] # NUL /\ len + 1 < maxlen THEN from[len + 1]
        ELSE IF s[len] # NUL THEN len + 1 ELSE len
  IN  IF maxlen = 0 THEN 0 ELSE from[0]

strlen(s) == strnlen(s, MAX_STR_LEN)

(* strncpy() to dest + at: characters up to the terminator, which is not    *)
(* copied, and at most n of them.                                           *)
strncpy(dest, at, src, n) ==
  LET copied[i \in 0..n] ==   \* the number of characters copied, from i on
        IF src[i + 1] # NUL /\ i + 1 < n THEN copied[i + 1] ELSE i + 1
      count == IF n = 0 \/ src[0] = NUL THEN 0 ELSE copied[0]
  IN  [i \in DOMAIN dest |-> IF i - at \in 0 .. (count - 1) THEN src[i - at] ELSE dest[i]]

strncat(dest, src, n) == strncpy(dest, strlen(dest), src, n)
strcpy(dest, src) == strncpy(dest, 0, src, strlen(src))
strcat(dest, src) == strncpy(dest, strlen(dest), src, strlen(src))

\* mutated: the end of the second string only is noticed
CompareToEnd(s1, s2, n) ==
  LET from[i \in 0..n] ==
        IF s2[i] = NUL \/ s1[i] # s2[i] \/ i + 1 >= n THEN s2[i] - s1[i]
        ELSE from[i + 1]
  IN  IF n = 0 THEN 0 ELSE from[0]

(* strncmp(): the difference of the first characters that differ. *)
strncmp(s1, s2, n) ==
  LET from[i \in 0..n] ==
        IF s1[i] = NUL \/ s1[i] # s2[i] \/ i + 1 = n THEN s1[i] - s2[i]
        ELSE from[i + 1]
  IN  IF n = 0 THEN 0 ELSE from[0]

strcmp(s1, s2) ==
  strncmp(s1, s2, IF strlen(s1) > strlen(s2) THEN strlen(s1) ELSE strlen(s2))

(* A byte as a char, which is signed, has it in a comparison with an int.   *)
AsChar(b) == IF b < 128 THEN b ELSE b - 256

(* strchr(): the offset of the first c, an int, which may be NUL.           *)
strchr(s, c) ==
  LET from[i \in DOMAIN s] ==
        IF AsChar(s[i]) = c THEN i ELSE IF s[i] = NUL THEN NULL ELSE from[i + 1]
  IN  from[0]
-----------------------------------------------------------------------------
(* Reference: strings as sequences. *)
Text(s) ==
  LET n == CHOOSE k \in DOMAIN s : s[k] = NUL /\ \A i \in 0 .. (k - 1) : s[i] # NUL
  IN  [i \in 1..n |-> s[i - 1]]

(* The string, with junk behind its terminator. *)
InMemory(text, behind) ==
  [i \in 0 .. (Len(text) + Len(behind)) |->
     IF i < Len(text) THEN text[i + 1]
     ELSE IF i = Len(text) THEN NUL ELSE behind[i - Len(text)]]

Prefix(text, n) == SubSeq(text, 1, IF n < Len(text) THEN n ELSE Len(text))

(* The order of dictionaries: at the first place where they differ, with    *)
(* the end before every character.                                          *)
Before(s, t) ==
  \E i \in 1 .. (Len(s) + 1) :
    /\ i <= Len(t) /\ SubSeq(s, 1, i - 1) = SubSeq(t, 1, i - 1)
    /\ i <= Len(s) => s[i] < t[i]
=============================================================================
