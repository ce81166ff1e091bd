------------------------------- MODULE Printk -------------------------------
(***************************************************************************)
(* printk() (lib/printk.c): the format is read an element at a time, each  *)
(* appends to a buffer on the stack, and the buffer is sent to the screen  *)
(* and the serial line, and cleared, when it is nearly full and at the     *)
(* end.  Nothing appended is terminated: the append works because all that *)
(* is behind the text is zero.                                             *)
(*                                                                         *)
(* A step is an iteration of the loop: the element of the format it reads  *)
(* and the argument it takes are chosen in the step.  Widths are scaled.   *)
(***************************************************************************)
EXTENDS Strings

CONSTANTS
  OutputLen,   (* output_len, the size of the buffer *)
  Spare,       (* what is left in it when it is sent: 32 in the code *)
  ShortBits,   (* the width of a short, 16 in the code *)
  IntBits,     (* of an int, 32 *)
  LongBits,    (* of a long, a long long and a pointer, 64 *)
  PointerLen,  (* the digits a pointer has at least: 8 in the code *)
  ShortArgs, IntArgs, LongArgs, Pointers,  (* the arguments passed *)
  Words,       (* the strings passed for %s, as sequences *)
  Letters,     (* the characters of formats, and those passed for %c *)
  MaxElements  (* bound: elements of a format *)

Signed(bits) == -(2^(bits - 1)) .. (2^(bits - 1) - 1)

(* A short is passed as an int; it may be an unsigned one.                  *)
ASSUME PrintkAssumption ==
  /\ Spare \in 1 .. (OutputLen - 1) /\ PointerLen \in Nat \ {0}
  /\ ShortBits \in Nat \ {0} /\ IntBits > ShortBits /\ LongBits >= IntBits
  /\ ShortArgs \subseteq Signed(ShortBits) \cup 0..(2^ShortBits - 1)
  /\ IntArgs \subseteq Signed(IntBits) /\ LongArgs \subseteq Signed(LongBits)
  /\ Pointers \subseteq 0..(2^LongBits - 1)

VARIABLES
  output_str,  (* the buffer, and memory behind it *)
  pending,     (* auxiliary: the text that was to be printed and not sent *)
  lengths,     (* auxiliary: of h and z, what the format had for lengths *)
  elements     (* elements of the format that have been read *)

vars == <<output_str, pending, lengths, elements>>

BASE_8 == 8
BASE_10 == 10
BASE_16 == 16
LOWERCASE == 32
UPPERCASE == 0

Percent == 37
Minus == 45
Zero == 48      \* '0'
LetterA == 65   \* 'A'
LetterU == 117  \* 'u'
LetterX == 120  \* 'x'
LetterZ == 122  \* 'z'
Guard == 255    \* what the memory behind the buffer holds

Unsigned(n, bits) == n % 2^bits
-----------------------------------------------------------------------------
format_char(str, c) == strncat(str, InMemory(<<c>>, <<>>), 1)

(* The test for a full buffer compares with MAX_STR_LEN, not its size. *)
Full(str) == strlen(str) = MAX_STR_LEN - 1

format_str(str, s) == IF Full(str) THEN str ELSE strncat(str, s, strlen(s))

Digit(d, text_case) == IF d < 10 THEN d + Zero ELSE d - 10 + LetterA + text_case

(* The padding in front of the most significant digit. *)
Padded(str, num_len) ==
  LET pad[i \in 0..num_len] == IF i = 0 THEN str ELSE format_char(pad[i - 1], Zero)
  IN  IF num_len = 0 THEN str ELSE pad[num_len - 1]

\* mutated: the padding does not count the digits behind the first one
PaddedFully(str, n, base, text_case, num_len) ==
  LET put[m \in 0..n] ==
        format_char(IF m \div base # 0 THEN put[m \div base] ELSE Padded(str, num_len),
                    Digit(m % base, text_case))
  IN  IF Full(str) THEN str ELSE put[n]

(* The digits in front of the last one first, and one fewer of them. *)
format_llu_base_n(str, n, base, text_case, num_len) ==
  LET put[m \in 0..n, len \in 0..num_len] ==
        format_char(IF m \div base # 0
                    THEN put[m \div base, IF len > 0 THEN len - 1 ELSE 0]
                    ELSE Padded(str, len),
                    Digit(m % base, text_case))
  IN  IF Full(str) THEN str ELSE put[n, num_len]

(* A negative number is written to str + 1, behind its sign or further on;  *)
(* the most negative one is its own negation, and unsigned what is meant.   *)
Behind(str) == [i \in 0 .. (OutputLen + Spare - 1) |-> str[i + 1]]
Joined(str, rest) == [i \in DOMAIN str |-> IF i = 0 THEN str[0] ELSE rest[i - 1]]
Negative(str, n, base) ==
  Joined(str, format_llu_base_n(Behind(str), Unsigned(-n, LongBits), base, LOWERCASE, 0))

format_ll(str, n) ==
  IF n < 0 THEN Negative(format_char(str, Minus), n, BASE_10)
  ELSE format_llu_base_n(str, n, BASE_10, LOWERCASE, 0)

format_ptr(str, n) ==
  format_llu_base_n(format_str(str, InMemory(<<Zero, LetterX>>, <<>>)), n,
                    BASE_16, LOWERCASE, PointerLen)

Specifiers == {"d", "i", "u", "x", "X", "o"}

parse_specifier(str, sp, arg, bits) ==
  CASE sp \in {"d", "i"} -> format_ll(str, arg)
    [] sp = "u" -> format_llu_base_n(str, Unsigned(arg, bits), BASE_10, LOWERCASE, 0)
    [] sp = "x" -> format_llu_base_n(str, Unsigned(arg, bits), BASE_16, LOWERCASE, 0)
    [] sp = "X" -> format_llu_base_n(str, Unsigned(arg, bits), BASE_16, UPPERCASE, 0)
    [] sp = "o" -> format_llu_base_n(str, Unsigned(arg, bits), BASE_8, LOWERCASE, 0)
-----------------------------------------------------------------------------
(* Reference: what an element of a format stands for in printf(), by the    *)
(* places of a number instead of repeated division.                         *)
Places(n, base) == CHOOSE k \in 1..(LongBits + 1) :
                     n < base^k /\ (k = 1 \/ n >= base^(k - 1))
LowerDigits == <<48, 49, 50, 51, 52, 53, 54, 55, 56, 57, 97, 98, 99, 100, 101, 102>>
UpperDigits == <<48, 49, 50, 51, 52, 53, 54, 55, 56, 57, 65, 66, 67, 68, 69, 70>>
NumeralOf(n, base, digits, k) ==
  [i \in 1..k |-> digits[1 + ((n \div base^(k - i)) % base)]]
Numeral(n, base, digits) == NumeralOf(n, base, digits, Places(n, base))

Meaning(sp, arg, bits) ==
  LET raw == IF arg < 0 THEN arg + 2^bits ELSE arg
  IN  CASE sp \in {"d", "i"} ->
             (IF arg < 0 THEN <<Minus>> ELSE <<>>)
               \o Numeral(IF arg < 0 THEN -arg ELSE arg, 10, LowerDigits)
        [] sp = "u" -> Numeral(raw, 10, LowerDigits)
        [] sp = "x" -> Numeral(raw, 16, LowerDigits)
        [] sp = "X" -> Numeral(raw, 16, UpperDigits)
        [] sp = "o" -> Numeral(raw, 8, LowerDigits)

(* With h the argument is converted to a short.                             *)
AsShort(sp, arg) ==
  LET raw == arg % 2^ShortBits
  IN  IF sp \in {"d", "i"} /\ raw >= 2^(ShortBits - 1) THEN raw - 2^ShortBits ELSE raw
ShortMeaning(sp, arg) == Meaning(sp, AsShort(sp, arg), IntBits)

PointerText(n) ==
  LET places == Places(n, 16)
  IN  <<Zero, LetterX>>
        \o NumeralOf(n, 16, LowerDigits, IF places > PointerLen THEN places ELSE PointerLen)
-----------------------------------------------------------------------------
\* mutated: the last character is not cleared
ClearedButLast(str) == memset(str, 0, NUL, strlen(str) - 1)

(* The text is sent, see Console, and cleared. *)
print_clear_buff(str) == memset(str, 0, NUL, strlen(str))

NearlyFull(str) == strlen(str) >= OutputLen - Spare

(* What an iteration starts with. *)
Ready(str) == IF NearlyFull(str) THEN print_clear_buff(str) ELSE str
Buffer == Ready(output_str)
Unsent == IF NearlyFull(output_str) THEN <<>> ELSE pending

(* An iteration appends, and text is what it should append. *)
Appends(str, text) ==
  /\ elements < MaxElements
  /\ elements' = elements + 1
  /\ output_str' = str
  /\ pending' = Unsent \o text

Element(str, text) == Appends(str, text) /\ UNCHANGED lengths

Literal == \E c \in Letters : Element(format_char(Buffer, c), <<c>>)
Character == \E c \in Letters : Element(format_char(Buffer, c), <<c>>)
String == \E w \in Words : Element(format_str(Buffer, InMemory(w, <<Guard>>)), w)
Pointer == \E n \in Pointers : Element(format_ptr(Buffer, n), PointerText(n))

(* Without a length; with l, ll, q. *)
IntNumber ==
  \E sp \in Specifiers, arg \in IntArgs :
    Element(parse_specifier(Buffer, sp, arg, IntBits), Meaning(sp, arg, IntBits))
LongNumber ==
  \E sp \in Specifiers, arg \in LongArgs :
    Element(parse_specifier(Buffer, sp, arg, LongBits), Meaning(sp, arg, LongBits))

(* With h: the argument is read as an int. *)
ShortNumber ==
  \E sp \in Specifiers, arg \in ShortArgs :
    /\ Appends(parse_specifier(Buffer, sp, arg, IntBits), ShortMeaning(sp, arg))
    /\ lengths' = lengths \cup {"h"}

(* zu: z is taken for a specifier that is unknown, and u is the element of  *)
(* the next iteration.  The argument stays, for the next conversion.        *)
SizeNumber ==
  \E arg \in Pointers :
    LET shown == format_char(format_char(Buffer, Percent), LetterZ)
    IN  /\ Appends(format_char(Ready(shown), LetterU), Meaning("u", arg, LongBits))
        /\ lengths' = lengths \cup {"z"}

(* A specifier printf() does not have is shown with its %, and takes no     *)
(* argument; %% is one %, and so is a % that ends the format.               *)
Unknown ==
  \E c \in Letters :
    Element(format_char(format_char(Buffer, Percent), c), <<Percent, c>>)
PercentSign == Element(format_char(Buffer, Percent), <<Percent>>)

(* The rest is sent, and another call clears its buffer. *)
Return ==
  /\ elements > 0
  /\ elements' = 0
  /\ output_str' = memset(print_clear_buff(output_str), 0, NUL, OutputLen)
  /\ pending' = <<>> /\ lengths' = {}

Init ==
  /\ output_str = memset([i \in 0 .. (OutputLen + Spare) |-> Guard], 0, NUL, OutputLen)
  /\ pending = <<>> /\ lengths = {} /\ elements = 0

Next ==
  \/ Literal \/ Character \/ String \/ Pointer
  \/ IntNumber \/ LongNumber \/ ShortNumber \/ SizeNumber
  \/ Unknown \/ PercentSign \/ Return

Spec == Init /\ [][Next]_vars
-----------------------------------------------------------------------------
(* The memory behind the buffer is as it was (printk.c:165-252).            *)
NothingBehind == \A i \in OutputLen .. (OutputLen + Spare) : output_str[i] = Guard

TypeOK ==
  /\ output_str \in [0 .. (OutputLen + Spare) -> 0..255]
  /\ NothingBehind
  /\ elements \in 0..MaxElements /\ lengths \subseteq {"h", "z"}

Shown == Text(output_str)

(***************************************************************************)
(* What is in the buffer is what printf() would make of the elements read  *)
(* since it was last sent, of those without h and z: signs, digits in each *)
(* base, leading zeros, the most negative number, and nothing of an earlier*)
(* text (printk.h:25, printk.c:40-148, 176-245).                           *)
(***************************************************************************)
TextAsMeant == lengths = {} => Shown = pending

(***************************************************************************)
(* The buffer is zero behind its text, to the end, which every append      *)
(* relies on, and has room for a terminator, when no %s is longer than what*)
(* is spared (printk.c:40, 150-161, 172-182).  (With the types: the memory *)
(* behind the buffer is as it was.)                                        *)
(***************************************************************************)
ZeroBehindText ==
  /\ TypeOK
  /\ Len(Shown) < OutputLen
  /\ \A i \in Len(Shown) .. (OutputLen - 1) : output_str[i] = NUL

(***************************************************************************)
(* strcmp() and strncmp() of the buffer with a string have the sign of the *)
(* order of dictionaries, by bytes; strlen(), strnlen() and strchr() find  *)
(* the end and the first place of a character, as a char holds it, whatever*)
(* is behind the string (string.c:48-63, 103-148, 204-218).                *)
(***************************************************************************)
Sign(n) == IF n > 0 THEN 1 ELSE IF n < 0 THEN -1 ELSE 0
Order(s, t) == IF Before(s, t) THEN -1 ELSE IF Before(t, s) THEN 1 ELSE 0
FirstOf(c, s) ==
  IF \A i \in 1..Len(s) : s[i] # c THEN NULL
  ELSE CHOOSE i \in 0 .. (Len(s) - 1) : s[i + 1] = c /\ \A j \in 1..i : s[j] # c

Compares ==
  /\ strlen(output_str) = Len(Shown)
  /\ strchr(output_str, NUL) = Len(Shown)
  /\ \A c \in Letters : strchr(output_str, AsChar(c)) = FirstOf(c, Shown)
  /\ \A s \in Words :
       LET str == InMemory(s, <<Guard>>)
       IN  /\ Sign(strcmp(output_str, str)) = Order(Shown, s)
           /\ Sign(strcmp(str, output_str)) = Order(s, Shown)
           /\ \A n \in 0..3 :
                /\ Sign(strncmp(output_str, str, n)) = Order(Prefix(Shown, n), Prefix(s, n))
                /\ strnlen(output_str, n) = Len(Prefix(Shown, n))

(***************************************************************************)
(* The copies write the characters of the source and no terminator: with   *)
(* zeros behind it the buffer holds the concatenation, and a copy over a   *)
(* longer text keeps the rest of it, unless memcpy() copies its terminator *)
(* (string.c:35-46, 65-101, 150-187).                                      *)
(***************************************************************************)
Copies ==
  \A s \in Words :
    LET src == InMemory(s, <<Guard>>)
        over == SubSeq(Shown, Len(s) + 1, Len(Shown))
    IN  /\ Len(Shown) + Len(s) < OutputLen => Text(strcat(output_str, src)) = Shown \o s
        /\ Text(strcpy(output_str, src)) = s \o over
        /\ Text(memcpy(output_str, src, Len(s) + 1)) = s
        /\ \A n \in 0..3 : Len(Shown) + n < OutputLen =>
             Text(strncat(output_str, src, n)) = Shown \o Prefix(s, n)

(* Both: the functions of string.c on the buffer are those on sequences     *)
(* (string.c:35-218).                                                       *)
StringsAsSequences == Compares /\ Copies
=============================================================================
