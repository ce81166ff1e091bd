--------------------------- MODULE ConsoleProofs ----------------------------
(***************************************************************************)
(* Theorems about the output of the kernel under keyboard interrupts       *)
(* (Console), for every size of screen and FIFO, and all messages.         *)
(***************************************************************************)
EXTENDS Console, Induction

(***************************************************************************)
(* Operations still to do, one put before others.                          *)
(***************************************************************************)
Then(o, x) == <<o>> \o x

LEMMA ThenFacts ==
  ASSUME NEW X, NEW o \in X, NEW x \in Seq(X)
  PROVE  /\ Then(o, x) \in Seq(X) /\ Then(o, x) # <<>>
         /\ Head(Then(o, x)) = o /\ Tail(Then(o, x)) = x
         /\ Len(Then(o, x)) = Len(x) + 1
  BY DEF Then

LEMMA Unfold ==
  ASSUME NEW X, NEW x \in Seq(X), x # <<>>
  PROVE  x = Then(Head(x), Tail(x)) /\ Head(x) \in X /\ Tail(x) \in Seq(X)
  BY DEF Then

LEMMA ThenOthers ==
  ASSUME NEW X, NEW o \in X, NEW x \in Seq(X), NEW y \in Seq(X)
  PROVE  Then(o, x) \o y = Then(o, x \o y)
  BY DEF Then

LEMMA Joins ==
  ASSUME NEW X, NEW x \in Seq(X), NEW y \in Seq(X), NEW z \in Seq(X)
  PROVE  /\ x \o y \in Seq(X) /\ (x \o y) \o z = x \o (y \o z)
         /\ <<>> \in Seq(X) /\ <<>> \o x = x /\ x \o <<>> = x
  OBVIOUS

LEMMA Appended ==
  ASSUME NEW X, NEW a \in X, NEW b \in X, NEW c \in X
  PROVE  <<a, b>> = <<a>> \o <<b>> /\ <<a, b, c>> = <<a, b>> \o <<c>>
<1>1. \A x \in Seq(X) : \A d \in X : Append(x, d) = x \o <<d>>
  OBVIOUS
<1>2. <<a>> \in Seq(X) /\ <<a, b>> \in Seq(X)
  OBVIOUS
<1>3. <<a, b>> = Append(<<a>>, b)
  OBVIOUS
<1>4. <<a, b, c>> = Append(<<a, b>>, c)
  OBVIOUS
<1> QED BY <1>1, <1>2, <1>3, <1>4

-----------------------------------------------------------------------------
(***************************************************************************)
(* Types: operations with their arguments, and the machine.                *)
(***************************************************************************)
Letters == Chars \cup {NUL, SPACE, LF, "e", "k"}
Texts == Seq(Letters)

TextOps == {"display", "chars", "serial"}
LetterOps == {"store", "move", "produce", "outb"}
PlainOps ==
  IrqOps \cup (VgaOps \ LetterOps) \cup (SerialOps \ LetterOps)
    \cup {"end?", "bottom?", "first?", "empty?"}

Ops ==
  [op : TextOps, arg : Texts] \cup [op : {"full?"}, arg : Texts \ {<<>>}]
    \cup [op : LetterOps, arg : Letters] \cup [op : PlainOps, arg : {NoArg}]

Stack == Seq(Ops)

Mach ==
  [prev : BOOLEAN, curr : BOOLEAN, cpu : BOOLEAN,
   row : Nat, col : Nat, cell : [0..(Rows * Cols - 1) -> Letters], wild : BOOLEAN,
   buff : [0..(BuffSize - 1) -> Letters], prod : 0..BuffSize, cons : 0..BuffSize,
   count : Int, idle : BOOLEAN, stray : BOOLEAN,
   uart : 0..UartSize, taken : Texts, line : Texts]

(* Stacks of operations, and short ones. *)
LEMMA Stacks ==
  ASSUME NEW o \in Ops, NEW x \in Stack, NEW y \in Stack
  PROVE  /\ <<>> \in Stack /\ Then(o, x) \in Stack /\ x \o y \in Stack
         /\ Head(Then(o, x)) = o /\ Tail(Then(o, x)) = x /\ Then(o, x) # <<>>
         /\ Then(o, x) \o y = Then(o, x \o y) /\ <<>> \o x = x /\ x \o <<>> = x
<1>1. Then(o, x) \o y = Then(o, x \o y)
  BY ThenOthers DEF Stack
<1> QED BY <1>1, ThenFacts, Joins DEF Stack

LEMMA OneOp ==
  ASSUME NEW a \in Ops, NEW x \in Stack
  PROVE  <<a>> \o x = Then(a, x) /\ <<a>> = Then(a, <<>>) /\ <<a>> \in Stack
  BY DEF Then, Stack

LEMMA TwoOps ==
  ASSUME NEW a \in Ops, NEW b \in Ops, NEW x \in Stack
  PROVE  <<a, b>> \o x = Then(a, Then(b, x)) /\ <<a, b>> \in Stack
<1>1. <<a, b>> = <<a>> \o <<b>>
  BY Appended
<1>2. <<a>> \in Stack /\ <<b>> \in Stack /\ <<a, b>> \in Stack
  BY DEF Stack
<1>3. (<<a>> \o <<b>>) \o x = <<a>> \o (<<b>> \o x)
  BY <1>2, Joins DEF Stack
<1> QED BY <1>1, <1>2, <1>3 DEF Then

LEMMA ThreeOps ==
  ASSUME NEW a \in Ops, NEW b \in Ops, NEW c \in Ops, NEW x \in Stack
  PROVE  <<a, b, c>> \o x = Then(a, Then(b, Then(c, x))) /\ <<a, b, c>> \in Stack
<1>1. <<a, b, c>> = <<a, b>> \o <<c>>
  BY Appended
<1>2. <<a, b>> \in Stack /\ <<c>> \in Stack /\ <<a, b, c>> \in Stack
  BY DEF Stack
<1>3. (<<a, b>> \o <<c>>) \o x = <<a, b>> \o (<<c>> \o x)
  BY <1>2, Joins DEF Stack
<1>4. <<c>> \o x = Then(c, x)
  BY OneOp
<1>5. PICK y \in Stack : y = Then(c, x)
  BY Stacks
<1>6. <<a, b>> \o y = Then(a, Then(b, y))
  BY TwoOps
<1>7. <<a, b, c>> \o x = <<a, b>> \o y
  BY <1>1, <1>3, <1>4, <1>5
<1> QED BY <1>2, <1>5, <1>6, <1>7

LEMMA FourOps ==
  ASSUME NEW a \in Ops, NEW b \in Ops, NEW c \in Ops, NEW d \in Ops, NEW x \in Stack
  PROVE  /\ <<a, b, c, d>> \o x = Then(a, Then(b, Then(c, Then(d, x))))
         /\ <<a, b, c, d>> \in Stack
<1>1. <<a, b, c, d>> = <<a, b>> \o <<c, d>>
  <2>1. \A s \in Seq(Ops) : \A e \in Ops : Append(s, e) = s \o <<e>>
    OBVIOUS
  <2>2. /\ <<a, b>> \in Seq(Ops) /\ <<c>> \in Seq(Ops) /\ <<d>> \in Seq(Ops)
        /\ <<a, b, c>> \in Seq(Ops)
    OBVIOUS
  <2>3. <<a, b, c, d>> = Append(<<a, b, c>>, d)
    OBVIOUS
  <2>4. (<<a, b>> \o <<c>>) \o <<d>> = <<a, b>> \o (<<c>> \o <<d>>)
    BY <2>2, Joins
  <2>5. <<a, b, c>> = <<a, b>> \o <<c>> /\ <<c, d>> = <<c>> \o <<d>>
    <3>1. <<a, b, c>> = <<a, b>> \o <<c>>
      BY Appended
    <3>2. <<c, d>> = <<c>> \o <<d>>
      BY Appended
    <3> QED BY <3>1, <3>2
  <2> QED BY <2>1, <2>2, <2>3, <2>4, <2>5
<1>2. <<a, b>> \in Stack /\ <<c, d>> \in Stack /\ <<a, b, c, d>> \in Stack
  BY DEF Stack
<1>3. (<<a, b>> \o <<c, d>>) \o x = <<a, b>> \o (<<c, d>> \o x)
  BY <1>2, Joins DEF Stack
<1>4. PICK y \in Stack : y = Then(c, Then(d, x))
  BY Stacks
<1>5. <<c, d>> \o x = y
  BY <1>4, TwoOps
<1>6. <<a, b>> \o y = Then(a, Then(b, y))
  BY TwoOps
<1> QED BY <1>1, <1>2, <1>3, <1>4, <1>5, <1>6

(* The operations of the code, by their names. *)
LEMMA OpTypes ==
  /\ \A name \in PlainOps : Op(name) \in Ops /\ Op(name).op = name
  /\ \A name \in TextOps : \A s \in Texts :
       OpOf(name, s) \in Ops /\ OpOf(name, s).op = name /\ OpOf(name, s).arg = s
  /\ \A s \in Texts \ {<<>>} :
       OpOf("full?", s) \in Ops /\ OpOf("full?", s).op = "full?" /\ OpOf("full?", s).arg = s
  /\ \A name \in LetterOps : \A c \in Letters :
       OpOf(name, c) \in Ops /\ OpOf(name, c).op = name /\ OpOf(name, c).arg = c
<1>1. ASSUME NEW name \in PlainOps PROVE Op(name) \in Ops /\ Op(name).op = name
  BY DEF Op, Ops
<1>2. ASSUME NEW name \in TextOps, NEW s \in Texts
      PROVE  OpOf(name, s) \in Ops /\ OpOf(name, s).op = name /\ OpOf(name, s).arg = s
  BY DEF OpOf, Ops
<1>3. ASSUME NEW name \in LetterOps, NEW c \in Letters
      PROVE  OpOf(name, c) \in Ops /\ OpOf(name, c).op = name /\ OpOf(name, c).arg = c
  BY DEF OpOf, Ops
<1>4. ASSUME NEW s \in Texts \ {<<>>}
      PROVE  OpOf("full?", s) \in Ops /\ OpOf("full?", s).op = "full?" /\ OpOf("full?", s).arg = s
  BY DEF OpOf, Ops
<1> QED BY <1>1, <1>2, <1>3, <1>4

(* The operations of the screen that have no argument.                     *)
LEMMA ScreenTypes ==
  /\ Op("erase cursor") \in Ops /\ Op("erase cursor").op = "erase cursor"
  /\ Op("backspace") \in Ops /\ Op("backspace").op = "backspace"
  /\ Op("newline") \in Ops /\ Op("newline").op = "newline"
  /\ Op("end?") \in Ops /\ Op("end?").op = "end?"
  /\ Op("col=0") \in Ops /\ Op("col=0").op = "col=0"
  /\ Op("row++") \in Ops /\ Op("row++").op = "row++"
  /\ Op("bottom?") \in Ops /\ Op("bottom?").op = "bottom?"
  /\ Op("scroll") \in Ops /\ Op("scroll").op = "scroll"
  /\ Op("last row") \in Ops /\ Op("last row").op = "last row"
<1>1. {"erase cursor", "backspace", "newline", "end?", "col=0", "row++", "bottom?",
       "scroll", "last row"} \subseteq PlainOps
  BY DEF PlainOps, VgaOps, LetterOps
<1>2. \A name \in PlainOps : Op(name) \in Ops /\ Op(name).op = name
  BY OpTypes
<1> QED BY <1>1, <1>2

LEMMA OpFields ==
  ASSUME NEW o \in Ops
  PROVE  /\ o.op \in TextOps \/ o.op = "full?" \/ o.op \in LetterOps \/ o.op \in PlainOps
         /\ o.op \in TextOps => o.arg \in Texts
         /\ o.op = "full?" => o.arg \in Texts /\ o.arg # <<>>
         /\ o.op \in LetterOps => o.arg \in Letters
  BY DEF Ops, TextOps, LetterOps, PlainOps, IrqOps, VgaOps, SerialOps

LEMMA TextFacts ==
  ASSUME NEW s \in Texts
  PROVE  s # <<>> => Head(s) \in Letters /\ Tail(s) \in Texts
  BY DEF Texts

LEMMA LetterFacts ==
  /\ LF \in Letters /\ "e" \in Letters /\ "k" \in Letters
  /\ SPACE \in Letters /\ NUL \in Letters
  /\ <<LF>> \in Texts /\ <<"e">> \in Texts /\ <<"k">> \in Texts
  /\ Strings \subseteq Texts /\ KeyStrings \subseteq Texts
<1>1. Chars \subseteq Letters
  BY DEF Letters
<1>2. Seq(Chars) \subseteq Texts
  BY <1>1 DEF Texts
<1>3. LF \in Letters /\ "e" \in Letters /\ "k" \in Letters /\ SPACE \in Letters /\ NUL \in Letters
  BY DEF Letters
<1> QED BY <1>2, <1>3, ConsoleAssumption DEF Texts

-----------------------------------------------------------------------------
(***************************************************************************)
(* What each call puts before the operations x that are still to do.       *)
(***************************************************************************)
STI == Op("sti if enabled")
PREV == Op("prev=curr")
DIS == Op("curr=DISABLED")
ENA == Op("curr=ENABLED")
CLI == Op("cli")
REEN == Op("enable if was")

LEMMA IrqCode ==
  ASSUME NEW x \in Stack
  PROVE  /\ IRQ_disable \o x = Then(STI, Then(PREV, Then(DIS, x)))
         /\ IRQ_enable \o x = Then(PREV, Then(ENA, Then(CLI, x)))
         /\ IRQ_reenable \o x = Then(REEN, x)
         /\ IRQ_disable \in Stack /\ IRQ_enable \in Stack /\ IRQ_reenable \in Stack
<1>1. STI \in Ops /\ PREV \in Ops /\ DIS \in Ops /\ ENA \in Ops /\ CLI \in Ops /\ REEN \in Ops
  BY OpTypes DEF PlainOps, IrqOps, STI, PREV, DIS, ENA, CLI, REEN
<1>2. /\ IRQ_disable = <<STI, PREV, DIS>> /\ IRQ_enable = <<PREV, ENA, CLI>>
      /\ IRQ_reenable = <<REEN>>
  BY DEF IRQ_disable, IRQ_enable, IRQ_reenable, STI, PREV, DIS, ENA, CLI, REEN
<1> HIDE DEF STI, PREV, DIS, ENA, CLI, REEN
<1>3. IRQ_disable \o x = Then(STI, Then(PREV, Then(DIS, x))) /\ IRQ_disable \in Stack
  BY <1>1, <1>2, ThreeOps
<1>4. IRQ_enable \o x = Then(PREV, Then(ENA, Then(CLI, x))) /\ IRQ_enable \in Stack
  BY <1>1, <1>2, ThreeOps
<1>5. IRQ_reenable \o x = Then(REEN, x) /\ IRQ_reenable \in Stack
  BY <1>1, <1>2, OneOp
<1> QED BY <1>3, <1>4, <1>5

Disabling(x) == Then(STI, Then(PREV, Then(DIS, x)))
Enabling(x) == Then(PREV, Then(ENA, Then(CLI, x)))

Showing(c, x) ==
  Disabling(IF c = ESC THEN Then(OpOf("display", <<"e">>), x)
            ELSE IF c = BS THEN Then(Op("backspace"), Then(Op("end?"), Then(REEN, x)))
            ELSE IF c = LF THEN Then(Op("newline"), Then(Op("end?"), Then(REEN, x)))
            ELSE Then(OpOf("store", c), Then(OpOf("move", c), Then(Op("end?"), Then(REEN, x)))))

LineEnding(x) == Then(Op("col=0"), Then(Op("row++"), Then(Op("bottom?"), x)))
Scrolling(x) == Then(Op("scroll"), Then(Op("last row"), x))

Displaying(s, x) == Then(Op("erase cursor"), Then(OpOf("chars", s), x))

Adding(s, x) ==
  Then(OpOf("produce", Head(s)),
    Then(Op("++count"), Then(Op("wrap prod"), Then(Op("first?"),
      Then(REEN, Then(OpOf("serial", Tail(s)), x))))))

Taking(d, x) ==
  Then(Op("--count"), Then(Op("wrap cons"), Then(Op("stop if empty"),
    Then(REEN, Then(OpOf("outb", d), x)))))

After(m, o, x) ==
  CASE o.op = "enable if was" -> IF m.prev /\ ~m.curr THEN Enabling(x) ELSE x
    [] o.op = "display" -> Displaying(o.arg, x)
    [] o.op = "chars"   -> IF o.arg = <<>> THEN x
                           ELSE Showing(Head(o.arg), Then(OpOf("chars", Tail(o.arg)), x))
    [] o.op = "serial"  -> IF o.arg = <<>> THEN x ELSE Disabling(Then(OpOf("full?", o.arg), x))
    [] o.op = "full?"   -> IF m.count = BuffSize THEN Then(REEN, x) ELSE Adding(o.arg, x)
    [] o.op = "first?"  -> IF m.count # 1 THEN x
                           ELSE IF m.idle THEN Then(Op("idle=false"), Then(Op("empty?"), x))
                           ELSE Then(Op("hw empty?"), x)
    [] o.op = "empty?"  -> IF m.count = 0 THEN x ELSE Disabling(Then(Op("consume"), x))
    [] o.op = "consume" -> IF m.cons < BuffSize THEN Taking(m.buff[m.cons], x) ELSE x
    [] o.op = "end?"    -> IF m.col < Cols THEN x ELSE LineEnding(x)
    [] o.op = "bottom?" -> IF m.row < Rows THEN x ELSE Scrolling(x)
    [] OTHER -> x

LEMMA ShowingCode ==
  ASSUME NEW c \in Letters, NEW x \in Stack
  PROVE  VGA_display_attr_char(c) \o x = Showing(c, x) /\ VGA_display_attr_char(c) \in Stack
<1>1. PICK bs, nl, wr, show, st, mv :
        /\ bs = Op("backspace") /\ nl = Op("newline") /\ wr = Op("end?")
        /\ show = OpOf("display", <<"e">>) /\ st = OpOf("store", c) /\ mv = OpOf("move", c)
  OBVIOUS
<1>2. bs \in Ops /\ nl \in Ops /\ wr \in Ops
  BY <1>1, ScreenTypes
<1>3. show \in Ops /\ st \in Ops /\ mv \in Ops
  BY <1>1, OpTypes, LetterFacts DEF TextOps, LetterOps
<1>4. REEN \in Ops /\ IRQ_reenable = <<REEN>>
  BY OpTypes DEF PlainOps, IrqOps, REEN, IRQ_reenable
<1>5. Then(REEN, x) \in Stack
  BY <1>4, Stacks
<1>6. ASSUME NEW r \in Stack, NEW y, VGA_display_attr_char(c) = IRQ_disable \o r, r \o x = y
      PROVE  VGA_display_attr_char(c) \o x = Disabling(y) /\ VGA_display_attr_char(c) \in Stack
  <2>1. IRQ_disable \in Stack /\ r \o x \in Stack /\ IRQ_disable \o r \in Stack
    BY IrqCode, Stacks, <1>2
  <2>2. (IRQ_disable \o r) \o x = IRQ_disable \o (r \o x)
    BY <2>1, Joins DEF Stack
  <2>3. IRQ_disable \o (r \o x) = Disabling(r \o x)
    BY <2>1, IrqCode DEF Disabling
  <2> QED BY <1>6, <2>1, <2>2, <2>3
<1>7. CASE c = ESC
  <2>1. <<show>> \in Stack /\ <<show>> \o x = Then(show, x)
    BY <1>3, OneOp
  <2>2. VGA_display_attr_char(c) = IRQ_disable \o <<show>>
    BY <1>1, <1>7 DEF VGA_display_attr_char
  <2> QED BY <1>1, <1>6, <1>7, <2>1, <2>2 DEF Showing
<1>8. ASSUME NEW a \in Ops
      PROVE  /\ <<a, wr>> \o IRQ_reenable \in Stack
             /\ (<<a, wr>> \o IRQ_reenable) \o x = Then(a, Then(wr, Then(REEN, x)))
  <2>1. <<a, wr>> \in Stack /\ <<REEN>> \in Stack /\ <<REEN>> \o x = Then(REEN, x)
    BY <1>2, <1>4, OneOp, TwoOps
  <2>2. (<<a, wr>> \o <<REEN>>) \o x = <<a, wr>> \o (<<REEN>> \o x)
    BY <2>1, Joins DEF Stack
  <2>3. <<a, wr>> \o Then(REEN, x) = Then(a, Then(wr, Then(REEN, x)))
    BY <1>2, <1>5, TwoOps
  <2>4. <<a, wr>> \o <<REEN>> \in Stack
    BY <2>1, Joins DEF Stack
  <2> QED BY <1>4, <2>1, <2>2, <2>3, <2>4
<1>9. CASE c # ESC /\ c = BS
  <2>1. VGA_display_attr_char(c) = IRQ_disable \o (<<bs, wr>> \o IRQ_reenable)
    BY <1>1, <1>9 DEF VGA_display_attr_char, BS, ESC
  <2>2. Showing(c, x) = Disabling(Then(bs, Then(wr, Then(REEN, x))))
    BY <1>1, <1>9 DEF Showing, BS, ESC
  <2> QED BY <1>2, <1>6, <1>8, <2>1, <2>2
<1>10. CASE c # ESC /\ c # BS /\ c = LF
  <2>1. VGA_display_attr_char(c) = IRQ_disable \o (<<nl, wr>> \o IRQ_reenable)
    BY <1>1, <1>10 DEF VGA_display_attr_char, LF, BS, ESC
  <2>2. Showing(c, x) = Disabling(Then(nl, Then(wr, Then(REEN, x))))
    BY <1>1, <1>10 DEF Showing, LF, BS, ESC
  <2> QED BY <1>2, <1>6, <1>8, <2>1, <2>2
<1>11. CASE c # ESC /\ c # BS /\ c # LF
  <2>1. <<st, mv, wr>> \in Stack /\ <<REEN>> \in Stack /\ <<REEN>> \o x = Then(REEN, x)
    BY <1>2, <1>3, <1>4, OneOp, ThreeOps
  <2>2. (<<st, mv, wr>> \o <<REEN>>) \o x = <<st, mv, wr>> \o (<<REEN>> \o x)
    BY <2>1, Joins DEF Stack
  <2>3. <<st, mv, wr>> \o Then(REEN, x) = Then(st, Then(mv, Then(wr, Then(REEN, x))))
    BY <1>2, <1>3, <1>5, ThreeOps
  <2>4. <<st, mv, wr>> \o <<REEN>> \in Stack
    BY <2>1, Joins DEF Stack
  <2>5. VGA_display_attr_char(c) = IRQ_disable \o (<<st, mv, wr>> \o <<REEN>>)
    BY <1>1, <1>4, <1>11 DEF VGA_display_attr_char
  <2>6. Showing(c, x) = Disabling(Then(st, Then(mv, Then(wr, Then(REEN, x)))))
    BY <1>1, <1>11 DEF Showing
  <2> QED BY <1>6, <2>1, <2>2, <2>3, <2>4, <2>5, <2>6
<1> QED BY <1>7, <1>9, <1>10, <1>11

LEMMA DisplayingCode ==
  ASSUME NEW s \in Texts, NEW x \in Stack
  PROVE  /\ VGA_display_str(s) \o x = Displaying(s, x) /\ VGA_display_str(s) \in Stack
         /\ VGA_display_chars(s) \o x =
              IF s = <<>> THEN x ELSE Showing(Head(s), Then(OpOf("chars", Tail(s)), x))
<1>1. PICK er, ch : er = Op("erase cursor") /\ ch = OpOf("chars", s)
  OBVIOUS
<1>2. er \in Ops /\ ch \in Ops
  <2>1. er \in Ops
    BY <1>1, ScreenTypes
  <2>2. ch \in Ops
    BY <1>1, OpTypes DEF TextOps
  <2> QED BY <2>1, <2>2
<1>3. VGA_display_str(s) \o x = Displaying(s, x) /\ VGA_display_str(s) \in Stack
  <2>1. VGA_display_str(s) = <<er, ch>>
    BY <1>1 DEF VGA_display_str
  <2>2. <<er, ch>> \o x = Then(er, Then(ch, x)) /\ <<er, ch>> \in Stack
    BY <1>2, TwoOps
  <2> QED BY <1>1, <2>1, <2>2 DEF Displaying
<1>4. CASE s = <<>>
  BY <1>3, <1>4, Joins DEF VGA_display_chars, Stack
<1>5. CASE s # <<>>
  <2>1. Head(s) \in Letters /\ Tail(s) \in Texts
    BY <1>5, TextFacts
  <2>2. PICK c, t, o : c = Head(s) /\ t = Tail(s) /\ o = OpOf("chars", t)
    OBVIOUS
  <2>3. o \in Ops
    BY <2>1, <2>2, OpTypes DEF TextOps
  <2>4. <<o>> \in Stack /\ <<o>> \o x = Then(o, x) /\ Then(o, x) \in Stack
    BY <2>3, OneOp, Stacks
  <2>5. /\ VGA_display_attr_char(c) \o Then(o, x) = Showing(c, Then(o, x))
        /\ VGA_display_attr_char(c) \in Stack
    BY <2>1, <2>2, <2>4, ShowingCode
  <2>6. (VGA_display_attr_char(c) \o <<o>>) \o x = VGA_display_attr_char(c) \o (<<o>> \o x)
    BY <2>4, <2>5, Joins DEF Stack
  <2>7. VGA_display_chars(s) = VGA_display_attr_char(c) \o <<o>>
    BY <1>5, <2>2 DEF VGA_display_chars
  <2> QED BY <1>3, <1>5, <2>2, <2>4, <2>5, <2>6, <2>7
<1> QED BY <1>3, <1>4, <1>5

LEMMA SerialWriteCode ==
  ASSUME NEW s \in Texts, NEW x \in Stack
  PROVE  serial_write(s) \o x = IF s = <<>> THEN x ELSE Disabling(Then(OpOf("full?", s), x))
<1>1. CASE s = <<>>
  BY <1>1, Joins DEF serial_write, Stack
<1>2. CASE s # <<>>
  <2>1. PICK o : o = OpOf("full?", s)
    OBVIOUS
  <2>2. o \in Ops
    BY <1>2, <2>1, OpTypes
  <2>3. <<o>> \in Stack /\ <<o>> \o x = Then(o, x) /\ Then(o, x) \in Stack
    BY <2>2, OneOp, Stacks
  <2>4. IRQ_disable \o Then(o, x) = Disabling(Then(o, x)) /\ IRQ_disable \in Stack
    BY <2>3, IrqCode DEF Disabling
  <2>5. (IRQ_disable \o <<o>>) \o x = IRQ_disable \o (<<o>> \o x)
    BY <2>3, <2>4, Joins DEF Stack
  <2> QED BY <1>2, <2>1, <2>3, <2>4, <2>5 DEF serial_write
<1> QED BY <1>1, <1>2

LEMMA AddingCode ==
  ASSUME NEW m, NEW s \in Texts, s # <<>>, NEW x \in Stack
  PROVE  prod_add(m, s) \o x = IF m.count = BuffSize THEN Then(REEN, x) ELSE Adding(s, x)
<1>1. CASE m.count = BuffSize
  BY <1>1, IrqCode DEF prod_add
<1>2. CASE m.count # BuffSize
  <2>1. PICK a, b, w, c, d :
          /\ a = OpOf("produce", Head(s)) /\ b = Op("++count") /\ w = Op("wrap prod")
          /\ c = Op("first?") /\ d = OpOf("serial", Tail(s))
    OBVIOUS
  <2>2. a \in Ops /\ b \in Ops /\ w \in Ops /\ c \in Ops /\ d \in Ops /\ REEN \in Ops
    <3>1. a \in Ops /\ d \in Ops
      BY <2>1, TextFacts, OpTypes DEF TextOps, LetterOps
    <3>2. b \in Ops /\ w \in Ops /\ c \in Ops /\ REEN \in Ops
      BY <2>1, OpTypes DEF PlainOps, SerialOps, LetterOps, IrqOps, REEN
    <3> QED BY <3>1, <3>2
  <2>3. /\ <<d>> \in Stack /\ <<d>> \o x = Then(d, x)
        /\ <<REEN>> \in Stack /\ IRQ_reenable = <<REEN>>
    BY <2>2, OneOp DEF IRQ_reenable, REEN
  <2>4. Then(d, x) \in Stack /\ Then(REEN, Then(d, x)) \in Stack
    BY <2>2, Stacks
  <2>5. <<REEN>> \o Then(d, x) = Then(REEN, Then(d, x))
    BY <2>2, <2>4, OneOp
  <2>6. /\ <<a, b, w, c>> \in Stack
        /\ <<a, b, w, c>> \o Then(REEN, Then(d, x)) =
             Then(a, Then(b, Then(w, Then(c, Then(REEN, Then(d, x))))))
    BY <2>2, <2>4, FourOps
  <2>7. ((<<a, b, w, c>> \o <<REEN>>) \o <<d>>) \o x = <<a, b, w, c>> \o (<<REEN>> \o (<<d>> \o x))
    <3>1. <<a, b, w, c>> \o <<REEN>> \in Stack /\ <<d>> \o x \in Stack
      BY <2>3, <2>4, <2>6, Joins DEF Stack
    <3>2. ((<<a, b, w, c>> \o <<REEN>>) \o <<d>>) \o x = (<<a, b, w, c>> \o <<REEN>>) \o (<<d>> \o x)
      BY <2>3, <3>1, Joins DEF Stack
    <3>3. (<<a, b, w, c>> \o <<REEN>>) \o (<<d>> \o x) = <<a, b, w, c>> \o (<<REEN>> \o (<<d>> \o x))
      BY <2>3, <2>6, <3>1, Joins DEF Stack
    <3> QED BY <3>2, <3>3
  <2>8. prod_add(m, s) = (<<a, b, w, c>> \o <<REEN>>) \o <<d>>
    BY <1>2, <2>1, <2>3 DEF prod_add
  <2>9. Adding(s, x) = Then(a, Then(b, Then(w, Then(c, Then(REEN, Then(d, x))))))
    BY <2>1 DEF Adding
  <2> QED BY <1>2, <2>3, <2>5, <2>6, <2>7, <2>8, <2>9
<1> QED BY <1>1, <1>2

LEMMA TakingCode ==
  ASSUME NEW d \in Letters, NEW x \in Stack
  PROVE  Consumed(d) \o x = Taking(d, x)
<1>1. PICK a, w, b, o : /\ a = Op("--count") /\ w = Op("wrap cons")
                       /\ b = Op("stop if empty") /\ o = OpOf("outb", d)
  OBVIOUS
<1>2. a \in Ops /\ w \in Ops /\ b \in Ops /\ o \in Ops /\ REEN \in Ops
  <2>1. a \in Ops /\ w \in Ops /\ b \in Ops /\ REEN \in Ops
    BY <1>1, OpTypes DEF PlainOps, SerialOps, LetterOps, IrqOps, REEN
  <2>2. o \in Ops
    BY <1>1, OpTypes DEF LetterOps
  <2> QED BY <2>1, <2>2
<1>3. /\ <<o>> \in Stack /\ <<o>> \o x = Then(o, x)
      /\ <<REEN>> \in Stack /\ IRQ_reenable = <<REEN>>
  BY <1>2, OneOp DEF IRQ_reenable, REEN
<1>4. Then(o, x) \in Stack /\ Then(REEN, Then(o, x)) \in Stack
  BY <1>2, Stacks
<1>5. <<REEN>> \o Then(o, x) = Then(REEN, Then(o, x))
  BY <1>2, <1>4, OneOp
<1>6. /\ <<a, w, b>> \in Stack
      /\ <<a, w, b>> \o Then(REEN, Then(o, x)) = Then(a, Then(w, Then(b, Then(REEN, Then(o, x)))))
  BY <1>2, <1>4, ThreeOps
<1>7. ((<<a, w, b>> \o <<REEN>>) \o <<o>>) \o x = <<a, w, b>> \o (<<REEN>> \o (<<o>> \o x))
  <2>1. <<a, w, b>> \o <<REEN>> \in Stack /\ <<o>> \o x \in Stack
    BY <1>3, <1>4, <1>6, Joins DEF Stack
  <2>2. ((<<a, w, b>> \o <<REEN>>) \o <<o>>) \o x = (<<a, w, b>> \o <<REEN>>) \o (<<o>> \o x)
    BY <1>3, <2>1, Joins DEF Stack
  <2>3. (<<a, w, b>> \o <<REEN>>) \o (<<o>> \o x) = <<a, w, b>> \o (<<REEN>> \o (<<o>> \o x))
    BY <1>3, <1>6, <2>1, Joins DEF Stack
  <2> QED BY <2>2, <2>3
<1>8. Consumed(d) = (<<a, w, b>> \o <<REEN>>) \o <<o>>
  BY <1>1, <1>3 DEF Consumed
<1>9. Taking(d, x) = Then(a, Then(w, Then(b, Then(REEN, Then(o, x)))))
  BY <1>1 DEF Taking
<1> QED BY <1>3, <1>5, <1>6, <1>7, <1>8, <1>9

LEMMA WriteCode ==
  ASSUME NEW m, NEW x \in Stack
  PROVE  /\ hw_write(m) \o x =
              IF m.idle THEN Then(Op("idle=false"), Then(Op("empty?"), x))
              ELSE Then(Op("hw empty?"), x)
         /\ cons_get(m) \o x = IF m.count = 0 THEN x ELSE Disabling(Then(Op("consume"), x))
<1>1. PICK a, b, c, d : /\ a = Op("idle=false") /\ b = Op("empty?")
                        /\ c = Op("hw empty?") /\ d = Op("consume")
  OBVIOUS
<1>2. a \in Ops /\ b \in Ops /\ c \in Ops /\ d \in Ops
  BY <1>1, OpTypes DEF PlainOps, SerialOps, LetterOps
<1>3. <<a, b>> \o x = Then(a, Then(b, x)) /\ <<c>> \o x = Then(c, x)
  <2>1. <<a, b>> \o x = Then(a, Then(b, x))
    BY <1>2, TwoOps
  <2>2. <<c>> \o x = Then(c, x)
    BY <1>2, OneOp
  <2> QED BY <2>1, <2>2
<1>4. <<d>> \o x = Then(d, x) /\ <<d>> \in Stack /\ Then(d, x) \in Stack
  BY <1>2, OneOp, Stacks
<1>5. IRQ_disable \o Then(d, x) = Disabling(Then(d, x)) /\ IRQ_disable \in Stack
  BY <1>4, IrqCode DEF Disabling
<1>6. (IRQ_disable \o <<d>>) \o x = IRQ_disable \o (<<d>> \o x)
  BY <1>4, <1>5, Joins DEF Stack
<1>7. <<>> \o x = x
  BY Joins DEF Stack
<1>8. hw_write(m) = IF m.idle THEN <<a, b>> ELSE <<c>>
  BY <1>1 DEF hw_write
<1>9. cons_get(m) = IF m.count = 0 THEN <<>> ELSE IRQ_disable \o <<d>>
  BY <1>1 DEF cons_get
<1> QED BY <1>1, <1>3, <1>4, <1>5, <1>6, <1>7, <1>8, <1>9

LEMMA CallsCode ==
  ASSUME NEW m \in Mach, NEW o \in Ops, NEW x \in Stack
  PROVE  Calls(m, o) \o x = After(m, o, x)
<1>1. <<>> \o x = x
  BY Joins DEF Stack
<1>2. CASE o.op \in IrqOps
  <2>1. Calls(m, o) = IrqCalls(m, o)
    BY <1>2 DEF Calls, IrqOps
  <2>2. IRQ_enable \o x = Enabling(x)
    BY IrqCode DEF Enabling
  <2> QED BY <1>1, <1>2, <2>1, <2>2 DEF IrqCalls, After, IrqOps
<1>3. CASE o.op = "display"
  <2>1. Calls(m, o) = VGA_display_str(o.arg) /\ After(m, o, x) = Displaying(o.arg, x)
    BY <1>3 DEF Calls, IrqOps, After
  <2> QED BY <1>3, <2>1, OpFields, DisplayingCode DEF TextOps
<1>4. CASE o.op = "chars"
  <2>1. /\ Calls(m, o) = VGA_display_chars(o.arg)
        /\ After(m, o, x) = IF o.arg = <<>> THEN x
                            ELSE Showing(Head(o.arg), Then(OpOf("chars", Tail(o.arg)), x))
    BY <1>4 DEF Calls, IrqOps, After
  <2> QED BY <1>4, <2>1, OpFields, DisplayingCode DEF TextOps
<1>5. CASE o.op = "serial"
  <2>1. /\ Calls(m, o) = serial_write(o.arg)
        /\ After(m, o, x) = IF o.arg = <<>> THEN x ELSE Disabling(Then(OpOf("full?", o.arg), x))
    BY <1>5 DEF Calls, IrqOps, After
  <2> QED BY <1>5, <2>1, OpFields, SerialWriteCode DEF TextOps
<1>6. CASE o.op = "full?"
  <2>1. /\ Calls(m, o) = prod_add(m, o.arg)
        /\ After(m, o, x) = IF m.count = BuffSize THEN Then(REEN, x) ELSE Adding(o.arg, x)
    BY <1>6 DEF Calls, IrqOps, After
  <2> QED BY <1>6, <2>1, OpFields, AddingCode
<1>7. CASE o.op = "first?"
  <2>1. /\ Calls(m, o) = IF m.count = 1 THEN hw_write(m) ELSE <<>>
        /\ After(m, o, x) = IF m.count # 1 THEN x
                            ELSE IF m.idle THEN Then(Op("idle=false"), Then(Op("empty?"), x))
                            ELSE Then(Op("hw empty?"), x)
    BY <1>7 DEF Calls, IrqOps, After
  <2> QED BY <1>1, <2>1, WriteCode
<1>8. CASE o.op = "empty?"
  <2>1. /\ Calls(m, o) = cons_get(m)
        /\ After(m, o, x) = IF m.count = 0 THEN x ELSE Disabling(Then(Op("consume"), x))
    BY <1>8 DEF Calls, IrqOps, After
  <2> QED BY <2>1, WriteCode
<1>9. CASE o.op = "consume"
  <2>1. m.cons \in DOMAIN m.buff <=> m.cons < BuffSize
    BY ConsoleAssumption DEF Mach
  <2>2. /\ Calls(m, o) = IF m.cons < BuffSize THEN Consumed(m.buff[m.cons]) ELSE <<>>
        /\ After(m, o, x) = IF m.cons < BuffSize THEN Taking(m.buff[m.cons], x) ELSE x
    BY <1>9, <2>1 DEF Calls, IrqOps, After
  <2>3. m.cons < BuffSize => m.buff[m.cons] \in Letters
    BY ConsoleAssumption DEF Mach
  <2>4. CASE m.cons < BuffSize
    <3>1. PICK d \in Letters : d = m.buff[m.cons]
      BY <2>3, <2>4
    <3>2. Consumed(d) \o x = Taking(d, x)
      BY <3>1, TakingCode
    <3> QED BY <2>2, <2>4, <3>1, <3>2
  <2>5. CASE ~(m.cons < BuffSize)
    BY <1>1, <2>2, <2>5
  <2> QED BY <2>4, <2>5
<1>10. CASE o.op = "end?"
  <2>1. /\ Calls(m, o) = LineEnd(m)
        /\ After(m, o, x) = IF m.col < Cols THEN x ELSE LineEnding(x)
    BY <1>10 DEF Calls, IrqOps, After
  <2>2. <<Op("col=0"), Op("row++"), Op("bottom?")>> \o x = LineEnding(x)
    <3>1. PICK a, b, c : a = Op("col=0") /\ b = Op("row++") /\ c = Op("bottom?")
      OBVIOUS
    <3>2. a \in Ops /\ b \in Ops /\ c \in Ops
      BY <3>1, ScreenTypes
    <3>3. <<a, b, c>> \o x = Then(a, Then(b, Then(c, x)))
      BY <3>2, ThreeOps
    <3> QED BY <3>1, <3>3 DEF LineEnding
  <2> QED BY <1>1, <2>1, <2>2 DEF LineEnd
<1>11. CASE o.op = "bottom?"
  <2>1. /\ Calls(m, o) = ScreenEnd(m)
        /\ After(m, o, x) = IF m.row < Rows THEN x ELSE Scrolling(x)
    BY <1>11 DEF Calls, IrqOps, After
  <2>2. <<Op("scroll"), Op("last row")>> \o x = Scrolling(x)
    BY ScreenTypes, TwoOps DEF Scrolling
  <2> QED BY <1>1, <2>1, <2>2 DEF ScreenEnd
<1>12. CASE o.op \notin IrqOps \cup {"display", "chars", "end?", "bottom?", "serial", "full?",
                                   "first?", "empty?", "consume"}
  <2>1. Calls(m, o) = <<>>
    BY <1>12 DEF Calls
  <2>2. After(m, o, x) = x
    BY <1>12 DEF After, IrqOps
  <2> QED BY <1>1, <2>1, <2>2
<1> QED BY <1>2, <1>3, <1>4, <1>5, <1>6, <1>7, <1>8, <1>9, <1>10, <1>11, <1>12

-----------------------------------------------------------------------------
(***************************************************************************)
(* What every operation of a stack says of those behind it, and the first  *)
(* operation of a kind.                                                    *)
(***************************************************************************)
Linked(x, R) == \A i \in 1..Len(x) : <<x[i], SubSeq(x, i + 1, Len(x))>> \in R

Nothing == Op("none")

Places(x, N) == {i \in 1..Len(x) : x[i].op \in N}
FirstIn(x, N) ==
  IF Places(x, N) = {} THEN Nothing
  ELSE x[CHOOSE i \in Places(x, N) : \A j \in Places(x, N) : i <= j]

LEMMA ThenPlaces ==
  ASSUME NEW o \in Ops, NEW x \in Stack
  PROVE  /\ Len(Then(o, x)) = Len(x) + 1 /\ Len(x) \in Nat
         /\ Then(o, x)[1] = o /\ \A i \in 1..Len(x) : Then(o, x)[i + 1] = x[i]
         /\ SubSeq(Then(o, x), 2, Len(x) + 1) = x
         /\ \A i \in 1..Len(x) :
              SubSeq(Then(o, x), i + 2, Len(x) + 1) = SubSeq(x, i + 1, Len(x))
<1>1. /\ Len(Then(o, x)) = Len(x) + 1 /\ Len(x) \in Nat /\ Then(o, x) \in Stack
      /\ Then(o, x)[1] = o /\ \A i \in 1..Len(x) : Then(o, x)[i + 1] = x[i]
  BY DEF Then, Stack
<1>2. SubSeq(Then(o, x), 2, Len(x) + 1) = x
  BY <1>1 DEF Stack
<1>3. ASSUME NEW i \in 1..Len(x)
      PROVE  SubSeq(Then(o, x), i + 2, Len(x) + 1) = SubSeq(x, i + 1, Len(x))
  BY <1>1 DEF Stack
<1> QED BY <1>1, <1>2, <1>3

LEMMA LinkedThen ==
  ASSUME NEW o \in Ops, NEW x \in Stack, NEW R
  PROVE  /\ Linked(<<>>, R)
         /\ Linked(Then(o, x), R) <=> <<o, x>> \in R /\ Linked(x, R)
<1>1. Linked(<<>>, R)
  BY DEF Linked
<1>2. /\ Len(Then(o, x)) = Len(x) + 1 /\ Len(x) \in Nat /\ Then(o, x)[1] = o
      /\ SubSeq(Then(o, x), 1 + 1, Len(x) + 1) = x
  BY ThenPlaces
<1>3. ASSUME NEW i \in 1..Len(x)
      PROVE  /\ Then(o, x)[i + 1] = x[i]
             /\ SubSeq(Then(o, x), (i + 1) + 1, Len(x) + 1) = SubSeq(x, i + 1, Len(x))
  <2>1. (i + 1) + 1 = i + 2
    BY <1>2
  <2> QED BY <2>1, ThenPlaces
<1>4. ASSUME Linked(Then(o, x), R) PROVE <<o, x>> \in R /\ Linked(x, R)
  <2>1. \A k \in 1..(Len(x) + 1) : <<Then(o, x)[k], SubSeq(Then(o, x), k + 1, Len(x) + 1)>> \in R
    BY <1>2, <1>4 DEF Linked
  <2>2. <<o, x>> \in R
    <3>1. 1 \in 1..(Len(x) + 1)
      BY <1>2
    <3> QED BY <1>2, <2>1, <3>1
  <2>3. ASSUME NEW i \in 1..Len(x) PROVE <<x[i], SubSeq(x, i + 1, Len(x))>> \in R
    <3>1. i + 1 \in 1..(Len(x) + 1)
      BY <1>2
    <3> QED BY <1>3, <2>1, <3>1
  <2> QED BY <2>2, <2>3 DEF Linked
<1>5. ASSUME <<o, x>> \in R, Linked(x, R) PROVE Linked(Then(o, x), R)
  <2>1. SUFFICES ASSUME NEW k \in 1..(Len(x) + 1)
                 PROVE  <<Then(o, x)[k], SubSeq(Then(o, x), k + 1, Len(x) + 1)>> \in R
    BY <1>2 DEF Linked
  <2>2. CASE k = 1
    BY <1>2, <1>5, <2>2
  <2>3. CASE k # 1
    <3>1. k - 1 \in 1..Len(x) /\ k = (k - 1) + 1
      BY <1>2, <2>3
    <3>2. PICK i \in 1..Len(x) : k = i + 1
      BY <3>1
    <3> QED BY <1>3, <1>5, <3>2 DEF Linked
  <2> QED BY <2>2, <2>3
<1> QED BY <1>1, <1>4, <1>5

LEMMA FirstThen ==
  ASSUME NEW o \in Ops, NEW x \in Stack, NEW N
  PROVE  /\ FirstIn(<<>>, N) = Nothing
         /\ o.op \in N => FirstIn(Then(o, x), N) = o
         /\ o.op \notin N => FirstIn(Then(o, x), N) = FirstIn(x, N)
<1> DEFINE P == Places(Then(o, x), N)
           Q == Places(x, N)
           First(S) == CHOOSE i \in S : \A j \in S : i <= j
<1>1. FirstIn(<<>>, N) = Nothing
  BY DEF FirstIn, Places
<1>2. /\ Len(Then(o, x)) = Len(x) + 1 /\ Len(x) \in Nat /\ Then(o, x)[1] = o
      /\ \A i \in 1..Len(x) : Then(o, x)[i + 1] = x[i]
  BY ThenPlaces
<1>3. \A i : i \in P <=> i \in 1..(Len(x) + 1) /\ Then(o, x)[i].op \in N
  BY <1>2 DEF Places
<1>4. \A i : i \in Q <=> i \in 1..Len(x) /\ x[i].op \in N
  BY DEF Places
<1>5. ASSUME o.op \in N PROVE FirstIn(Then(o, x), N) = o
  <2>1. 1 \in P /\ \A j \in P : 1 <= j
    BY <1>2, <1>3, <1>5
  <2>2. First(P) \in P /\ \A j \in P : First(P) <= j
    <3> HIDE DEF P
    <3> QED BY <2>1, Zenon
  <2>3. First(P) = 1
    BY <1>2, <1>3, <2>1, <2>2
  <2> QED BY <1>2, <2>1, <2>3 DEF FirstIn
<1>6. ASSUME o.op \notin N PROVE FirstIn(Then(o, x), N) = FirstIn(x, N)
  <2>1. \A i \in Q : i + 1 \in P
    BY <1>2, <1>3, <1>4
  <2>2. \A k \in P : k - 1 \in Q
    <3> TAKE k \in P
    <3>1. k \in 1..(Len(x) + 1) /\ Then(o, x)[k].op \in N
      BY <1>3
    <3>2. k # 1
      BY <1>2, <1>6, <3>1
    <3>3. k - 1 \in 1..Len(x) /\ k = (k - 1) + 1
      BY <1>2, <3>1, <3>2
    <3>4. PICK i \in 1..Len(x) : i = k - 1 /\ k = i + 1
      BY <3>3
    <3> QED BY <1>2, <1>4, <3>1, <3>4
  <2>3. CASE Q = {}
    <3>1. P = {}
      BY <2>2, <2>3
    <3> QED BY <2>3, <3>1 DEF FirstIn
  <2>4. CASE Q # {}
    <3>1. Q \in SUBSET Nat /\ P \in SUBSET Nat /\ P # {}
      BY <1>2, <1>3, <1>4, <2>1, <2>4
    <3>2. (\E i \in Q : \A j \in Q : i <= j) /\ (\E i \in P : \A j \in P : i <= j)
      <4> HIDE DEF P, Q
      <4> QED BY <2>4, <3>1, LeastElement
    <3>3. /\ First(Q) \in Q /\ \A j \in Q : First(Q) <= j
          /\ First(P) \in P /\ \A j \in P : First(P) <= j
      <4> HIDE DEF P, Q
      <4> QED BY <3>2, Zenon
    <3>4. PICK p, q : p = First(P) /\ q = First(Q)
      OBVIOUS
    <3>5. q + 1 \in P /\ p - 1 \in Q /\ p \in Nat /\ q \in Nat
      BY <2>1, <2>2, <3>1, <3>3, <3>4
    <3>6. p <= q + 1 /\ q <= p - 1
      BY <3>3, <3>4, <3>5
    <3>7. p = q + 1 /\ q \in 1..Len(x)
      BY <1>4, <3>3, <3>4, <3>5, <3>6
    <3>8. Then(o, x)[p] = x[q]
      BY <1>2, <3>7
    <3> QED BY <2>4, <3>1, <3>4, <3>8 DEF FirstIn
  <2> QED BY <2>3, <2>4
<1> QED BY <1>1, <1>5, <1>6

-----------------------------------------------------------------------------
(***************************************************************************)
(* What one operation does to the machine: it keeps its type, and acts on  *)
(* the flags, the screen or the FIFO alone.                                *)
(***************************************************************************)
Flags(m) == <<m.prev, m.curr, m.cpu>>
Screen(m) == <<m.row, m.col, m.cell, m.wild>>
Fifo(m) == <<m.buff, m.prod, m.cons, m.count, m.idle, m.taken, m.line, m.stray>>

LEMMA LargestElement ==
  ASSUME NEW n \in Int, NEW S \in SUBSET (1..n), S # {}
  PROVE  \E c \in S : \A d \in S : d <= c
<1> DEFINE T == {n - s : s \in S}
<1>1. T \in SUBSET Nat /\ T # {}
  <2>1. ASSUME NEW s \in S PROVE n - s \in Nat /\ n - s \in T
    OBVIOUS
  <2> QED BY <2>1
<1>2. PICK t \in T : \A u \in T : t <= u
  <2> HIDE DEF T
  <2> QED BY <1>1, LeastElement
<1>3. PICK c \in S : t = n - c
  OBVIOUS
<1>4. ASSUME NEW d \in S PROVE d <= c
  <2>1. n - d \in T
    OBVIOUS
  <2> QED BY <1>2, <1>3, <2>1
<1> QED BY <1>4

LEMMA Numbers ==
  Rows \in Nat /\ Rows > 0 /\ Cols \in Nat /\ Cols > 0 /\ BuffSize \in Nat /\ BuffSize > 0
  BY ConsoleAssumption

LEMMA NextPlaces ==
  /\ \A i \in 0..BuffSize : Wrap(i) \in 0..BuffSize
  /\ \A i \in Nat : TabStop(i) \in Nat
<1>1. ASSUME NEW i \in 0..BuffSize PROVE Wrap(i) \in 0..BuffSize
  BY ConsoleAssumption DEF Wrap
<1>2. ASSUME NEW i \in Nat PROVE TabStop(i) \in Nat
  BY ConsoleAssumption DEF TabStop
<1> QED BY <1>1, <1>2

LEMMA MachFields ==
  ASSUME NEW m \in Mach
  PROVE  /\ m.row \in Nat /\ m.col \in Nat /\ m.count \in Int
         /\ m.prod \in 0..BuffSize /\ m.cons \in 0..BuffSize
         /\ m.prod \in Nat /\ m.cons \in Nat /\ m.uart \in 0..UartSize
         /\ m.prev \in BOOLEAN /\ m.curr \in BOOLEAN /\ m.cpu \in BOOLEAN
         /\ m.idle \in BOOLEAN /\ m.wild \in BOOLEAN
         /\ m.stray \in BOOLEAN /\ m.taken \in Texts /\ m.line \in Texts
         /\ m.buff \in [0..(BuffSize - 1) -> Letters]
         /\ m.cons < BuffSize => m.buff[m.cons] \in Letters
<1>1. m.prod \in 0..BuffSize /\ m.cons \in 0..BuffSize
  BY DEF Mach
<1>2. m.prod \in Nat /\ m.cons \in Nat
  BY <1>1, Numbers
<1>3. m.buff \in [0..(BuffSize - 1) -> Letters]
  BY DEF Mach
<1>4. ASSUME m.cons < BuffSize PROVE m.buff[m.cons] \in Letters
  <2>1. m.cons \in 0..(BuffSize - 1)
    BY <1>2, <1>4, Numbers
  <2> QED BY <1>3, <2>1
<1> QED BY <1>1, <1>2, <1>3, <1>4 DEF Mach

Placing(m, row, col) == [m EXCEPT !.row = row, !.col = col]

LEMMA Placed ==
  ASSUME NEW m \in Mach, NEW row \in Nat, NEW col \in Nat
  PROVE  /\ Placing(m, row, col) \in Mach
         /\ Placing(m, row, col).row = row /\ Placing(m, row, col).col = col
         /\ Placing(m, row, col).wild = m.wild
         /\ Flags(Placing(m, row, col)) = Flags(m) /\ Fifo(Placing(m, row, col)) = Fifo(m)
  BY DEF Placing, Mach, Flags, Fifo

LEMMA PutTypes ==
  ASSUME NEW m \in Mach, NEW ch \in Letters
  PROVE  /\ Put(m, ch) \in Mach
         /\ Put(m, ch).row = m.row /\ Put(m, ch).col = m.col
         /\ Flags(Put(m, ch)) = Flags(m) /\ Fifo(Put(m, ch)) = Fifo(m)
         /\ Index(m) \in 0..(Rows * Cols - 1) => Put(m, ch).wild = m.wild
<1>1. m.cell \in [0..(Rows * Cols - 1) -> Letters] /\ DOMAIN m.cell = 0..(Rows * Cols - 1)
  BY DEF Mach
<1>2. CASE Index(m) \in DOMAIN m.cell
  <2>1. Put(m, ch) = [m EXCEPT !.cell = [m.cell EXCEPT ![Index(m)] = ch]]
    BY <1>2 DEF Put
  <2>2. PICK c : c = [m.cell EXCEPT ![Index(m)] = ch]
    OBVIOUS
  <2>3. c \in [0..(Rows * Cols - 1) -> Letters]
    BY <1>1, <1>2, <2>2
  <2>4. Put(m, ch) = [m EXCEPT !.cell = c]
    BY <2>1, <2>2
  <2> QED BY <2>3, <2>4 DEF Mach, Flags, Fifo
<1>3. CASE Index(m) \notin DOMAIN m.cell
  <2>1. Put(m, ch) = [m EXCEPT !.wild = TRUE]
    BY <1>3 DEF Put
  <2> QED BY <1>1, <1>3, <2>1 DEF Mach, Flags, Fifo
<1> QED BY <1>2, <1>3

LEMMA ScrolledTypes ==
  ASSUME NEW m \in Mach
  PROVE  /\ Scrolled(m) \in Mach /\ Scrolled(m).col = m.col /\ Scrolled(m).wild = m.wild
         /\ Flags(Scrolled(m)) = Flags(m) /\ Fifo(Scrolled(m)) = Fifo(m)
<1>1. m.cell \in [0..(Rows * Cols - 1) -> Letters] /\ DOMAIN m.cell = 0..(Rows * Cols - 1)
  BY DEF Mach
<1>2. PICK c : c = [i \in DOMAIN m.cell |-> IF i + Cols \in DOMAIN m.cell THEN m.cell[i + Cols] ELSE NUL]
  OBVIOUS
<1>3. c \in [0..(Rows * Cols - 1) -> Letters]
  BY <1>1, <1>2, LetterFacts
<1>4. PICK r : r = IF m.row > 1 THEN m.row - 1 ELSE 0
  OBVIOUS
<1>5. r \in Nat
  BY <1>4 DEF Mach
<1>6. Scrolled(m) = [m EXCEPT !.cell = c, !.row = r]
  BY <1>2, <1>4 DEF Scrolled
<1> QED BY <1>3, <1>5, <1>6 DEF Mach, Flags, Fifo

(* The cursor in the screen. *)
OnScreen(m) == m.row < Rows /\ m.col < Cols

LEMMA CellIndex ==
  ASSUME NEW row \in Nat, NEW col \in Nat, row < Rows, col < Cols
  PROVE  row * Cols + col \in 0..(Rows * Cols - 1)
<1>1. PICK r, c \in Nat : r = Rows /\ c = Cols
  BY Numbers
<1>2. PICK k \in Nat : r = row + 1 + k
  <2>1. r - row - 1 \in Nat /\ r = row + 1 + (r - row - 1)
    BY <1>1
  <2> QED BY <2>1
<1>3. k * c \in Nat /\ row * c \in Nat
  BY SMT
<1>4. r * c = row * c + c + k * c
  BY <1>2
<1> QED BY <1>1, <1>3, <1>4

LEMMA StoredTypes ==
  ASSUME NEW m \in Mach, NEW c \in Letters
  PROVE  /\ Stored(m, c) \in Mach
         /\ Stored(m, c).row = m.row /\ Stored(m, c).col = m.col
         /\ Flags(Stored(m, c)) = Flags(m) /\ Fifo(Stored(m, c)) = Fifo(m)
         /\ OnScreen(m) => Stored(m, c).wild = m.wild
<1>1. PICK d \in Letters : Stored(m, c) = Put(m, d)
  <2>1. (IF c \in {CR, LF, TAB} THEN SPACE ELSE c) \in Letters
    BY LetterFacts
  <2> QED BY <2>1 DEF Stored
<1>2. OnScreen(m) => Index(m) \in 0..(Rows * Cols - 1)
  BY CellIndex DEF OnScreen, Index, Mach
<1> QED BY <1>1, <1>2, PutTypes

LEMMA MovedTypes ==
  ASSUME NEW m \in Mach, NEW c
  PROVE  /\ Moved(m, c) \in Mach /\ Moved(m, c).row = m.row /\ Moved(m, c).wild = m.wild
         /\ Flags(Moved(m, c)) = Flags(m) /\ Fifo(Moved(m, c)) = Fifo(m)
<1>1. PICK k \in Nat : Moved(m, c) = [m EXCEPT !.col = k]
  <2>1. m.col \in Nat /\ m.col + 1 \in Nat /\ TabStop(m.col) \in Nat /\ Cols \in Nat /\ 0 \in Nat
    <3>1. m.col \in Nat
      BY MachFields
    <3> QED BY <3>1, Numbers, NextPlaces
  <2>2. CASE c = CR
    BY <2>1, <2>2 DEF Moved
  <2>3. CASE c = LF
    BY <2>1, <2>3 DEF Moved, CR, LF
  <2>4. CASE c = TAB
    BY <2>1, <2>4 DEF Moved, CR, LF, TAB
  <2>5. CASE c \notin {CR, LF, TAB}
    BY <2>1, <2>5 DEF Moved
  <2> QED BY <2>2, <2>3, <2>4, <2>5
<1> QED BY <1>1 DEF Mach, Flags, Fifo

LEMMA BackspacedTypes ==
  ASSUME NEW m \in Mach
  PROVE  /\ Backspaced(m) \in Mach
         /\ Flags(Backspaced(m)) = Flags(m) /\ Fifo(Backspaced(m)) = Fifo(m)
         /\ OnScreen(m) => OnScreen(Backspaced(m)) /\ Backspaced(m).wild = m.wild
<1>1. CASE m.col = 0 /\ m.row = 0
  BY <1>1 DEF Backspaced
<1>2. CASE ~(m.col = 0 /\ m.row = 0)
  <2>1. PICK row : row = IF m.col = 0 THEN m.row - 1 ELSE m.row
    OBVIOUS
  <2>2. PICK end : end = IF m.col = 0 THEN Cols ELSE m.col
    OBVIOUS
  <2>3. row \in Nat /\ end \in Nat /\ end > 0 /\ row <= m.row
    <3>1. m.row \in Nat /\ m.col \in Nat
      BY MachFields
    <3> QED BY <1>2, <2>1, <2>2, <3>1, Numbers
  <2>4. PICK hit \in SUBSET (1..(end - 1)) : hit = {c \in 1..(end - 1) : CellAt(m, row, c) # NUL}
    OBVIOUS
  <2>5. PICK col : col = IF hit = {} THEN 0 ELSE CHOOSE c \in hit : \A d \in hit : d <= c
    OBVIOUS
  <2>6. col \in Nat /\ col < end
    <3>1. CASE hit = {}
      BY <2>3, <2>5, <3>1
    <3>2. CASE hit # {}
      <4>1. \E c \in hit : \A d \in hit : d <= c
        <5>1. end - 1 \in Int
          BY <2>3
        <5> QED BY <3>2, <5>1, LargestElement
      <4>2. col \in hit
        BY <2>5, <3>2, <4>1, Zenon
      <4> QED BY <2>3, <2>4, <4>2
    <3> QED BY <3>1, <3>2
  <2>7. PICK n : n = Placing(m, row, col)
    OBVIOUS
  <2>8. /\ n \in Mach /\ n.row = row /\ n.col = col /\ n.wild = m.wild
        /\ Flags(n) = Flags(m) /\ Fifo(n) = Fifo(m)
    BY <2>3, <2>6, <2>7, Placed
  <2>9. Backspaced(m) = Put(n, NUL)
    BY <1>2, <2>1, <2>2, <2>4, <2>5, <2>7 DEF Backspaced, Placing
  <2>10. OnScreen(m) => OnScreen(n)
    <3>1. m.row \in Nat /\ m.col \in Nat
      BY MachFields
    <3> QED BY <2>1, <2>2, <2>3, <2>6, <2>8, <3>1, Numbers DEF OnScreen
  <2>11. OnScreen(n) => Index(n) \in 0..(Rows * Cols - 1)
    BY <2>8, CellIndex DEF OnScreen, Index, Mach
  <2>12. PICK p : p = Put(n, NUL)
    OBVIOUS
  <2>13. /\ p \in Mach /\ p.row = n.row /\ p.col = n.col
         /\ Flags(p) = Flags(n) /\ Fifo(p) = Fifo(n)
         /\ Index(n) \in 0..(Rows * Cols - 1) => p.wild = n.wild
    BY <2>8, <2>12, PutTypes, LetterFacts
  <2>14. OnScreen(n) => OnScreen(p)
    BY <2>13 DEF OnScreen
  <2> QED BY <2>8, <2>9, <2>10, <2>11, <2>12, <2>13, <2>14
<1> QED BY <1>1, <1>2

(* The operations at the end of a line, and their effect on the cursor. *)
LineOps == {"col=0", "row++", "scroll", "last row"}

LEMMA LineTypes ==
  ASSUME NEW m \in Mach, NEW o \in Ops, o.op \in LineOps
  PROVE  /\ Do(m, o) \in Mach /\ Do(m, o).wild = m.wild
         /\ Flags(Do(m, o)) = Flags(m) /\ Fifo(Do(m, o)) = Fifo(m)
         /\ o.op = "col=0" => Do(m, o).row = m.row /\ Do(m, o).col = 0
         /\ o.op # "col=0" => Do(m, o).col = m.col
         /\ o.op = "last row" => Do(m, o).row = Rows - 1
<1>1. Do(m, o) = DoVga(m, o)
  <2>1. o.op \notin IrqOps /\ o.op \in VgaOps /\ o.op \notin SerialOps
    BY DEF IrqOps, VgaOps, SerialOps, LineOps
  <2> QED BY <2>1 DEF Do
<1>2. PICK row, col \in Nat : m.row = row /\ m.col = col
  BY MachFields
<1>3. CASE o.op = "scroll"
  <2>1. Do(m, o) = Scrolled(m)
    BY <1>1, <1>3 DEF DoVga
  <2> QED BY <1>3, <2>1, ScrolledTypes
<1>4. CASE o.op = "col=0"
  <2>1. PICK c \in Nat : c = 0
    OBVIOUS
  <2>2. Do(m, o) = [m EXCEPT !.col = c]
    BY <1>1, <1>4, <2>1 DEF DoVga
  <2>3. PICK n : n = Placing(m, row, c)
    OBVIOUS
  <2>4. /\ n \in Mach /\ n.row = row /\ n.col = c /\ n.wild = m.wild
        /\ Flags(n) = Flags(m) /\ Fifo(n) = Fifo(m)
    BY <2>3, Placed
  <2>5. Do(m, o) = n
    BY <1>2, <2>2, <2>3 DEF Placing, Mach
  <2> QED BY <1>2, <1>4, <2>1, <2>4, <2>5
<1>5. CASE o.op = "row++"
  <2>1. PICK r \in Nat : r = m.row + 1
    BY <1>2
  <2>2. Do(m, o) = [m EXCEPT !.row = r]
    BY <1>1, <1>5, <2>1 DEF DoVga
  <2>3. PICK n : n = Placing(m, r, col)
    OBVIOUS
  <2>4. /\ n \in Mach /\ n.col = col /\ n.wild = m.wild
        /\ Flags(n) = Flags(m) /\ Fifo(n) = Fifo(m)
    BY <2>3, Placed
  <2>5. Do(m, o) = n
    BY <1>2, <2>2, <2>3 DEF Placing, Mach
  <2> QED BY <1>2, <1>5, <2>4, <2>5
<1>6. CASE o.op = "last row"
  <2>1. PICK r \in Nat : r = Rows - 1
    BY Numbers
  <2>2. Do(m, o) = [m EXCEPT !.row = r]
    BY <1>1, <1>6, <2>1 DEF DoVga, LastRow
  <2>3. PICK n : n = Placing(m, r, col)
    OBVIOUS
  <2>4. /\ n \in Mach /\ n.row = r /\ n.col = col /\ n.wild = m.wild
        /\ Flags(n) = Flags(m) /\ Fifo(n) = Fifo(m)
    BY <2>3, Placed
  <2>5. Do(m, o) = n
    BY <1>2, <2>2, <2>3 DEF Placing, Mach
  <2> QED BY <1>2, <1>6, <2>1, <2>4, <2>5
<1> QED BY <1>3, <1>4, <1>5, <1>6 DEF LineOps

LEMMA IrqStep ==
  ASSUME NEW m \in Mach, NEW o \in Ops, o.op \in IrqOps
  PROVE  Do(m, o) \in Mach /\ Screen(Do(m, o)) = Screen(m) /\ Fifo(Do(m, o)) = Fifo(m)
<1>1. Do(m, o) = DoIrq(m, o)
  BY DEF Do, IrqOps, VgaOps, SerialOps
<1>2. PICK prev, curr, cpu \in BOOLEAN :
        DoIrq(m, o) = [m EXCEPT !.prev = prev, !.curr = curr, !.cpu = cpu]
  <2>1. CASE o.op = "prev=curr"
    <3>1. DoIrq(m, o) = [m EXCEPT !.prev = m.curr, !.curr = m.curr, !.cpu = m.cpu]
      BY <2>1 DEF DoIrq, Mach
    <3> QED BY <3>1, MachFields
  <2>2. CASE o.op = "curr=ENABLED"
    <3>1. DoIrq(m, o) = [m EXCEPT !.prev = m.prev, !.curr = TRUE, !.cpu = m.cpu]
      BY <2>2 DEF DoIrq, Mach
    <3> QED BY <3>1, MachFields
  <2>3. CASE o.op = "curr=DISABLED"
    <3>1. DoIrq(m, o) = [m EXCEPT !.prev = m.prev, !.curr = FALSE, !.cpu = m.cpu]
      BY <2>3 DEF DoIrq, Mach
    <3> QED BY <3>1, MachFields
  <2>4. CASE o.op = "cli"
    <3>1. DoIrq(m, o) = [m EXCEPT !.prev = m.prev, !.curr = m.curr, !.cpu = FALSE]
      BY <2>4 DEF DoIrq, Mach
    <3> QED BY <3>1, MachFields
  <2>5. CASE o.op = "sti if enabled"
    <3>1. DoIrq(m, o) = [m EXCEPT !.prev = m.prev, !.curr = m.curr, !.cpu = m.curr \/ m.cpu]
      BY <2>5 DEF DoIrq, Mach
    <3>2. (m.curr \/ m.cpu) \in BOOLEAN
      OBVIOUS
    <3> QED BY <3>1, <3>2, MachFields
  <2>6. CASE o.op = "enable if was"
    <3>1. DoIrq(m, o) = [m EXCEPT !.prev = m.prev, !.curr = m.curr, !.cpu = m.cpu]
      BY <2>6 DEF DoIrq, Mach
    <3> QED BY <3>1, MachFields
  <2> QED BY <2>1, <2>2, <2>3, <2>4, <2>5, <2>6 DEF IrqOps
<1>3. [m EXCEPT !.prev = prev, !.curr = curr, !.cpu = cpu] \in Mach
  BY DEF Mach
<1>4. Screen([m EXCEPT !.prev = prev, !.curr = curr, !.cpu = cpu]) = Screen(m)
  BY DEF Mach, Screen
<1>5. Fifo([m EXCEPT !.prev = prev, !.curr = curr, !.cpu = cpu]) = Fifo(m)
  BY DEF Mach, Fifo
<1> QED BY <1>1, <1>2, <1>3, <1>4, <1>5

LEMMA VgaStep ==
  ASSUME NEW m \in Mach, NEW o \in Ops, o.op \in VgaOps
  PROVE  Do(m, o) \in Mach /\ Flags(Do(m, o)) = Flags(m) /\ Fifo(Do(m, o)) = Fifo(m)
<1>1. Do(m, o) = DoVga(m, o)
  BY DEF Do, IrqOps, VgaOps, SerialOps
<1>2. CASE o.op = "erase cursor"
  <2>1. Do(m, o) = Put(m, NUL)
    BY <1>1, <1>2 DEF DoVga
  <2> QED BY <2>1, PutTypes, LetterFacts
<1>3. CASE o.op = "store"
  <2>1. Do(m, o) = Stored(m, o.arg) /\ o.arg \in Letters
    BY <1>1, <1>3, OpFields DEF DoVga, LetterOps
  <2> QED BY <2>1, StoredTypes
<1>4. CASE o.op = "move"
  <2>1. Do(m, o) = Moved(m, o.arg)
    BY <1>1, <1>4 DEF DoVga
  <2> QED BY <2>1, MovedTypes
<1>5. CASE o.op = "newline"
  <2>1. Do(m, o) = IF AfterFullLine(m) THEN m ELSE Moved(Stored(m, LF), LF)
    BY <1>1, <1>5 DEF DoVga
  <2>2. PICK s : s = Stored(m, LF)
    OBVIOUS
  <2>3. s \in Mach /\ Flags(s) = Flags(m) /\ Fifo(s) = Fifo(m)
    BY <2>2, StoredTypes, LetterFacts
  <2>4. Moved(s, LF) \in Mach /\ Flags(Moved(s, LF)) = Flags(s) /\ Fifo(Moved(s, LF)) = Fifo(s)
    BY <2>3, MovedTypes
  <2> QED BY <2>1, <2>2, <2>3, <2>4
<1>6. CASE o.op = "backspace"
  <2>1. Do(m, o) = Backspaced(m)
    BY <1>1, <1>6 DEF DoVga
  <2> QED BY <2>1, BackspacedTypes
<1>7. CASE o.op \in LineOps
  BY <1>7, LineTypes
<1> QED BY <1>2, <1>3, <1>4, <1>5, <1>6, <1>7 DEF VgaOps, LineOps

LEMMA SerialStep ==
  ASSUME NEW m \in Mach, NEW o \in Ops, o.op \in SerialOps
  PROVE  Do(m, o) \in Mach /\ Flags(Do(m, o)) = Flags(m) /\ Screen(Do(m, o)) = Screen(m)
<1>1. Do(m, o) = DoSerial(m, o)
  BY DEF Do, IrqOps, VgaOps, SerialOps
<1>2. CASE o.op = "produce"
  <2>1. Do(m, o) = Produced(m, o.arg)
    BY <1>1, <1>2 DEF DoSerial
  <2>2. o.arg \in Letters
    BY <1>2, OpFields DEF LetterOps
  <2>3. CASE m.prod \notin DOMAIN m.buff
    <3>1. Do(m, o) = [m EXCEPT !.stray = TRUE]
      BY <2>1, <2>3 DEF Produced
    <3> QED BY <3>1 DEF Mach, Flags, Screen
  <2>4. CASE m.prod \in DOMAIN m.buff
    <3>1. PICK buff, prod, taken : /\ buff = [m.buff EXCEPT ![m.prod] = o.arg]
                                   /\ prod = m.prod + 1 /\ taken = Append(m.taken, o.arg)
      OBVIOUS
    <3>2. prod \in 0..BuffSize
      <4>1. m.prod \in 0..(BuffSize - 1)
        BY <2>4, MachFields
      <4> QED BY <3>1, <4>1, Numbers
    <3>3. buff \in [0..(BuffSize - 1) -> Letters]
      BY <2>2, <3>1, MachFields
    <3>4. taken \in Texts
      BY <2>2, <3>1, MachFields DEF Texts
    <3>5. Do(m, o) = [m EXCEPT !.buff = buff, !.prod = prod, !.taken = taken]
      BY <2>1, <2>4, <3>1 DEF Produced
    <3> QED BY <3>2, <3>3, <3>4, <3>5 DEF Mach, Flags, Screen
  <2> QED BY <2>3, <2>4
<1>3. CASE o.op = "++count"
  <2>1. Do(m, o) = [m EXCEPT !.count = m.count + 1]
    BY <1>1, <1>3 DEF DoSerial
  <2>2. m.count + 1 \in Int
    BY MachFields
  <2> QED BY <2>1, <2>2 DEF Mach, Flags, Screen
<1>4. CASE o.op = "idle=false"
  <2>1. Do(m, o) = [m EXCEPT !.idle = FALSE]
    BY <1>1, <1>4 DEF DoSerial
  <2> QED BY <2>1 DEF Mach, Flags, Screen
<1>5. CASE o.op = "hw empty?"
  <2>1. Do(m, o) = [m EXCEPT !.idle = (m.uart = 0) \/ m.idle]
    BY <1>1, <1>5 DEF DoSerial
  <2> QED BY <2>1 DEF Mach, Flags, Screen
<1>6. CASE o.op = "consume"
  <2>1. Do(m, o) = Read(m)
    BY <1>1, <1>6 DEF DoSerial
  <2>2. CASE m.cons \notin DOMAIN m.buff
    <3>1. Do(m, o) = [m EXCEPT !.stray = TRUE]
      BY <2>1, <2>2 DEF Read
    <3> QED BY <3>1 DEF Mach, Flags, Screen
  <2>3. CASE m.cons \in DOMAIN m.buff
    <3>1. Do(m, o) = [m EXCEPT !.cons = m.cons + 1]
      BY <2>1, <2>3 DEF Read
    <3>2. m.cons \in 0..(BuffSize - 1)
      BY <2>3, MachFields
    <3>3. m.cons + 1 \in 0..BuffSize
      BY <3>2, Numbers
    <3> QED BY <3>1, <3>3 DEF Mach, Flags, Screen
  <2> QED BY <2>2, <2>3
<1>7. CASE o.op = "--count"
  <2>1. Do(m, o) = [m EXCEPT !.count = m.count - 1]
    BY <1>1, <1>7 DEF DoSerial
  <2>2. m.count - 1 \in Int
    BY MachFields
  <2> QED BY <2>1, <2>2 DEF Mach, Flags, Screen
<1>8. CASE o.op = "stop if empty"
  <2>1. Do(m, o) = [m EXCEPT !.idle = (m.count = 0) \/ m.idle]
    BY <1>1, <1>8 DEF DoSerial, StopIfEmpty
  <2> QED BY <2>1 DEF Mach, Flags, Screen
<1>9. CASE o.op = "outb"
  <2>1. PICK uart : uart = IF m.uart = UartSize THEN m.uart ELSE m.uart + 1
    OBVIOUS
  <2>2. Do(m, o) = [m EXCEPT !.line = Append(m.line, o.arg), !.uart = uart]
    BY <1>1, <1>9, <2>1 DEF DoSerial, Written
  <2>3. o.arg \in Letters
    BY <1>9, OpFields DEF LetterOps
  <2>4. Append(m.line, o.arg) \in Texts
    BY <2>3, MachFields DEF Texts
  <2>5. uart \in 0..UartSize
    BY <2>1, MachFields, ConsoleAssumption
  <2> QED BY <2>2, <2>4, <2>5 DEF Mach, Flags, Screen
<1>10. CASE o.op = "wrap prod"
  <2>1. Do(m, o) = [m EXCEPT !.prod = Wrap(m.prod)]
    BY <1>1, <1>10 DEF DoSerial
  <2>2. Wrap(m.prod) \in 0..BuffSize
    BY MachFields, NextPlaces
  <2> QED BY <2>1, <2>2 DEF Mach, Flags, Screen
<1>11. CASE o.op = "wrap cons"
  <2>1. Do(m, o) = [m EXCEPT !.cons = Wrap(m.cons)]
    BY <1>1, <1>11 DEF DoSerial
  <2>2. Wrap(m.cons) \in 0..BuffSize
    BY MachFields, NextPlaces
  <2> QED BY <2>1, <2>2 DEF Mach, Flags, Screen
<1> QED BY <1>2, <1>3, <1>4, <1>5, <1>6, <1>7, <1>8, <1>9, <1>10, <1>11 DEF SerialOps

LEMMA OtherStep ==
  ASSUME NEW m, NEW o, o.op \notin IrqOps \cup VgaOps \cup SerialOps
  PROVE  Do(m, o) = m
  BY DEF Do

LEMMA DoTypes ==
  ASSUME NEW m \in Mach, NEW o \in Ops
  PROVE  Do(m, o) \in Mach
<1>1. o.op \in IrqOps \/ o.op \in VgaOps \/ o.op \in SerialOps \/ o.op \notin IrqOps \cup VgaOps \cup SerialOps
  OBVIOUS
<1> QED BY <1>1, IrqStep, VgaStep, SerialStep, OtherStep

-----------------------------------------------------------------------------
(***************************************************************************)
(* The operations on the FIFO in a stack: the first, the first "outb", and *)
(* the order they are in.                                                  *)
(***************************************************************************)
MainOps == SerialOps \cup {"serial", "full?", "first?", "empty?"}
OutOps == {"outb"}

Main(x) == FirstIn(x, MainOps)
Out(x) == FirstIn(x, OutOps)

Rests == {"none", "serial"}

InOrder(o, x) ==
  /\ o.op \in {"serial", "full?"} => Main(x).op = "none"
  /\ o.op = "produce" => Main(x).op = "++count"
  /\ o.op = "++count" => Main(x).op = "wrap prod"
  /\ o.op = "wrap prod" => Main(x).op = "first?"
  /\ o.op = "idle=false" => Main(x).op = "empty?"
  /\ o.op = "--count" => Main(x).op = "wrap cons"
  /\ o.op = "wrap cons" => Main(x).op = "stop if empty"
  /\ o.op = "stop if empty" => Main(x).op = "outb"
  /\ o.op \in {"first?", "empty?", "consume", "outb", "hw empty?"} => Main(x).op \in Rests

SerialOrder == {p \in Ops \X Stack : InOrder(p[1], p[2])}
Serially(x) == Linked(x, SerialOrder)

LEMMA SerialThen ==
  ASSUME NEW o \in Ops, NEW x \in Stack
  PROVE  /\ Main(<<>>) = Nothing /\ Out(<<>>) = Nothing /\ Serially(<<>>)
         /\ Then(o, x) \in Stack
         /\ o.op \in MainOps => Main(Then(o, x)) = o
         /\ o.op \notin MainOps => Main(Then(o, x)) = Main(x)
         /\ o.op = "outb" => Out(Then(o, x)) = o
         /\ o.op # "outb" => Out(Then(o, x)) = Out(x)
         /\ Serially(Then(o, x)) <=> InOrder(o, x) /\ Serially(x)
         /\ o.op \notin MainOps => InOrder(o, x)
<1>1. Main(<<>>) = Nothing /\ Out(<<>>) = Nothing /\ Serially(<<>>)
  BY FirstThen, LinkedThen DEF Main, Out, Serially
<1>2. Then(o, x) \in Stack
  BY Stacks
<1>3. /\ o.op \in MainOps => Main(Then(o, x)) = o
      /\ o.op \notin MainOps => Main(Then(o, x)) = Main(x)
  BY FirstThen DEF Main
<1>4. /\ o.op \in OutOps => Out(Then(o, x)) = o
      /\ o.op \notin OutOps => Out(Then(o, x)) = Out(x)
  BY FirstThen DEF Out
<1>5. Serially(Then(o, x)) <=> <<o, x>> \in SerialOrder /\ Serially(x)
  BY LinkedThen DEF Serially
<1>6. <<o, x>> \in SerialOrder <=> InOrder(o, x)
  BY DEF SerialOrder
<1>7. o.op \notin MainOps => InOrder(o, x)
  BY DEF MainOps, SerialOps, InOrder
<1> QED BY <1>1, <1>2, <1>3, <1>4, <1>5, <1>6, <1>7 DEF OutOps

(* An operation on the side changes nothing of it. *)
Alike(y, x) ==
  y \in Stack /\ Main(y) = Main(x) /\ Out(y) = Out(x) /\ (Serially(x) => Serially(y))

LEMMA AlikeThen ==
  ASSUME NEW o \in Ops, o.op \notin MainOps, NEW x \in Stack, NEW z, Alike(x, z)
  PROVE  Alike(Then(o, x), z)
<1>1. "outb" \in MainOps
  BY DEF MainOps, SerialOps
<1> QED BY <1>1, SerialThen DEF Alike

LEMMA AlikeSelf ==
  ASSUME NEW x \in Stack
  PROVE  Alike(x, x)
  BY DEF Alike

(* The names of the operations on the side. *)
LEMMA SideOps ==
  /\ STI \in Ops /\ PREV \in Ops /\ DIS \in Ops /\ ENA \in Ops /\ CLI \in Ops /\ REEN \in Ops
  /\ STI.op = "sti if enabled" /\ PREV.op = "prev=curr" /\ DIS.op = "curr=DISABLED"
  /\ ENA.op = "curr=ENABLED" /\ CLI.op = "cli" /\ REEN.op = "enable if was"
  /\ STI.op \notin MainOps /\ PREV.op \notin MainOps /\ DIS.op \notin MainOps
  /\ ENA.op \notin MainOps /\ CLI.op \notin MainOps /\ REEN.op \notin MainOps
<1>1. /\ STI \in Ops /\ PREV \in Ops /\ DIS \in Ops /\ ENA \in Ops /\ CLI \in Ops /\ REEN \in Ops
      /\ STI.op = "sti if enabled" /\ PREV.op = "prev=curr" /\ DIS.op = "curr=DISABLED"
      /\ ENA.op = "curr=ENABLED" /\ CLI.op = "cli" /\ REEN.op = "enable if was"
  BY OpTypes DEF PlainOps, IrqOps, STI, PREV, DIS, ENA, CLI, REEN
<1> HIDE DEF STI, PREV, DIS, ENA, CLI, REEN
<1> QED BY <1>1 DEF MainOps, SerialOps

LEMMA SectionsAlike ==
  ASSUME NEW x \in Stack, NEW z, Alike(x, z)
  PROVE  /\ Alike(Then(REEN, x), z) /\ Alike(Disabling(x), z) /\ Alike(Enabling(x), z)
         /\ Then(REEN, x) \in Stack /\ Disabling(x) \in Stack /\ Enabling(x) \in Stack
<1>1. Alike(Then(REEN, x), z) /\ Alike(Then(DIS, x), z) /\ Alike(Then(CLI, x), z)
  BY SideOps, AlikeThen
<1>2. Then(REEN, x) \in Stack /\ Then(DIS, x) \in Stack /\ Then(CLI, x) \in Stack
  BY <1>1 DEF Alike
<1>3. Alike(Then(PREV, Then(DIS, x)), z) /\ Alike(Then(ENA, Then(CLI, x)), z)
  BY <1>1, <1>2, SideOps, AlikeThen
<1>4. Then(PREV, Then(DIS, x)) \in Stack /\ Then(ENA, Then(CLI, x)) \in Stack
  BY <1>3 DEF Alike
<1>5. Alike(Disabling(x), z) /\ Alike(Enabling(x), z)
  BY <1>3, <1>4, SideOps, AlikeThen DEF Disabling, Enabling
<1> QED BY <1>1, <1>2, <1>5 DEF Alike

LEMMA ShowingAlike ==
  ASSUME NEW c \in Letters, NEW x \in Stack, NEW z, Alike(x, z)
  PROVE  Alike(Showing(c, x), z)
<1>1. PICK bs, nl, wr, show, st, mv :
        /\ bs = Op("backspace") /\ nl = Op("newline") /\ wr = Op("end?")
        /\ show = OpOf("display", <<"e">>) /\ st = OpOf("store", c) /\ mv = OpOf("move", c)
  OBVIOUS
<1>2. bs \in Ops /\ nl \in Ops /\ wr \in Ops /\ bs.op = "backspace" /\ nl.op = "newline" /\ wr.op = "end?"
  BY <1>1, ScreenTypes
<1>3. show \in Ops /\ st \in Ops /\ mv \in Ops /\ show.op = "display" /\ st.op = "store" /\ mv.op = "move"
  BY <1>1, OpTypes, LetterFacts DEF TextOps, LetterOps
<1>4. /\ bs.op \notin MainOps /\ nl.op \notin MainOps /\ wr.op \notin MainOps
      /\ show.op \notin MainOps /\ st.op \notin MainOps /\ mv.op \notin MainOps
  BY <1>2, <1>3 DEF MainOps, SerialOps
<1>5. PICK u : u = Then(wr, Then(REEN, x))
  OBVIOUS
<1>6. Alike(u, z) /\ u \in Stack
  <2>1. Alike(Then(REEN, x), z) /\ Then(REEN, x) \in Stack
    BY SectionsAlike
  <2>2. Alike(u, z)
    BY <1>2, <1>4, <1>5, <2>1, AlikeThen
  <2> QED BY <2>2 DEF Alike
<1>7. Alike(Then(show, x), z) /\ Alike(Then(bs, u), z) /\ Alike(Then(nl, u), z) /\ Alike(Then(mv, u), z)
  BY <1>2, <1>3, <1>4, <1>6, AlikeThen
<1>8. /\ Then(show, x) \in Stack /\ Then(bs, u) \in Stack /\ Then(nl, u) \in Stack /\ Then(mv, u) \in Stack
  BY <1>7 DEF Alike
<1>9. Alike(Then(st, Then(mv, u)), z) /\ Then(st, Then(mv, u)) \in Stack
  <2>1. Alike(Then(st, Then(mv, u)), z)
    BY <1>3, <1>4, <1>7, <1>8, AlikeThen
  <2> QED BY <2>1 DEF Alike
<1>10. Showing(c, x) = Disabling(IF c = ESC THEN Then(show, x)
                                 ELSE IF c = BS THEN Then(bs, u)
                                 ELSE IF c = LF THEN Then(nl, u)
                                 ELSE Then(st, Then(mv, u)))
  BY <1>1, <1>5 DEF Showing
<1>11. PICK r \in Stack : Showing(c, x) = Disabling(r) /\ Alike(r, z)
  BY <1>7, <1>8, <1>9, <1>10
<1> QED BY <1>11, SectionsAlike

LEMMA DisplayingAlike ==
  ASSUME NEW s \in Texts, NEW x \in Stack, NEW z, Alike(x, z)
  PROVE  /\ Alike(Displaying(s, x), z)
         /\ s # <<>> => Alike(Showing(Head(s), Then(OpOf("chars", Tail(s)), x)), z)
<1>1. ASSUME NEW t \in Texts
      PROVE  Alike(Then(OpOf("chars", t), x), z) /\ Then(OpOf("chars", t), x) \in Stack
  <2>1. PICK o : o = OpOf("chars", t)
    OBVIOUS
  <2>2. o \in Ops /\ o.op = "chars"
    BY <2>1, OpTypes DEF TextOps
  <2>3. o.op \notin MainOps
    BY <2>2 DEF MainOps, SerialOps
  <2>4. Alike(Then(o, x), z)
    BY <2>2, <2>3, AlikeThen
  <2> QED BY <2>1, <2>4 DEF Alike
<1>2. Alike(Displaying(s, x), z)
  <2>1. PICK o : o = Op("erase cursor")
    OBVIOUS
  <2>2. o \in Ops /\ o.op = "erase cursor"
    BY <2>1, ScreenTypes
  <2>3. o.op \notin MainOps
    BY <2>2 DEF MainOps, SerialOps
  <2> QED BY <1>1, <2>1, <2>2, <2>3, AlikeThen DEF Displaying
<1>3. ASSUME s # <<>> PROVE Alike(Showing(Head(s), Then(OpOf("chars", Tail(s)), x)), z)
  <2>1. Head(s) \in Letters /\ Tail(s) \in Texts
    BY <1>3, TextFacts
  <2> QED BY <1>1, <2>1, ShowingAlike
<1> QED BY <1>2, <1>3

LEMMA LineAlike ==
  ASSUME NEW x \in Stack, NEW z, Alike(x, z)
  PROVE  Alike(LineEnding(x), z) /\ Alike(Scrolling(x), z)
<1>1. PICK a, b, c, d, e : /\ a = Op("col=0") /\ b = Op("row++") /\ c = Op("bottom?")
                           /\ d = Op("scroll") /\ e = Op("last row")
  OBVIOUS
<1>2. /\ a \in Ops /\ b \in Ops /\ c \in Ops /\ d \in Ops /\ e \in Ops
      /\ a.op = "col=0" /\ b.op = "row++" /\ c.op = "bottom?"
      /\ d.op = "scroll" /\ e.op = "last row"
  BY <1>1, ScreenTypes
<1>3. /\ a.op \notin MainOps /\ b.op \notin MainOps /\ c.op \notin MainOps
      /\ d.op \notin MainOps /\ e.op \notin MainOps
  BY <1>2 DEF MainOps, SerialOps
<1>4. Alike(Then(c, x), z) /\ Alike(Then(e, x), z)
  BY <1>2, <1>3, AlikeThen
<1>5. Then(c, x) \in Stack /\ Then(e, x) \in Stack
  BY <1>4 DEF Alike
<1>6. Alike(Then(b, Then(c, x)), z) /\ Alike(Then(d, Then(e, x)), z)
  BY <1>2, <1>3, <1>4, <1>5, AlikeThen
<1>7. Then(b, Then(c, x)) \in Stack
  BY <1>6 DEF Alike
<1>8. Alike(Then(a, Then(b, Then(c, x))), z)
  BY <1>2, <1>3, <1>6, <1>7, AlikeThen
<1> QED BY <1>1, <1>6, <1>8 DEF LineEnding, Scrolling

LEMMA SideAfter ==
  ASSUME NEW m \in Mach, NEW o \in Ops, o.op \notin MainOps, NEW x \in Stack
  PROVE  Alike(After(m, o, x), x)
<1>1. Alike(x, x)
  BY AlikeSelf
<1>2. CASE o.op = "enable if was"
  BY <1>1, <1>2, SectionsAlike DEF After
<1>3. CASE o.op = "display"
  <2>1. o.arg \in Texts /\ After(m, o, x) = Displaying(o.arg, x)
    BY <1>3, OpFields DEF After, TextOps
  <2> QED BY <1>1, <2>1, DisplayingAlike
<1>4. CASE o.op = "chars"
  <2>1. /\ o.arg \in Texts
        /\ After(m, o, x) = IF o.arg = <<>> THEN x
                            ELSE Showing(Head(o.arg), Then(OpOf("chars", Tail(o.arg)), x))
    BY <1>4, OpFields DEF After, TextOps
  <2> QED BY <1>1, <2>1, DisplayingAlike
<1>5. CASE o.op = "end?"
  <2>1. After(m, o, x) = IF m.col < Cols THEN x ELSE LineEnding(x)
    BY <1>5 DEF After
  <2> QED BY <1>1, <2>1, LineAlike
<1>6. CASE o.op = "bottom?"
  <2>1. After(m, o, x) = IF m.row < Rows THEN x ELSE Scrolling(x)
    BY <1>6 DEF After
  <2> QED BY <1>1, <2>1, LineAlike
<1>7. CASE o.op \notin {"enable if was", "display", "chars", "end?", "bottom?"}
  <2>1. After(m, o, x) = x
    BY <1>7 DEF After, MainOps, SerialOps
  <2> QED BY <1>1, <2>1
<1> QED BY <1>2, <1>3, <1>4, <1>5, <1>6, <1>7

LEMMA DisabledBefore ==
  ASSUME NEW o \in Ops, NEW x \in Stack, o.op \in MainOps, InOrder(o, x), Serially(x)
  PROVE  /\ Disabling(Then(o, x)) \in Stack /\ Serially(Disabling(Then(o, x)))
         /\ Main(Disabling(Then(o, x))) = o
         /\ o.op # "outb" => Out(Disabling(Then(o, x))) = Out(x)
<1>1. Then(o, x) \in Stack /\ Alike(Then(o, x), Then(o, x))
  BY SerialThen, AlikeSelf
<1>2. Alike(Disabling(Then(o, x)), Then(o, x))
  BY <1>1, SectionsAlike
<1> QED BY <1>1, <1>2, SerialThen DEF Alike

(* The names of the operations on the FIFO. *)
LEMMA FifoOps ==
  ASSUME NEW name \in {"++count", "wrap prod", "first?", "idle=false", "empty?", "hw empty?",
                    "consume", "--count", "wrap cons", "stop if empty"}
  PROVE  Op(name) \in Ops /\ Op(name).op = name
<1>1. name \in PlainOps
  BY DEF PlainOps, SerialOps, LetterOps
<1> QED BY <1>1, OpTypes

(* What follows an operation on the FIFO. *)
LEMMA SerialAfter ==
  ASSUME NEW m \in Mach, NEW o \in Ops, o.op \in {"serial", "full?"}, NEW x \in Stack,
         Main(x).op = "none", Serially(x)
  PROVE  /\ After(m, o, x) \in Stack /\ Serially(After(m, o, x))
         /\ o.op = "serial" => Main(After(m, o, x)).op \in {"none", "full?"}
         /\ o.op = "full?" => Main(After(m, o, x)).op \in {"none", "produce"}
         /\ o.op = "full?" /\ m.count # BuffSize => Main(After(m, o, x)).op = "produce"
<1>1. o.arg \in Texts /\ (o.op = "full?" => o.arg # <<>>)
  BY OpFields DEF TextOps
<1>2. CASE o.op = "serial"
  <2>1. After(m, o, x) = IF o.arg = <<>> THEN x ELSE Disabling(Then(OpOf("full?", o.arg), x))
    BY <1>2 DEF After
  <2>2. CASE o.arg = <<>>
    BY <1>2, <2>1, <2>2
  <2>3. CASE o.arg # <<>>
    <3>1. PICK f : f = OpOf("full?", o.arg)
      OBVIOUS
    <3>2. f \in Ops /\ f.op = "full?"
      BY <1>1, <2>3, <3>1, OpTypes
    <3>3. f.op \in MainOps /\ InOrder(f, x)
      BY <3>2 DEF MainOps, InOrder
    <3>4. /\ Disabling(Then(f, x)) \in Stack /\ Serially(Disabling(Then(f, x)))
          /\ Main(Disabling(Then(f, x))) = f
      BY <3>2, <3>3, DisabledBefore
    <3> QED BY <1>2, <2>1, <2>3, <3>1, <3>2, <3>4
  <2> QED BY <2>2, <2>3
<1>3. CASE o.op = "full?"
  <2>1. After(m, o, x) = IF m.count = BuffSize THEN Then(REEN, x) ELSE Adding(o.arg, x)
    BY <1>3 DEF After
  <2>2. CASE m.count = BuffSize
    <3>1. Alike(Then(REEN, x), x)
      BY AlikeSelf, SectionsAlike
    <3> QED BY <1>3, <2>1, <2>2, <3>1 DEF Alike
  <2>3. CASE m.count # BuffSize
    <3>1. PICK a, b, w, c, d :
            /\ a = OpOf("produce", Head(o.arg)) /\ b = Op("++count") /\ w = Op("wrap prod")
            /\ c = Op("first?") /\ d = OpOf("serial", Tail(o.arg))
      OBVIOUS
    <3>2. a \in Ops /\ d \in Ops /\ a.op = "produce" /\ d.op = "serial"
      BY <1>1, <1>3, <3>1, TextFacts, OpTypes DEF TextOps, LetterOps
    <3>3. /\ b \in Ops /\ w \in Ops /\ c \in Ops
          /\ b.op = "++count" /\ w.op = "wrap prod" /\ c.op = "first?"
      BY <3>1, FifoOps
    <3>4. /\ a.op \in MainOps /\ b.op \in MainOps /\ w.op \in MainOps
          /\ c.op \in MainOps /\ d.op \in MainOps
      BY <3>2, <3>3 DEF MainOps, SerialOps
    <3>5. PICK p : p = Then(REEN, Then(d, x))
      OBVIOUS
    <3>6. p \in Stack /\ Serially(p) /\ Main(p).op = "serial"
      <4>1. Then(d, x) \in Stack /\ Serially(Then(d, x)) /\ Main(Then(d, x)) = d
        <5>1. InOrder(d, x)
          BY <3>2 DEF InOrder
        <5> QED BY <3>2, <3>4, <5>1, SerialThen
      <4>2. Alike(p, Then(d, x))
        BY <3>5, <4>1, AlikeSelf, SectionsAlike
      <4> QED BY <3>2, <4>1, <4>2 DEF Alike
    <3>7. Then(c, p) \in Stack /\ Serially(Then(c, p)) /\ Main(Then(c, p)).op = "first?"
      <4>1. InOrder(c, p)
        BY <3>3, <3>6 DEF InOrder, Rests
      <4> QED BY <3>3, <3>4, <3>6, <4>1, SerialThen
    <3>13. Then(w, Then(c, p)) \in Stack /\ Serially(Then(w, Then(c, p)))
           /\ Main(Then(w, Then(c, p))).op = "wrap prod"
      <4>1. InOrder(w, Then(c, p))
        BY <3>3, <3>7 DEF InOrder
      <4> QED BY <3>3, <3>4, <3>7, <4>1, SerialThen
    <3>8. PICK q : q = Then(w, Then(c, p))
      OBVIOUS
    <3>9. Then(b, q) \in Stack /\ Serially(Then(b, q)) /\ Main(Then(b, q)).op = "++count"
      <4>1. InOrder(b, q)
        BY <3>3, <3>8, <3>13 DEF InOrder
      <4> QED BY <3>3, <3>4, <3>8, <3>13, <4>1, SerialThen
    <3>10. PICK r : r = Then(b, q)
      OBVIOUS
    <3>11. Then(a, r) \in Stack /\ Serially(Then(a, r)) /\ Main(Then(a, r)).op = "produce"
      <4>1. InOrder(a, r)
        BY <3>2, <3>9, <3>10 DEF InOrder
      <4> QED BY <3>2, <3>4, <3>9, <3>10, <4>1, SerialThen
    <3>12. After(m, o, x) = Then(a, r)
      BY <2>1, <2>3, <3>1, <3>5, <3>8, <3>10 DEF Adding
    <3> QED BY <1>3, <3>11, <3>12
  <2> QED BY <2>2, <2>3
<1> QED BY <1>2, <1>3

LEMMA FirstAfter ==
  ASSUME NEW m \in Mach, NEW o \in Ops, o.op \in {"first?", "empty?", "consume"}, NEW x \in Stack,
         Main(x).op \in Rests, Serially(x)
  PROVE  /\ After(m, o, x) \in Stack /\ Serially(After(m, o, x))
         /\ o.op = "first?" /\ m.count # 1 => Main(After(m, o, x)).op \in Rests
         /\ o.op = "first?" => Main(After(m, o, x)).op \in Rests \cup {"idle=false", "hw empty?"}
         /\ o.op = "first?" /\ m.count = 1 /\ m.idle => Main(After(m, o, x)).op = "idle=false"
         /\ o.op = "empty?" /\ m.count # 0 => Main(After(m, o, x)).op = "consume"
         /\ o.op = "empty?" => Main(After(m, o, x)).op \in Rests \cup {"consume"}
         /\ o.op = "consume" /\ m.cons < BuffSize =>
              /\ Main(After(m, o, x)).op = "--count"
              /\ Out(After(m, o, x)).arg = m.buff[m.cons]
<1>1. CASE o.op = "first?"
  <2>1. After(m, o, x) = IF m.count # 1 THEN x
                         ELSE IF m.idle THEN Then(Op("idle=false"), Then(Op("empty?"), x))
                         ELSE Then(Op("hw empty?"), x)
    BY <1>1 DEF After
  <2>2. PICK a, b, c : a = Op("idle=false") /\ b = Op("empty?") /\ c = Op("hw empty?")
    OBVIOUS
  <2>3. /\ a \in Ops /\ b \in Ops /\ c \in Ops
        /\ a.op = "idle=false" /\ b.op = "empty?" /\ c.op = "hw empty?"
    BY <2>2, FifoOps
  <2>4. a.op \in MainOps /\ b.op \in MainOps /\ c.op \in MainOps
    BY <2>3 DEF MainOps, SerialOps
  <2>5. /\ Then(b, x) \in Stack /\ Serially(Then(b, x)) /\ Main(Then(b, x)).op = "empty?"
        /\ Then(c, x) \in Stack /\ Serially(Then(c, x)) /\ Main(Then(c, x)).op = "hw empty?"
    <3>1. InOrder(b, x) /\ InOrder(c, x)
      BY <2>3 DEF InOrder
    <3> QED BY <2>3, <2>4, <3>1, SerialThen
  <2>6. PICK p : p = Then(b, x)
    OBVIOUS
  <2>7. Then(a, p) \in Stack /\ Serially(Then(a, p)) /\ Main(Then(a, p)).op = "idle=false"
    <3>1. InOrder(a, p)
      BY <2>3, <2>5, <2>6 DEF InOrder
    <3> QED BY <2>3, <2>4, <2>5, <2>6, <3>1, SerialThen
  <2>8. After(m, o, x) = IF m.count # 1 THEN x ELSE IF m.idle THEN Then(a, p) ELSE Then(c, x)
    BY <2>1, <2>2, <2>6
  <2> QED BY <1>1, <2>5, <2>7, <2>8
<1>2. CASE o.op = "empty?"
  <2>1. After(m, o, x) = IF m.count = 0 THEN x ELSE Disabling(Then(Op("consume"), x))
    BY <1>2 DEF After
  <2>2. PICK a : a = Op("consume")
    OBVIOUS
  <2>3. a \in Ops /\ a.op = "consume"
    BY <2>2, FifoOps
  <2>4. a.op \in MainOps /\ InOrder(a, x)
    BY <2>3 DEF MainOps, SerialOps, InOrder
  <2>5. /\ Disabling(Then(a, x)) \in Stack /\ Serially(Disabling(Then(a, x)))
        /\ Main(Disabling(Then(a, x))) = a
    BY <2>3, <2>4, DisabledBefore
  <2> QED BY <1>2, <2>1, <2>2, <2>3, <2>5
<1>3. CASE o.op = "consume" /\ ~(m.cons < BuffSize)
  <2>1. After(m, o, x) = x
    BY <1>3 DEF After
  <2> QED BY <1>3, <2>1
<1>4. CASE o.op = "consume" /\ m.cons < BuffSize
  <2>1. PICK d \in Letters : d = m.buff[m.cons]
    BY <1>4, MachFields
  <2>2. PICK a, w, b, c : /\ a = Op("--count") /\ w = Op("wrap cons")
                          /\ b = Op("stop if empty") /\ c = OpOf("outb", d)
    OBVIOUS
  <2>3. /\ a \in Ops /\ w \in Ops /\ b \in Ops
        /\ a.op = "--count" /\ w.op = "wrap cons" /\ b.op = "stop if empty"
    BY <2>2, FifoOps
  <2>4. c \in Ops /\ c.op = "outb" /\ c.arg = d
    BY <2>2, OpTypes DEF LetterOps
  <2>5. /\ a.op \in MainOps /\ w.op \in MainOps /\ b.op \in MainOps /\ c.op \in MainOps
        /\ b.op # "outb" /\ w.op # "outb" /\ a.op # "outb"
    BY <2>3, <2>4 DEF MainOps, SerialOps
  <2>6. PICK p : p = Then(REEN, Then(c, x))
    OBVIOUS
  <2>7. p \in Stack /\ Serially(p) /\ Main(p).op = "outb" /\ Out(p) = c
    <3>1. InOrder(c, x)
      BY <2>4 DEF InOrder
    <3>2. /\ Then(c, x) \in Stack /\ Serially(Then(c, x))
          /\ Main(Then(c, x)) = c /\ Out(Then(c, x)) = c
      BY <2>4, <2>5, <3>1, SerialThen
    <3>3. Alike(p, Then(c, x))
      BY <2>6, <3>2, AlikeSelf, SectionsAlike
    <3> QED BY <2>4, <3>2, <3>3 DEF Alike
  <2>8. PICK q : q = Then(b, p)
    OBVIOUS
  <2>9. q \in Stack /\ Serially(q) /\ Main(q).op = "stop if empty" /\ Out(q) = c
    <3>1. InOrder(b, p)
      BY <2>3, <2>7 DEF InOrder
    <3> QED BY <2>3, <2>5, <2>7, <2>8, <3>1, SerialThen
  <2>10. PICK r : r = Then(w, q)
    OBVIOUS
  <2>11. r \in Stack /\ Serially(r) /\ Main(r).op = "wrap cons" /\ Out(r) = c
    <3>1. InOrder(w, q)
      BY <2>3, <2>9 DEF InOrder
    <3> QED BY <2>3, <2>5, <2>9, <2>10, <3>1, SerialThen
  <2>12. /\ Then(a, r) \in Stack /\ Serially(Then(a, r))
         /\ Main(Then(a, r)).op = "--count" /\ Out(Then(a, r)) = c
    <3>1. InOrder(a, r)
      BY <2>3, <2>11 DEF InOrder
    <3> QED BY <2>3, <2>5, <2>11, <3>1, SerialThen
  <2>13. After(m, o, x) = Then(a, r)
    BY <1>4, <2>1, <2>2, <2>6, <2>8, <2>10 DEF After, Taking
  <2> QED BY <1>4, <2>1, <2>4, <2>12, <2>13
<1> QED BY <1>1, <1>2, <1>3, <1>4

PlainMainOps == SerialOps \ {"consume"}

LEMMA PlainAfter ==
  ASSUME NEW m, NEW o \in Ops, o.op \in PlainMainOps, NEW x \in Stack
  PROVE  After(m, o, x) = x
  BY DEF After, PlainMainOps, SerialOps

(* Every operation leaves a stack in order. *)
LEMMA OrderAfter ==
  ASSUME NEW m \in Mach, NEW o \in Ops, NEW x \in Stack, Serially(Then(o, x))
  PROVE  After(m, o, x) \in Stack /\ Serially(After(m, o, x)) /\ InOrder(o, x) /\ Serially(x)
<1>1. InOrder(o, x) /\ Serially(x)
  BY SerialThen
<1>2. CASE o.op \notin MainOps
  BY <1>1, <1>2, SideAfter DEF Alike
<1>3. CASE o.op \in {"serial", "full?"}
  <2>1. Main(x).op = "none"
    BY <1>1, <1>3 DEF InOrder
  <2> QED BY <1>1, <1>3, <2>1, SerialAfter
<1>4. CASE o.op \in {"first?", "empty?", "consume"}
  <2>1. Main(x).op \in Rests
    BY <1>1, <1>4 DEF InOrder
  <2> QED BY <1>1, <1>4, <2>1, FirstAfter
<1>5. CASE o.op \in PlainMainOps
  BY <1>1, <1>5, PlainAfter
<1> QED BY <1>2, <1>3, <1>4, <1>5 DEF MainOps, PlainMainOps, SerialOps

(* A message the kernel prints. *)
Printing(s) == Displaying(s, Then(OpOf("serial", s), <<>>))

LEMMA PrintingCode ==
  ASSUME NEW s \in Texts
  PROVE  /\ printk(s) = Printing(s) /\ printk(s) \in Stack
         /\ Serially(printk(s)) /\ Main(printk(s)).op = "serial"
         /\ VGA_display_str(s) = Displaying(s, <<>>) /\ VGA_display_str(s) \in Stack
         /\ Serially(VGA_display_str(s)) /\ Main(VGA_display_str(s)).op = "none"
<1>1. PICK o : o = OpOf("serial", s)
  OBVIOUS
<1>2. o \in Ops /\ o.op = "serial"
  BY <1>1, OpTypes DEF TextOps
<1>3. <<>> \in Stack /\ Serially(<<>>) /\ Main(<<>>).op = "none"
  <2>1. <<>> \in Stack
    BY DEF Stack
  <2> QED BY <1>2, <2>1, SerialThen DEF Nothing, Op
<1>4. <<o>> = Then(o, <<>>) /\ <<o>> \in Stack
  BY <1>2, <1>3, OneOp
<1>5. Serially(<<o>>) /\ Main(<<o>>).op = "serial"
  <2>1. o.op \in MainOps /\ InOrder(o, <<>>)
    BY <1>2, <1>3 DEF MainOps, InOrder
  <2> QED BY <1>2, <1>3, <1>4, <2>1, SerialThen
<1>6. printk(s) = Displaying(s, <<o>>)
  BY <1>1, <1>4, DisplayingCode DEF printk
<1>7. VGA_display_str(s) = Displaying(s, <<>>)
  <2>1. VGA_display_str(s) \o <<>> = Displaying(s, <<>>) /\ VGA_display_str(s) \in Stack
    BY <1>3, DisplayingCode
  <2> QED BY <2>1, Joins DEF Stack
<1>8. Alike(Displaying(s, <<o>>), <<o>>) /\ Alike(Displaying(s, <<>>), <<>>)
  <2>1. Alike(<<o>>, <<o>>) /\ Alike(<<>>, <<>>)
    BY <1>3, <1>4, AlikeSelf
  <2> QED BY <1>3, <1>4, <2>1, DisplayingAlike
<1>9. printk(s) \in Stack /\ Serially(printk(s)) /\ Main(printk(s)).op = "serial"
  BY <1>5, <1>6, <1>8 DEF Alike
<1>10. /\ VGA_display_str(s) \in Stack
       /\ Serially(VGA_display_str(s)) /\ Main(VGA_display_str(s)).op = "none"
  BY <1>3, <1>7, <1>8 DEF Alike
<1> QED BY <1>1, <1>4, <1>6, <1>7, <1>9, <1>10 DEF Printing

(***************************************************************************)
(* The bytes counted in the FIFO are at least those the operations to do   *)
(* will take out of it: one for a stack in the middle of tx_next().        *)
(***************************************************************************)
LoadOps == {"wrap prod", "first?", "idle=false", "empty?", "consume", "--count"}
Load(x) == IF Main(x).op \in LoadOps THEN 1 ELSE 0

LEMMA CountStep ==
  ASSUME NEW m \in Mach, NEW o \in Ops
  PROVE  /\ o.op = "++count" => Do(m, o).count = m.count + 1
         /\ o.op = "--count" => Do(m, o).count = m.count - 1
         /\ o.op \notin {"++count", "--count"} => Do(m, o).count = m.count
<1>1. CASE o.op \in SerialOps
  <2>1. Do(m, o) = DoSerial(m, o)
    BY <1>1 DEF Do, IrqOps, VgaOps, SerialOps
  <2> QED BY <1>1, <2>1 DEF DoSerial, Produced, Read, Written, StopIfEmpty, SerialOps, Mach
<1>2. CASE o.op \notin SerialOps
  <2>1. Fifo(Do(m, o)) = Fifo(m)
    BY <1>2, IrqStep, VgaStep, OtherStep
  <2>2. Do(m, o).count = m.count
    BY <2>1 DEF Fifo
  <2> QED BY <1>2, <2>2 DEF SerialOps
<1> QED BY <1>1, <1>2

LEMMA LoadAfter ==
  ASSUME NEW m \in Mach, NEW o \in Ops, NEW x \in Stack, Serially(Then(o, x))
  PROVE  Load(After(m, o, x)) - Load(Then(o, x)) <= Do(m, o).count - m.count
<1>1. InOrder(o, x) /\ Serially(x) /\ m.count \in Int
  BY SerialThen, MachFields
<1>2. CASE o.op \notin MainOps
  <2>1. Main(After(m, o, x)) = Main(x) /\ Main(Then(o, x)) = Main(x)
    BY <1>2, SideAfter, SerialThen DEF Alike
  <2>2. o.op \notin {"++count", "--count"}
    BY <1>2 DEF MainOps, SerialOps
  <2> QED BY <1>1, <2>1, <2>2, CountStep DEF Load
<1>3. CASE o.op \in MainOps
  <2>1. Main(Then(o, x)) = o
    BY <1>3, SerialThen
  <2>2. CASE o.op \in {"serial", "full?"}
    <3>1. Main(x).op = "none"
      BY <1>1, <2>2 DEF InOrder
    <3>2. Main(After(m, o, x)).op \in {"none", "full?", "produce"}
      BY <1>1, <2>2, <3>1, SerialAfter
    <3>3. Load(After(m, o, x)) = 0 /\ Load(Then(o, x)) = 0
      BY <2>1, <2>2, <3>2 DEF Load, LoadOps
    <3> QED BY <1>1, <2>2, <3>3, CountStep
  <2>3. CASE o.op \in {"first?", "empty?", "consume"}
    <3>1. Load(Then(o, x)) = 1 /\ Load(After(m, o, x)) \in {0, 1}
      BY <2>1, <2>3 DEF Load, LoadOps
    <3> QED BY <1>1, <2>3, <3>1, CountStep
  <2>4. CASE o.op \in PlainMainOps
    <3>1. After(m, o, x) = x
      BY <2>4, PlainAfter
    <3>2. CASE o.op \in {"idle=false", "wrap prod"}
      <4>1. Load(Then(o, x)) = 1 /\ Load(x) \in {0, 1}
        BY <2>1, <3>2 DEF Load, LoadOps
      <4>2. Do(m, o).count = m.count
        BY <3>2, CountStep
      <4> QED BY <1>1, <3>1, <4>1, <4>2
    <3>3. CASE o.op = "++count"
      <4>1. Load(Then(o, x)) = 0 /\ Load(x) \in {0, 1}
        BY <2>1, <3>3 DEF Load, LoadOps
      <4> QED BY <1>1, <3>1, <3>3, <4>1, CountStep
    <3>4. CASE o.op = "--count"
      <4>1. Main(x).op = "wrap cons"
        BY <1>1, <3>4 DEF InOrder
      <4>2. Load(Then(o, x)) = 1 /\ Load(x) = 0
        BY <2>1, <3>4, <4>1 DEF Load, LoadOps
      <4> QED BY <1>1, <3>1, <3>4, <4>2, CountStep
    <3>5. CASE o.op \in {"produce", "wrap cons", "stop if empty", "outb", "hw empty?"}
      <4>1. Main(x).op \in {"++count", "stop if empty", "outb", "none", "serial"}
        BY <1>1, <3>5 DEF InOrder, Rests
      <4>2. Load(Then(o, x)) = 0 /\ Load(x) = 0
        BY <2>1, <3>5, <4>1 DEF Load, LoadOps
      <4>3. Do(m, o).count = m.count
        BY <3>5, CountStep
      <4> QED BY <1>1, <3>1, <4>2, <4>3
    <3> QED BY <2>4, <3>2, <3>3, <3>4, <3>5 DEF PlainMainOps, SerialOps
  <2> QED BY <1>3, <2>2, <2>3, <2>4 DEF MainOps, PlainMainOps, SerialOps
<1> QED BY <1>2, <1>3

-----------------------------------------------------------------------------
(***************************************************************************)
(* Types, and the order of the operations on the FIFO, of the kernel and   *)
(* of a handler: they keep the count from going below zero.                *)
(***************************************************************************)
Typed ==
  /\ mach \in Mach /\ todo \in Stack /\ held \in Stack
  /\ serving \in BOOLEAN /\ warned \in BOOLEAN /\ escaped \in BOOLEAN
  /\ key \in Keys \cup {NoKey} /\ pressed \in Nat
  /\ ~serving => held = <<>>

Counted ==
  /\ Serially(todo) /\ Serially(held)
  /\ Load(todo) + Load(held) <= mach.count

Inv == Typed /\ Counted

LEMMA ExecuteStep ==
  ASSUME Typed, Execute
  PROVE  \E o \in Ops : \E x \in Stack :
           /\ todo = Then(o, x) /\ mach' = Do(mach, o) /\ todo' = After(mach, o, x)
           /\ UNCHANGED <<serving, held, key, prints, pressed, warned, escaped>>
<1>1. mach \in Mach /\ todo \in Stack /\ todo # <<>>
  BY DEF Typed, Execute
<1>2. todo = Then(Head(todo), Tail(todo)) /\ Head(todo) \in Ops /\ Tail(todo) \in Stack
  BY <1>1, Unfold DEF Stack
<1>3. PICK o \in Ops, x \in Stack : o = Head(todo) /\ x = Tail(todo)
  BY <1>2
<1>4. mach' = Do(mach, o) /\ todo' = Calls(mach, o) \o x
  BY <1>3 DEF Execute
<1>5. Calls(mach, o) \o x = After(mach, o, x)
  BY <1>1, CallsCode
<1> QED BY <1>2, <1>3, <1>4, <1>5 DEF Execute

LEMMA Lights ==
  ASSUME NEW m \in Mach, NEW b \in BOOLEAN, NEW u \in 0..UartSize
  PROVE  /\ [m EXCEPT !.cpu = b] \in Mach /\ [m EXCEPT !.uart = u] \in Mach
         /\ Fifo([m EXCEPT !.cpu = b]) = Fifo(m) /\ Fifo([m EXCEPT !.uart = u]) = Fifo(m)
         /\ Screen([m EXCEPT !.cpu = b]) = Screen(m) /\ Screen([m EXCEPT !.uart = u]) = Screen(m)
         /\ Flags([m EXCEPT !.uart = u]) = Flags(m)
  BY DEF Mach, Fifo, Screen, Flags

LEMMA MachSteps ==
  ASSUME Typed
  PROVE  /\ UartSent => /\ mach' \in Mach /\ Fifo(mach') = Fifo(mach)
                        /\ Screen(mach') = Screen(mach) /\ Flags(mach') = Flags(mach)
         /\ Interrupt \/ Return =>
              mach' \in Mach /\ Fifo(mach') = Fifo(mach) /\ Screen(mach') = Screen(mach)
<1>1. mach \in Mach
  BY DEF Typed
<1>5. 0 \in 0..UartSize
  BY ConsoleAssumption
<1>2. ASSUME UartSent PROVE mach' \in Mach /\ Fifo(mach') = Fifo(mach)
                            /\ Screen(mach') = Screen(mach) /\ Flags(mach') = Flags(mach)
  <2>1. PICK u \in 0..UartSize : u = mach.uart - 1
    BY <1>1, <1>2, MachFields, ConsoleAssumption DEF UartSent
  <2>2. mach' = [mach EXCEPT !.uart = u]
    BY <1>2, <2>1 DEF UartSent
  <2> QED BY <1>1, <2>2, Lights
<1>3. ASSUME Interrupt PROVE mach' \in Mach /\ Fifo(mach') = Fifo(mach) /\ Screen(mach') = Screen(mach)
  <2>1. mach' = [mach EXCEPT !.cpu = FALSE]
    BY <1>3 DEF Interrupt
  <2> QED BY <1>1, <1>5, <2>1, Lights
<1>4. ASSUME Return PROVE mach' \in Mach /\ Fifo(mach') = Fifo(mach) /\ Screen(mach') = Screen(mach)
  <2>1. mach' = [mach EXCEPT !.cpu = TRUE]
    BY <1>4 DEF Return
  <2> QED BY <1>1, <1>5, <2>1, Lights
<1> QED BY <1>2, <1>3, <1>4

LEMMA MachStart ==
  Booted \in Mach
<1>1. PICK cell, buff : /\ cell = [i \in 0..(Rows * Cols - 1) |-> NUL]
                        /\ buff = [i \in 0..(BuffSize - 1) |-> NUL]
  OBVIOUS
<1>2. cell \in [0..(Rows * Cols - 1) -> Letters] /\ buff \in [0..(BuffSize - 1) -> Letters]
  BY <1>1, LetterFacts
<1>3. 0 \in 0..BuffSize /\ 0 \in 0..UartSize /\ <<>> \in Texts
  BY ConsoleAssumption DEF Texts
<1>4. Booted = [prev |-> FALSE, curr |-> FALSE, cpu |-> FALSE, row |-> 0, col |-> 0,
                cell |-> cell, wild |-> FALSE, buff |-> buff, prod |-> 0, cons |-> 0,
                count |-> 0, idle |-> TRUE, stray |-> FALSE,
                uart |-> 0, taken |-> <<>>, line |-> <<>>]
  BY <1>1 DEF Booted
<1> QED BY <1>2, <1>3, <1>4 DEF Mach

(* system_initialization() from IRQ_enable() on. *)
Starting == Enabling(Printing(<<LF>>))

LEMMA StartCode ==
  /\ IRQ_enable \o printk(<<LF>>) = Starting /\ Starting \in Stack
  /\ Serially(Starting) /\ Main(Starting).op = "serial"
<1>1. PICK p \in Stack : p = printk(<<LF>>) /\ p = Printing(<<LF>>)
  BY PrintingCode, LetterFacts
<1>2. Serially(p) /\ Main(p).op = "serial"
  BY <1>1, PrintingCode, LetterFacts
<1>3. IRQ_enable \o p = Enabling(p)
  BY IrqCode DEF Enabling
<1>4. Alike(Enabling(p), p)
  BY AlikeSelf, SectionsAlike
<1> QED BY <1>1, <1>2, <1>3, <1>4 DEF Alike, Starting

LEMMA TypedStep ==
  ASSUME Inv, [Next]_vars
  PROVE  Inv'
<1>1. /\ mach \in Mach /\ todo \in Stack /\ held \in Stack
      /\ serving \in BOOLEAN /\ warned \in BOOLEAN /\ escaped \in BOOLEAN
      /\ key \in Keys \cup {NoKey} /\ pressed \in Nat
      /\ ~serving => held = <<>>
  BY DEF Inv, Typed
<1>2. Serially(todo) /\ Serially(held) /\ Load(todo) + Load(held) <= mach.count
  BY DEF Inv, Counted
<1>3. /\ <<>> \in Stack /\ Serially(<<>>) /\ Load(<<>>) = 0 /\ Main(<<>>).op = "none"
      /\ Load(todo) \in {0, 1} /\ Load(held) \in {0, 1} /\ mach.count \in Int
  <2>1. <<>> \in Stack
    BY DEF Stack
  <2>2. REEN \in Ops
    BY SideOps
  <2>3. Serially(<<>>) /\ Main(<<>>).op = "none"
    BY <2>1, <2>2, SerialThen DEF Nothing, Op
  <2>4. Load(<<>>) = 0
    BY <2>3 DEF Load, LoadOps
  <2>5. Load(todo) \in {0, 1} /\ Load(held) \in {0, 1}
    BY DEF Load
  <2> QED BY <1>1, <2>1, <2>3, <2>4, <2>5, MachFields
<1>4. CASE Execute
  <2>1. Typed
    BY DEF Inv
  <2>2. PICK o \in Ops, x \in Stack :
          /\ todo = Then(o, x) /\ mach' = Do(mach, o) /\ todo' = After(mach, o, x)
          /\ UNCHANGED <<serving, held, key, prints, pressed, warned, escaped>>
    BY <1>4, <2>1, ExecuteStep
  <2>3. mach' \in Mach
    BY <1>1, <2>2, DoTypes
  <2>4. todo' \in Stack /\ Serially(todo')
    BY <1>1, <1>2, <2>2, OrderAfter
  <2>5. Load(todo') - Load(todo) <= mach'.count - mach.count
    BY <1>1, <1>2, <2>2, LoadAfter
  <2>6. Load(todo') + Load(held) <= mach'.count
    <3>1. mach'.count \in Int /\ Load(todo') \in {0, 1}
      BY <2>3, MachFields DEF Load
    <3> QED BY <1>2, <1>3, <2>5, <3>1
  <2>7. Typed'
    BY <1>1, <2>2, <2>3, <2>4 DEF Typed
  <2>8. Counted'
    BY <1>2, <2>2, <2>4, <2>6 DEF Counted
  <2> QED BY <2>7, <2>8 DEF Inv
<1>5. ASSUME NEW s \in Strings, Message(s) PROVE Inv'
  <2>1. s \in Texts
    BY LetterFacts
  <2>2. printk(s) \in Stack /\ Serially(printk(s)) /\ Main(printk(s)).op = "serial"
    BY <2>1, PrintingCode
  <2>3. todo = <<>> /\ todo' = printk(s) /\ UNCHANGED <<mach, serving, held, key, pressed, warned, escaped>>
    BY <1>5 DEF Message
  <2>4. Load(todo') = 0
    BY <2>2, <2>3 DEF Load, LoadOps
  <2> QED BY <1>1, <1>2, <1>3, <2>2, <2>3, <2>4 DEF Inv, Typed, Counted
<1>6. ASSUME NEW k \in Keys, Press(k) PROVE Inv'
  <2>1. pressed' = pressed + 1 /\ key' = k
    BY <1>6 DEF Press
  <2>2. UNCHANGED <<mach, todo, serving, held, prints, warned, escaped>>
    BY <1>6 DEF Press
  <2> QED BY <1>1, <1>2, <2>1, <2>2 DEF Inv, Typed, Counted
<1>7. CASE UartSent
  <2>1. mach' \in Mach /\ Fifo(mach') = Fifo(mach)
    BY <1>7, MachSteps DEF Inv
  <2>2. mach'.count = mach.count
    BY <2>1 DEF Fifo
  <2>3. UNCHANGED <<todo, serving, held, key, prints, pressed, warned, escaped>>
    BY <1>7 DEF UartSent
  <2> QED BY <1>1, <1>2, <2>1, <2>2, <2>3 DEF Inv, Typed, Counted
<1>8. CASE Interrupt
  <2>1. mach' \in Mach /\ Fifo(mach') = Fifo(mach)
    BY <1>8, MachSteps DEF Inv
  <2>2. mach'.count = mach.count
    BY <2>1 DEF Fifo
  <2>3. ~serving /\ serving' = TRUE /\ held' = todo /\ key' = NoKey /\ pressed' = pressed
    BY <1>8 DEF Interrupt
  <2>4. escaped' \in BOOLEAN /\ warned' \in BOOLEAN
    <3>1. warned' \in BOOLEAN
      BY <1>1, <1>8 DEF Interrupt
    <3>2. escaped' \in BOOLEAN
      <4>1. CASE UNCHANGED escaped
        BY <1>1, <4>1
      <4>2. CASE ~UNCHANGED escaped
        BY <1>8, <4>2 DEF Interrupt
      <4> QED BY <4>1, <4>2
    <3> QED BY <3>1, <3>2
  <2>5. \E s \in Texts : todo' = printk(s) \/ todo' = VGA_display_str(s)
    BY <1>8, LetterFacts DEF Interrupt
  <2>6. todo' \in Stack /\ Serially(todo') /\ Main(todo').op \in {"none", "serial"}
    BY <2>5, PrintingCode
  <2>7. Load(todo') = 0
    BY <2>6 DEF Load, LoadOps
  <2>8. Load(held') + Load(todo') <= mach'.count
    BY <1>1, <1>2, <1>3, <2>2, <2>3, <2>7
  <2>9. Typed'
    BY <1>1, <2>1, <2>3, <2>4, <2>6 DEF Typed
  <2>10. Counted'
    BY <1>2, <1>3, <2>3, <2>6, <2>7, <2>8 DEF Counted
  <2> QED BY <2>9, <2>10 DEF Inv
<1>9. CASE Return
  <2>1. mach' \in Mach /\ Fifo(mach') = Fifo(mach)
    BY <1>9, MachSteps DEF Inv
  <2>2. mach'.count = mach.count
    BY <2>1 DEF Fifo
  <2>3. /\ todo = <<>> /\ todo' = held /\ serving' = FALSE /\ held' = <<>>
        /\ UNCHANGED <<key, prints, pressed, warned, escaped>>
    BY <1>9 DEF Return
  <2>4. Load(todo') + Load(held') <= mach'.count
    BY <1>2, <1>3, <2>2, <2>3
  <2>5. Typed'
    BY <1>1, <1>3, <2>1, <2>3 DEF Typed
  <2>6. Counted'
    BY <1>2, <1>3, <2>3, <2>4 DEF Counted
  <2> QED BY <2>5, <2>6 DEF Inv
<1>10. CASE UNCHANGED vars
  BY <1>1, <1>2, <1>10 DEF Inv, Typed, Counted, vars
<1> QED BY <1>4, <1>5, <1>6, <1>7, <1>8, <1>9, <1>10 DEF Next

LEMMA TypedStart ==
  ASSUME Init
  PROVE  Inv
<1>1. mach = Booted /\ todo = Starting /\ serving = FALSE /\ held = <<>>
      /\ key = NoKey /\ pressed = 0 /\ warned = FALSE /\ escaped = FALSE
  BY StartCode DEF Init
<1>2. mach \in Mach /\ mach.count = 0
  BY <1>1, MachStart DEF Booted
<1>3. held \in Stack /\ Serially(held) /\ Main(held).op = "none"
  <2>1. <<>> \in Stack
    BY DEF Stack
  <2>2. REEN \in Ops
    BY SideOps
  <2> QED BY <1>1, <2>1, <2>2, SerialThen DEF Nothing, Op
<1>4. Load(todo) = 0 /\ Load(held) = 0
  BY <1>1, <1>3, StartCode DEF Load, LoadOps
<1>5. Typed
  <2>1. todo \in Stack
    BY <1>1, StartCode
  <2>2. key \in Keys \cup {NoKey} /\ pressed \in Nat
    BY <1>1
  <2> QED BY <1>1, <1>2, <1>3, <2>1, <2>2 DEF Typed
<1>6. Counted
  <2>1. Serially(todo)
    BY <1>1, StartCode
  <2>2. Load(todo) + Load(held) <= mach.count
    BY <1>2, <1>4
  <2> QED BY <1>3, <2>1, <2>2 DEF Counted
<1> QED BY <1>5, <1>6 DEF Inv

(***************************************************************************)
(* The operations that are left are well-formed, and the FIFO never counts *)
(* below what the consumers under way will take from it (prod_add(),       *)
(* cons_get(), serial_io_driver.c:160-253).                                *)
(***************************************************************************)
THEOREM Invariance == Spec => []Inv
<1>1. Init => Inv
  BY TypedStart
<1>2. Inv /\ [Next]_vars => Inv'
  BY TypedStep
<1> QED BY <1>1, <1>2, PTL DEF Spec

LEMMA InvTypes ==
  ASSUME Inv
  PROVE  TypeOK
<1>1. mach \in Mach /\ serving \in BOOLEAN /\ key \in Keys \cup {NoKey}
  BY DEF Inv, Typed
<1>2. mach.count \in Nat
  <2>1. mach.count \in Int
    BY <1>1, MachFields
  <2>2. Load(todo) \in {0, 1} /\ Load(held) \in {0, 1} /\ Load(todo) + Load(held) <= mach.count
    BY DEF Inv, Counted, Load
  <2> QED BY <2>1, <2>2
<1> QED BY <1>1, <1>2, MachFields DEF TypeOK

-----------------------------------------------------------------------------
(***************************************************************************)
(* The FIFO while no handler prints: between two bytes it is empty and     *)
(* idle, and what else it may hold follows from the first operation on it  *)
(* that the kernel has still to do.                                        *)
(***************************************************************************)
Kept(m) == (m.stray => FALSE) /\ m.cons \in 0..(BuffSize - 1)

Quiet(m) == Kept(m) /\ m.taken = m.line /\ m.idle /\ m.count = 0 /\ m.prod = m.cons

(* One byte is in the buffer, and prod is past it. *)
Filled(m, n) ==
  /\ Kept(m) /\ \E d \in Letters : m.taken = Append(m.line, d) /\ m.buff[m.cons] = d
  /\ m.prod = m.cons + 1 /\ m.count = n

Ready(m) ==
  /\ Kept(m) /\ \E d \in Letters : m.taken = Append(m.line, d) /\ m.buff[m.cons] = d
  /\ m.prod = Wrap(m.cons + 1) /\ m.count = 1

(* It has left the buffer, and cons is past it. *)
Drained(m, d, n) ==
  /\ (m.stray => FALSE) /\ d \in Letters /\ m.taken = Append(m.line, d)
  /\ m.cons \in 1..BuffSize /\ m.prod = Wrap(m.cons) /\ m.count = n

Leaving(m, d) ==
  Kept(m) /\ d \in Letters /\ m.taken = Append(m.line, d) /\ m.prod = m.cons /\ m.count = 0

Sending(m, x) ==
  LET n == Main(x).op
  IN  /\ n \in {"none", "serial", "full?", "produce"} => Quiet(m)
      /\ n = "++count" => Filled(m, 0) /\ m.idle
      /\ n = "wrap prod" => Filled(m, 1) /\ m.idle
      /\ n \in {"first?", "idle=false"} => Ready(m) /\ m.idle
      /\ n \in {"empty?", "consume"} => Ready(m)
      /\ n = "--count" => Drained(m, Out(x).arg, 1)
      /\ n = "wrap cons" => Drained(m, Out(x).arg, 0)
      /\ n = "stop if empty" => Leaving(m, Out(x).arg)
      /\ n = "outb" => Leaving(m, Out(x).arg) /\ m.idle
      /\ n # "hw empty?"

LEMMA SendingSame ==
  ASSUME NEW m, NEW n, Fifo(n) = Fifo(m), NEW x, NEW y, Main(y) = Main(x), Out(y) = Out(x),
         Sending(m, x)
  PROVE  Sending(n, y)
<1>1. /\ n.buff = m.buff /\ n.prod = m.prod /\ n.cons = m.cons /\ n.count = m.count
      /\ n.taken = m.taken /\ n.line = m.line /\ n.idle = m.idle /\ n.stray = m.stray
  BY DEF Fifo
<1> QED BY <1>1 DEF Sending, Quiet, Filled, Ready, Drained, Leaving, Kept

LEMMA SideSending ==
  ASSUME NEW m \in Mach, NEW o \in Ops, o.op \notin MainOps, NEW x \in Stack
  PROVE  /\ Fifo(Do(m, o)) = Fifo(m)
         /\ Main(After(m, o, x)) = Main(Then(o, x)) /\ Out(After(m, o, x)) = Out(Then(o, x))
<1>1. o.op \notin SerialOps /\ o.op # "outb"
  BY DEF MainOps, SerialOps
<1>2. Fifo(Do(m, o)) = Fifo(m)
  BY <1>1, IrqStep, VgaStep, OtherStep
<1>3. Main(After(m, o, x)) = Main(x) /\ Out(After(m, o, x)) = Out(x)
  BY SideAfter DEF Alike
<1>4. Main(Then(o, x)) = Main(x) /\ Out(Then(o, x)) = Out(x)
  BY <1>1, SerialThen
<1> QED BY <1>2, <1>3, <1>4

LEMMA SendingStep ==
  ASSUME NEW m \in Mach, NEW o \in Ops, NEW x \in Stack, Serially(Then(o, x)), Sending(m, Then(o, x))
  PROVE  Sending(Do(m, o), After(m, o, x))
<1>1. CASE o.op \notin MainOps
  BY <1>1, SideSending, SendingSame
<1>2. CASE o.op \in MainOps
  <2>1. Main(Then(o, x)) = o /\ InOrder(o, x) /\ Serially(x)
    BY <1>2, SerialThen
  <2>2. CASE o.op \in {"serial", "full?"}
    <3>1. Quiet(m) /\ Do(m, o) = m
      <4>1. Quiet(m)
        BY <2>1, <2>2 DEF Sending
      <4>2. o.op \notin IrqOps \cup VgaOps \cup SerialOps
        BY <2>2 DEF IrqOps, VgaOps, SerialOps
      <4> QED BY <4>1, <4>2, OtherStep
    <3>2. Main(x).op = "none"
      BY <2>1, <2>2 DEF InOrder
    <3>3. Main(After(m, o, x)).op \in {"none", "full?", "produce"}
      BY <2>1, <2>2, <3>2, SerialAfter
    <3> QED BY <3>1, <3>3 DEF Sending
  <2>3. CASE o.op = "first?"
    <3>1. Ready(m) /\ m.idle
      BY <2>1, <2>3 DEF Sending
    <3>2. m.count = 1
      BY <3>1 DEF Ready
    <3>3. Main(x).op \in Rests
      BY <2>1, <2>3 DEF InOrder
    <3>4. Main(After(m, o, x)).op = "idle=false"
      BY <2>1, <2>3, <3>1, <3>2, <3>3, FirstAfter
    <3>5. Do(m, o) = m
      <4>1. o.op \notin IrqOps \cup VgaOps \cup SerialOps
        BY <2>3 DEF IrqOps, VgaOps, SerialOps
      <4> QED BY <4>1, OtherStep
    <3> QED BY <3>1, <3>4, <3>5 DEF Sending
  <2>4. CASE o.op = "empty?"
    <3>1. Ready(m)
      BY <2>1, <2>4 DEF Sending
    <3>2. m.count # 0
      BY <3>1 DEF Ready
    <3>3. Main(x).op \in Rests
      BY <2>1, <2>4 DEF InOrder
    <3>4. Main(After(m, o, x)).op = "consume"
      BY <2>1, <2>4, <3>2, <3>3, FirstAfter
    <3>5. Do(m, o) = m
      <4>1. o.op \notin IrqOps \cup VgaOps \cup SerialOps
        BY <2>4 DEF IrqOps, VgaOps, SerialOps
      <4> QED BY <4>1, OtherStep
    <3> QED BY <3>1, <3>4, <3>5 DEF Sending
  <2>5. CASE o.op \in SerialOps
    <3>1. Do(m, o) = DoSerial(m, o)
      BY <2>5 DEF Do, IrqOps, VgaOps, SerialOps
    <3>2. CASE o.op = "consume"
      <4>1. PICK d \in Letters : m.taken = Append(m.line, d) /\ m.buff[m.cons] = d
        BY <2>1, <3>2 DEF Sending, Ready
      <4>2. (m.stray => FALSE) /\ m.cons \in 0..(BuffSize - 1) /\ m.prod = Wrap(m.cons + 1) /\ m.count = 1
        BY <2>1, <3>2 DEF Sending, Ready, Kept
      <4>3. Do(m, o) = [m EXCEPT !.cons = m.cons + 1]
        <5>1. m.cons \in DOMAIN m.buff
          BY <4>2, MachFields
        <5> QED BY <3>1, <3>2, <5>1 DEF DoSerial, Read
      <4>4. Main(x).op \in Rests
        BY <2>1, <3>2 DEF InOrder
      <4>5. Main(After(m, o, x)).op = "--count" /\ Out(After(m, o, x)).arg = d
        <5>1. m.cons < BuffSize
          BY <4>2, Numbers
        <5> QED BY <2>1, <3>2, <4>1, <4>4, <5>1, FirstAfter
      <4>6. Drained(Do(m, o), d, 1)
        <5>1. m.cons + 1 \in 1..BuffSize
          BY <4>2, Numbers
        <5>2. /\ Do(m, o).cons = m.cons + 1 /\ Do(m, o).prod = m.prod /\ Do(m, o).count = m.count
              /\ Do(m, o).taken = m.taken /\ Do(m, o).line = m.line /\ Do(m, o).stray = m.stray
          BY <4>3 DEF Mach
        <5> QED BY <4>1, <4>2, <5>1, <5>2 DEF Drained
      <4> QED BY <4>5, <4>6 DEF Sending
    <3>3. CASE o.op # "consume"
      <4>1. After(m, o, x) = x
        BY <2>5, <3>3, PlainAfter DEF PlainMainOps
      <4>2. CASE o.op = "produce"
        <5>1. Quiet(m) /\ Main(x).op = "++count"
          BY <2>1, <4>2 DEF Sending, InOrder
        <5>2. /\ o.arg \in Letters /\ (m.stray => FALSE) /\ m.cons \in 0..(BuffSize - 1)
              /\ m.prod = m.cons /\ m.taken = m.line /\ m.idle /\ m.count = 0
          BY <4>2, <5>1, OpFields DEF LetterOps, Quiet, Kept
        <5>3. m.prod \in DOMAIN m.buff
          BY <5>2, MachFields
        <5>4. Do(m, o) = [m EXCEPT !.buff[m.prod] = o.arg, !.prod = m.prod + 1, !.taken = Append(m.taken, o.arg)]
          BY <3>1, <4>2, <5>3 DEF DoSerial, Produced
        <5>5. /\ Do(m, o).taken = Append(m.taken, o.arg) /\ Do(m, o).line = m.line
              /\ Do(m, o).buff = [m.buff EXCEPT ![m.prod] = o.arg] /\ Do(m, o).cons = m.cons
              /\ Do(m, o).prod = m.prod + 1 /\ Do(m, o).count = m.count
              /\ Do(m, o).stray = m.stray /\ Do(m, o).idle = m.idle
          BY <5>4 DEF Mach
        <5>6. Do(m, o).buff[Do(m, o).cons] = o.arg
          BY <5>2, <5>3, <5>5
        <5>7. Filled(Do(m, o), 0) /\ Do(m, o).idle
          BY <5>2, <5>5, <5>6 DEF Filled, Kept
        <5> QED BY <4>1, <5>1, <5>7 DEF Sending
      <4>3. CASE o.op = "++count"
        <5>1. Filled(m, 0) /\ m.idle /\ Main(x).op = "wrap prod"
          BY <2>1, <4>3 DEF Sending, InOrder
        <5>2. Do(m, o) = [m EXCEPT !.count = m.count + 1]
          BY <3>1, <4>3 DEF DoSerial
        <5>4. /\ Do(m, o).count = m.count + 1 /\ Do(m, o).prod = m.prod
              /\ Do(m, o).cons = m.cons /\ Do(m, o).buff = m.buff
              /\ Do(m, o).taken = m.taken /\ Do(m, o).line = m.line
              /\ (Do(m, o).stray => m.stray) /\ (m.idle => Do(m, o).idle)
          BY <5>2 DEF Mach
        <5>5. PICK n : n = Do(m, o)
          OBVIOUS
        <5>6. PICK d \in Letters : m.taken = Append(m.line, d) /\ m.buff[m.cons] = d
          BY <5>1 DEF Filled
        <5>7. Kept(n)
          BY <5>1, <5>4, <5>5 DEF Filled, Kept
        <5>8. n.prod = n.cons + 1 /\ n.count = 1 /\ (m.idle => n.idle)
          <6>1. m.prod = m.cons + 1 /\ m.count = 0
            BY <5>1 DEF Filled
          <6>2. n.count = 0 + 1
            BY <5>4, <5>5, <6>1
          <6>3. n.prod = n.cons + 1
            BY <5>4, <5>5, <6>1
          <6>4. m.idle => n.idle
            BY <5>4, <5>5
          <6> QED BY <6>2, <6>3, <6>4
        <5>9. n.taken = Append(n.line, d) /\ n.buff[n.cons] = d
          BY <5>4, <5>5, <5>6
        <5>3. Filled(Do(m, o), 1) /\ Do(m, o).idle
          BY <5>1, <5>5, <5>7, <5>8, <5>9 DEF Filled
        <5> QED BY <4>1, <5>1, <5>3 DEF Sending
      <4>9. CASE o.op = "wrap prod"
        <5>1. Filled(m, 1) /\ m.idle /\ Main(x).op = "first?"
          BY <2>1, <4>9 DEF Sending, InOrder
        <5>2. Do(m, o) = [m EXCEPT !.prod = Wrap(m.prod)]
          BY <3>1, <4>9 DEF DoSerial
        <5>3. Ready(Do(m, o)) /\ Do(m, o).idle
          BY <5>1, <5>2 DEF Filled, Ready, Kept, Mach
        <5> QED BY <4>1, <5>1, <5>3 DEF Sending
      <4>4. CASE o.op = "idle=false"
        <5>1. Ready(m) /\ Main(x).op = "empty?"
          BY <2>1, <4>4 DEF Sending, InOrder
        <5>2. Do(m, o) = [m EXCEPT !.idle = FALSE]
          BY <3>1, <4>4 DEF DoSerial
        <5>3. Ready(Do(m, o))
          BY <5>1, <5>2 DEF Ready, Kept, Mach
        <5> QED BY <4>1, <5>1, <5>3 DEF Sending
      <4>5. CASE o.op = "--count"
        <5>1. Drained(m, Out(Then(o, x)).arg, 1) /\ Main(x).op = "wrap cons"
          BY <2>1, <4>5 DEF Sending, InOrder
        <5>2. Do(m, o) = [m EXCEPT !.count = m.count - 1]
          BY <3>1, <4>5 DEF DoSerial
        <5>3. Out(Then(o, x)) = Out(x)
          BY <4>5, SerialThen
        <5>4. PICK d : d = Out(x).arg
          OBVIOUS
        <5>5. Drained(Do(m, o), d, 0)
          <6>1. Drained(m, d, 1)
            BY <5>1, <5>3, <5>4
          <6>2. /\ Do(m, o).taken = m.taken /\ Do(m, o).line = m.line
                /\ Do(m, o).prod = m.prod /\ Do(m, o).cons = m.cons
                /\ Do(m, o).stray = m.stray /\ Do(m, o).count = m.count - 1
            BY <5>2 DEF Mach
          <6> QED BY <6>1, <6>2 DEF Drained
        <5> QED BY <4>1, <5>1, <5>4, <5>5 DEF Sending
      <4>10. CASE o.op = "wrap cons"
        <5>1. Drained(m, Out(Then(o, x)).arg, 0) /\ Main(x).op = "stop if empty"
          BY <2>1, <4>10 DEF Sending, InOrder
        <5>2. Do(m, o) = [m EXCEPT !.cons = Wrap(m.cons)]
          BY <3>1, <4>10 DEF DoSerial
        <5>3. Out(Then(o, x)) = Out(x)
          BY <4>10, SerialThen
        <5>4. PICK d : d = Out(x).arg
          OBVIOUS
        <5>5. Leaving(Do(m, o), d)
          <6>1. Drained(m, d, 0)
            BY <5>1, <5>3, <5>4
          <6>2. /\ Do(m, o).taken = m.taken /\ Do(m, o).line = m.line
                /\ Do(m, o).prod = m.prod /\ Do(m, o).cons = Wrap(m.cons)
                /\ Do(m, o).stray = m.stray /\ Do(m, o).count = m.count
            BY <5>2 DEF Mach
          <6>3. m.cons \in 1..BuffSize => Wrap(m.cons) \in 0..(BuffSize - 1)
            BY Numbers DEF Wrap
          <6> QED BY <6>1, <6>2, <6>3 DEF Drained, Leaving, Kept
        <5> QED BY <4>1, <5>1, <5>4, <5>5 DEF Sending
      <4>6. CASE o.op = "stop if empty"
        <5>1. Leaving(m, Out(Then(o, x)).arg) /\ Main(x).op = "outb"
          BY <2>1, <4>6 DEF Sending, InOrder
        <5>2. Do(m, o) = [m EXCEPT !.idle = (m.count = 0) \/ m.idle]
          BY <3>1, <4>6 DEF DoSerial, StopIfEmpty
        <5>3. Out(Then(o, x)) = Out(x)
          BY <4>6, SerialThen
        <5>4. Leaving(Do(m, o), Out(x).arg)
          BY <5>1, <5>2, <5>3 DEF Leaving, Kept, Mach
        <5>5. Do(m, o).idle
          BY <5>1, <5>2 DEF Leaving, Mach
        <5> QED BY <4>1, <5>1, <5>4, <5>5 DEF Sending
      <4>7. CASE o.op = "outb"
        <5>1. Leaving(m, Out(Then(o, x)).arg) /\ m.idle /\ Main(x).op \in Rests
          BY <2>1, <4>7 DEF Sending, InOrder
        <5>2. /\ Do(m, o).line = Append(m.line, o.arg) /\ Do(m, o).taken = m.taken
              /\ Do(m, o).idle = m.idle /\ Do(m, o).count = m.count /\ Do(m, o).stray = m.stray
              /\ Do(m, o).prod = m.prod /\ Do(m, o).cons = m.cons
          BY <3>1, <4>7 DEF DoSerial, Written, Mach
        <5>3. Out(Then(o, x)) = o
          BY <4>7, SerialThen
        <5>4. Quiet(Do(m, o))
          BY <5>1, <5>2, <5>3 DEF Leaving, Quiet, Kept
        <5> QED BY <4>1, <5>1, <5>4 DEF Sending, Rests
      <4>8. o.op # "hw empty?"
        BY <2>1 DEF Sending
      <4> QED BY <2>5, <3>3, <4>2, <4>3, <4>4, <4>5, <4>6, <4>7, <4>8, <4>9, <4>10 DEF SerialOps
    <3> QED BY <3>2, <3>3
  <2> QED BY <1>2, <2>2, <2>3, <2>4, <2>5 DEF MainOps
<1> QED BY <1>1, <1>2

(* The operations of the kernel. *)
Kernel == IF serving THEN held ELSE todo

InTurn ==
  ~warned => /\ serving => Main(todo).op = "none"
             /\ Sending(mach, Kernel)

LEMMA EmptyStack ==
  <<>> \in Stack /\ Serially(<<>>) /\ Main(<<>>) = Nothing /\ Nothing.op = "none"
<1>1. <<>> \in Stack
  BY DEF Stack
<1>2. REEN \in Ops
  BY SideOps
<1> QED BY <1>1, <1>2, SerialThen DEF Nothing, Op

LEMMA InTurnStart ==
  ASSUME Init
  PROVE  InTurn
<1>1. mach = Booted /\ todo = Starting /\ serving = FALSE
  BY StartCode DEF Init
<1>2. Quiet(mach)
  <2>1. 0 \in 0..(BuffSize - 1)
    BY Numbers
  <2> QED BY <1>1, <2>1 DEF Booted, Quiet, Kept
<1>3. Main(Kernel).op = "serial"
  BY <1>1, StartCode DEF Kernel
<1> QED BY <1>1, <1>2, <1>3 DEF InTurn, Sending

LEMMA InTurnStep ==
  ASSUME Inv, InTurn, [Next]_vars
  PROVE  InTurn'
<1>1. /\ mach \in Mach /\ todo \in Stack /\ held \in Stack /\ serving \in BOOLEAN
      /\ Serially(todo) /\ Serially(held) /\ Typed
  BY DEF Inv, Typed, Counted
<1>2. ASSUME ~warned PROVE (serving => Main(todo).op = "none") /\ Sending(mach, Kernel)
  BY <1>2 DEF InTurn
<1>3. SUFFICES ASSUME ~warned' PROVE (serving' => Main(todo').op = "none") /\ Sending(mach', Kernel')
  BY DEF InTurn
<1>4. ASSUME Fifo(mach') = Fifo(mach), ~warned, Kernel' = Kernel PROVE Sending(mach', Kernel')
  BY <1>2, <1>4, SendingSame
<1>5. CASE Execute
  <2>1. PICK o \in Ops, x \in Stack :
          /\ todo = Then(o, x) /\ mach' = Do(mach, o) /\ todo' = After(mach, o, x)
          /\ UNCHANGED <<serving, held, key, prints, pressed, warned, escaped>>
    BY <1>1, <1>5, ExecuteStep
  <2>2. ~warned
    BY <1>3, <2>1
  <2>3. CASE serving
    <3>1. Main(todo).op = "none"
      BY <1>2, <2>2, <2>3
    <3>2. o.op \notin MainOps
      <4>1. o.op \in MainOps => Main(todo) = o
        BY <2>1, SerialThen
      <4> QED BY <3>1, <4>1 DEF MainOps, SerialOps
    <3>3. Fifo(mach') = Fifo(mach) /\ Main(todo') = Main(todo)
      BY <1>1, <2>1, <3>2, SideSending
    <3>4. Kernel' = Kernel
      BY <2>1, <2>3 DEF Kernel
    <3> QED BY <1>4, <2>2, <3>1, <3>3, <3>4
  <2>4. CASE ~serving
    <3>1. Kernel = todo /\ Kernel' = todo' /\ ~serving'
      BY <2>1, <2>4 DEF Kernel
    <3>2. Sending(mach, Then(o, x)) /\ Serially(Then(o, x))
      BY <1>1, <1>2, <2>1, <2>2, <3>1
    <3>3. Sending(Do(mach, o), After(mach, o, x))
      BY <1>1, <3>2, SendingStep
    <3> QED BY <2>1, <3>1, <3>3
  <2> QED BY <2>3, <2>4
<1>6. ASSUME NEW s \in Strings, Message(s)
      PROVE  (serving' => Main(todo').op = "none") /\ Sending(mach', Kernel')
  <2>1. todo = <<>> /\ todo' = printk(s) /\ ~serving /\ UNCHANGED <<mach, serving, warned>>
    BY <1>6 DEF Message
  <2>2. Kernel = <<>> /\ Kernel' = printk(s)
    BY <2>1 DEF Kernel
  <2>3. Sending(mach, <<>>)
    BY <1>2, <1>3, <2>1, <2>2
  <2>4. Quiet(mach)
    BY <2>3, EmptyStack DEF Sending
  <2>5. Main(printk(s)).op = "serial"
    BY LetterFacts, PrintingCode
  <2>6. Sending(mach, printk(s))
    BY <2>4, <2>5 DEF Sending
  <2> QED BY <2>1, <2>2, <2>6
<1>7. ASSUME NEW k \in Keys, Press(k)
      PROVE  (serving' => Main(todo').op = "none") /\ Sending(mach', Kernel')
  <2>1. UNCHANGED <<mach, todo, serving, held, warned>>
    BY <1>7 DEF Press
  <2> QED BY <1>2, <1>3, <2>1 DEF Kernel
<1>8. CASE UartSent
  <2>1. Fifo(mach') = Fifo(mach) /\ UNCHANGED <<todo, serving, held, warned>>
    BY <1>1, <1>8, MachSteps DEF UartSent
  <2>2. Kernel' = Kernel
    BY <2>1 DEF Kernel
  <2> QED BY <1>2, <1>3, <1>4, <2>1, <2>2
<1>9. CASE Interrupt
  <2>1. Fifo(mach') = Fifo(mach)
    BY <1>1, <1>9, MachSteps
  <2>2. ~serving /\ serving' = TRUE /\ held' = todo /\ warned' = (warned \/ key = SilentKey)
    BY <1>9 DEF Interrupt
  <2>3. Kernel' = Kernel /\ ~warned /\ key # SilentKey
    BY <1>3, <2>2 DEF Kernel
  <2>4. \E s \in KeyStrings : todo' = VGA_display_str(s)
    BY <1>9, <2>3 DEF Interrupt
  <2>5. Main(todo').op = "none"
    BY <2>4, LetterFacts, PrintingCode
  <2> QED BY <1>4, <2>1, <2>3, <2>5
<1>10. CASE Return
  <2>1. Fifo(mach') = Fifo(mach)
    BY <1>1, <1>10, MachSteps
  <2>2. serving /\ serving' = FALSE /\ todo' = held /\ warned' = warned
    BY <1>10 DEF Return
  <2>3. Kernel' = Kernel
    BY <2>2 DEF Kernel
  <2> QED BY <1>3, <1>4, <2>1, <2>2, <2>3
<1>11. CASE UNCHANGED vars
  BY <1>2, <1>3, <1>11 DEF vars, Kernel
<1> QED BY <1>5, <1>6, <1>7, <1>8, <1>9, <1>10, <1>11 DEF Next

LEMMA InTurnOrder ==
  ASSUME Inv, InTurn
  PROVE  SentInOrder
<1>1. TypeOK /\ mach \in Mach
  BY InvTypes DEF Inv, Typed
<1>2. SUFFICES ASSUME ~warned
               PROVE  /\ Len(mach.line) <= Len(mach.taken)
                      /\ mach.line = SubSeq(mach.taken, 1, Len(mach.line))
                      /\ ~mach.stray
                      /\ Resting => mach.line = mach.taken /\ mach.idle
  BY <1>1 DEF SentInOrder
<1>3. Sending(mach, Kernel)
  BY <1>2 DEF InTurn
<1>4. PICK s, t \in Texts : s = mach.line /\ t = mach.taken
  BY <1>1, MachFields
<1>5. (t = s \/ \E d \in Letters : t = Append(s, d)) /\ (mach.stray => FALSE)
  <2>1. CASE Main(Kernel).op \in {"none", "serial", "full?", "produce"}
    BY <1>3, <1>4, <2>1 DEF Sending, Quiet, Kept
  <2>2. CASE Main(Kernel).op \in {"++count", "wrap prod", "first?", "idle=false", "empty?", "consume"}
    BY <1>3, <1>4, <2>2 DEF Sending, Filled, Ready, Kept
  <2>3. CASE Main(Kernel).op \in {"--count", "wrap cons", "stop if empty", "outb"}
    BY <1>3, <1>4, <2>3 DEF Sending, Drained, Leaving, Kept
  <2>4. Main(Kernel).op \in MainOps \cup {"none"}
    <3>1. Main(Kernel).op = "none" \/ Main(Kernel).op \in MainOps
      <4>1. CASE Places(Kernel, MainOps) = {}
        BY <4>1 DEF Main, FirstIn, Nothing, Op
      <4>2. CASE Places(Kernel, MainOps) # {}
        <5>1. PICK i \in Places(Kernel, MainOps) : Main(Kernel) = Kernel[i]
          <6>1. Places(Kernel, MainOps) \in SUBSET Nat
            BY DEF Places
          <6>2. PICK k \in Places(Kernel, MainOps) : \A j \in Places(Kernel, MainOps) : k <= j
            BY <4>2, <6>1, LeastElement
          <6> QED BY <4>2, <6>2, Zenon DEF Main, FirstIn
        <5> QED BY <5>1 DEF Places
      <4> QED BY <4>1, <4>2
    <3> QED BY <3>1
  <2>5. Main(Kernel).op # "hw empty?"
    BY <1>3 DEF Sending
  <2> QED BY <2>1, <2>2, <2>3, <2>4, <2>5 DEF MainOps, SerialOps
<1>6. Len(s) <= Len(t) /\ s = SubSeq(t, 1, Len(s))
  <2>1. CASE t = s
    BY <2>1 DEF Texts
  <2>2. CASE \E d \in Letters : t = Append(s, d)
    <3>1. PICK d \in Letters : t = Append(s, d)
      BY <2>2
    <3>2. SubSeq(Append(s, d), 1, Len(s)) = s /\ Len(Append(s, d)) = Len(s) + 1 /\ Len(s) \in Nat
      BY DEF Texts
    <3> QED BY <3>1, <3>2
  <2> QED BY <1>5, <2>1, <2>2
<1>7. ASSUME Resting PROVE mach.line = mach.taken /\ mach.idle
  <2>1. Kernel = <<>>
    BY <1>7 DEF Resting, Kernel
  <2>2. Quiet(mach)
    BY <1>3, <2>1, EmptyStack DEF Sending
  <2> QED BY <2>2 DEF Quiet
<1> QED BY <1>4, <1>5, <1>6, <1>7

(***************************************************************************)
(* As long as no handler prints, the bytes are handed to the UART in the   *)
(* order they came, each once, all of them have been whenever the kernel   *)
(* rests, and prod and cons never leave the buffer: prod_add(), cons_get() *)
(* and hw_write() (serial_io_driver.c:106-253) with keys handled between   *)
(* any two of their statements.                                            *)
(***************************************************************************)
THEOREM Order == Spec => []SentInOrder
<1>1. Init => Inv /\ InTurn
  BY TypedStart, InTurnStart
<1>2. Inv /\ InTurn /\ [Next]_vars => Inv' /\ InTurn'
  BY TypedStep, InTurnStep
<1>3. Inv /\ InTurn => SentInOrder
  BY InTurnOrder
<1> QED BY <1>1, <1>2, <1>3, PTL DEF Spec

-----------------------------------------------------------------------------
(***************************************************************************)
(* A set of stacks that the calls do not leave: operations are put in      *)
(* front, the three of IRQ_disable() together, and the ones that can move  *)
(* the cursor off the screen with the one behind them that sees to it.     *)
(***************************************************************************)
MoveOps == {"move", "newline", "row++", "scroll"}
Partner(name) ==
  IF name = "row++" THEN "bottom?" ELSE IF name = "scroll" THEN "last row" ELSE "end?"
BoundOps == (IrqOps \ {"enable if was"}) \cup MoveOps

Closed(G) ==
  /\ \A x \in G : x \in Stack /\ Disabling(x) \in G
  /\ \A o \in Ops : \A x \in G : o.op \notin BoundOps => Then(o, x) \in G
  /\ \A o \in Ops : \A w \in Ops : \A x \in G :
       o.op \in MoveOps /\ w.op = Partner(o.op) => Then(o, Then(w, x)) \in G

LEMMA ClosedText ==
  ASSUME NEW G, Closed(G), NEW s \in Texts, NEW x \in G
  PROVE  /\ Then(OpOf("chars", s), x) \in G /\ Then(OpOf("serial", s), x) \in G
         /\ Then(OpOf("display", s), x) \in G
         /\ s # <<>> => Then(OpOf("full?", s), x) \in G
<1>1. ASSUME NEW o \in Ops, o.op \in TextOps \cup {"full?"} PROVE Then(o, x) \in G
  <2>1. o.op \notin BoundOps
    BY <1>1 DEF TextOps, BoundOps, IrqOps, MoveOps
  <2> QED BY <2>1 DEF Closed
<1>2. ASSUME NEW name \in TextOps PROVE Then(OpOf(name, s), x) \in G
  <2>1. OpOf(name, s) \in Ops /\ OpOf(name, s).op \in TextOps
    BY OpTypes
  <2> QED BY <1>1, <2>1
<1>3. ASSUME s # <<>> PROVE Then(OpOf("full?", s), x) \in G
  <2>1. OpOf("full?", s) \in Ops /\ OpOf("full?", s).op = "full?"
    BY <1>3, OpTypes
  <2> QED BY <1>1, <2>1
<1> QED BY <1>2, <1>3 DEF TextOps

LEMMA ClosedShowing ==
  ASSUME NEW G, Closed(G), NEW c \in Letters, NEW x \in G
  PROVE  Showing(c, x) \in G
<1>1. PICK bs, nl, wr, show, st, mv :
        /\ bs = Op("backspace") /\ nl = Op("newline") /\ wr = Op("end?")
        /\ show = OpOf("display", <<"e">>) /\ st = OpOf("store", c) /\ mv = OpOf("move", c)
  OBVIOUS
<1>2. bs \in Ops /\ nl \in Ops /\ wr \in Ops /\ bs.op = "backspace" /\ nl.op = "newline" /\ wr.op = "end?"
  BY <1>1, ScreenTypes
<1>3. show \in Ops /\ st \in Ops /\ mv \in Ops /\ show.op = "display" /\ st.op = "store" /\ mv.op = "move"
  BY <1>1, OpTypes, LetterFacts DEF TextOps, LetterOps
<1>4. /\ bs.op \notin BoundOps /\ wr.op \notin BoundOps /\ show.op \notin BoundOps /\ st.op \notin BoundOps
      /\ REEN.op \notin BoundOps /\ REEN \in Ops /\ nl.op \in MoveOps /\ mv.op \in MoveOps
      /\ wr.op = Partner(nl.op) /\ wr.op = Partner(mv.op)
  BY <1>2, <1>3, SideOps DEF BoundOps, IrqOps, MoveOps, Partner
<1>5. PICK r : r = Then(REEN, x)
  OBVIOUS
<1>6. r \in G /\ Then(show, x) \in G
  BY <1>3, <1>4, <1>5 DEF Closed
<1>7. Then(nl, Then(wr, r)) \in G /\ Then(mv, Then(wr, r)) \in G /\ Then(wr, r) \in G
  BY <1>2, <1>3, <1>4, <1>6 DEF Closed
<1>8. Then(bs, Then(wr, r)) \in G /\ Then(st, Then(mv, Then(wr, r))) \in G
  BY <1>2, <1>3, <1>4, <1>7 DEF Closed
<1>9. Showing(c, x) = Disabling(IF c = ESC THEN Then(show, x)
                                ELSE IF c = BS THEN Then(bs, Then(wr, r))
                                ELSE IF c = LF THEN Then(nl, Then(wr, r))
                                ELSE Then(st, Then(mv, Then(wr, r))))
  BY <1>1, <1>5 DEF Showing
<1>10. PICK y \in G : Showing(c, x) = Disabling(y)
  BY <1>6, <1>7, <1>8, <1>9
<1> QED BY <1>10 DEF Closed

LEMMA ClosedDisplaying ==
  ASSUME NEW G, Closed(G), NEW s \in Texts, NEW x \in G
  PROVE  /\ Displaying(s, x) \in G
         /\ s # <<>> => Showing(Head(s), Then(OpOf("chars", Tail(s)), x)) \in G
<1>1. Displaying(s, x) \in G
  <2>1. PICK o : o = Op("erase cursor")
    OBVIOUS
  <2>2. o \in Ops /\ o.op = "erase cursor"
    BY <2>1, ScreenTypes
  <2>3. o.op \notin BoundOps
    BY <2>2 DEF BoundOps, IrqOps, MoveOps
  <2>4. PICK y \in G : y = Then(OpOf("chars", s), x)
    BY ClosedText
  <2>5. Then(o, y) \in G
    BY <2>2, <2>3 DEF Closed
  <2> QED BY <2>1, <2>4, <2>5 DEF Displaying
<1>2. ASSUME s # <<>> PROVE Showing(Head(s), Then(OpOf("chars", Tail(s)), x)) \in G
  <2>1. Head(s) \in Letters /\ Tail(s) \in Texts
    BY <1>2, TextFacts
  <2>2. PICK y \in G : y = Then(OpOf("chars", Tail(s)), x)
    BY <2>1, ClosedText
  <2> QED BY <2>1, <2>2, ClosedShowing
<1> QED BY <1>1, <1>2

LEMMA ClosedLine ==
  ASSUME NEW G, Closed(G), NEW x \in G
  PROVE  LineEnding(x) \in G /\ Scrolling(x) \in G
<1>1. PICK a, b, c, d, e : /\ a = Op("col=0") /\ b = Op("row++") /\ c = Op("bottom?")
                           /\ d = Op("scroll") /\ e = Op("last row")
  OBVIOUS
<1>2. /\ a \in Ops /\ b \in Ops /\ c \in Ops /\ d \in Ops /\ e \in Ops
      /\ a.op = "col=0" /\ b.op = "row++" /\ c.op = "bottom?" /\ d.op = "scroll" /\ e.op = "last row"
  BY <1>1, ScreenTypes
<1>3. /\ a.op \notin BoundOps /\ b.op \in MoveOps /\ d.op \in MoveOps
      /\ c.op = Partner(b.op) /\ e.op = Partner(d.op)
  BY <1>2 DEF BoundOps, IrqOps, MoveOps, Partner
<1>4. PICK y \in G : y = Then(b, Then(c, x))
  BY <1>2, <1>3 DEF Closed
<1>5. Then(a, y) \in G /\ Then(d, Then(e, x)) \in G
  BY <1>2, <1>3 DEF Closed
<1> QED BY <1>1, <1>4, <1>5 DEF LineEnding, Scrolling

LEMMA ClosedSerial ==
  ASSUME NEW G, Closed(G), NEW m \in Mach, NEW o \in Ops, o.op \in MainOps, NEW x \in G
  PROVE  After(m, o, x) \in G
<1>1. ASSUME NEW p \in Ops, p.op \in MainOps \cup {"enable if was"}, NEW y \in G PROVE Then(p, y) \in G
  <2>1. p.op \notin BoundOps
    BY <1>1 DEF MainOps, SerialOps, BoundOps, IrqOps, MoveOps
  <2> QED BY <2>1 DEF Closed
<1>2. ASSUME NEW name \in {"++count", "first?", "idle=false", "empty?", "hw empty?", "consume",
                           "--count", "stop if empty", "wrap prod", "wrap cons"},
             NEW y \in G
      PROVE  Then(Op(name), y) \in G
  <2>1. Op(name) \in Ops /\ Op(name).op = name
    BY FifoOps
  <2>2. Op(name).op \in MainOps \cup {"enable if was"}
    BY <2>1 DEF MainOps, SerialOps
  <2> QED BY <1>1, <2>1, <2>2
<1>3. ASSUME NEW y \in G PROVE Then(REEN, y) \in G
  BY <1>1, SideOps
<1>4. ASSUME NEW name \in {"produce", "outb"}, NEW c \in Letters, NEW y \in G
      PROVE  Then(OpOf(name, c), y) \in G
  <2>1. name \in LetterOps
    BY DEF LetterOps
  <2>2. OpOf(name, c) \in Ops /\ OpOf(name, c).op = name
    BY <2>1, OpTypes
  <2>3. OpOf(name, c).op \in MainOps \cup {"enable if was"}
    BY <2>2 DEF MainOps, SerialOps
  <2> QED BY <1>1, <2>2, <2>3
<1>5. ASSUME NEW y \in G PROVE Disabling(y) \in G
  BY DEF Closed
<1>6. CASE o.op = "serial"
  <2>1. After(m, o, x) = IF o.arg = <<>> THEN x ELSE Disabling(Then(OpOf("full?", o.arg), x))
    BY <1>6 DEF After
  <2>2. o.arg \in Texts
    BY <1>6, OpFields DEF TextOps
  <2>3. ASSUME o.arg # <<>> PROVE After(m, o, x) \in G
    <3>1. PICK y \in G : y = Then(OpOf("full?", o.arg), x)
      BY <2>2, <2>3, ClosedText
    <3> QED BY <1>5, <2>1, <2>3, <3>1
  <2> QED BY <2>1, <2>3
<1>7. CASE o.op = "full?"
  <2>1. After(m, o, x) = IF m.count = BuffSize THEN Then(REEN, x) ELSE Adding(o.arg, x)
    BY <1>7 DEF After
  <2>2. Head(o.arg) \in Letters /\ Tail(o.arg) \in Texts
    BY <1>7, OpFields, TextFacts
  <2>3. PICK a \in G : a = Then(OpOf("serial", Tail(o.arg)), x)
    BY <2>2, ClosedText
  <2>4. PICK b \in G : b = Then(REEN, a)
    BY <1>3
  <2>5. PICK c \in G : c = Then(Op("first?"), b)
    BY <1>2
  <2>6. PICK w \in G : w = Then(Op("wrap prod"), c)
    BY <1>2
  <2>9. PICK d \in G : d = Then(Op("++count"), w)
    BY <1>2
  <2>7. Then(OpOf("produce", Head(o.arg)), d) \in G
    BY <1>4, <2>2
  <2>8. Adding(o.arg, x) \in G
    BY <2>3, <2>4, <2>5, <2>6, <2>7, <2>9 DEF Adding
  <2> QED BY <1>3, <2>1, <2>8
<1>8. CASE o.op = "first?"
  <2>1. After(m, o, x) = IF m.count # 1 THEN x
                         ELSE IF m.idle THEN Then(Op("idle=false"), Then(Op("empty?"), x))
                         ELSE Then(Op("hw empty?"), x)
    BY <1>8 DEF After
  <2>2. PICK a \in G : a = Then(Op("empty?"), x)
    BY <1>2
  <2>3. Then(Op("idle=false"), a) \in G /\ Then(Op("hw empty?"), x) \in G
    BY <1>2
  <2> QED BY <2>1, <2>2, <2>3
<1>9. CASE o.op = "empty?"
  <2>1. After(m, o, x) = IF m.count = 0 THEN x ELSE Disabling(Then(Op("consume"), x))
    BY <1>9 DEF After
  <2>2. PICK a \in G : a = Then(Op("consume"), x)
    BY <1>2
  <2> QED BY <1>5, <2>1, <2>2
<1>10. CASE o.op = "consume"
  <2> SUFFICES ASSUME m.cons < BuffSize PROVE After(m, o, x) \in G
    BY <1>10 DEF After
  <2>1. PICK d \in Letters : d = m.buff[m.cons]
    BY MachFields
  <2>2. PICK a \in G : a = Then(OpOf("outb", d), x)
    BY <1>4
  <2>3. PICK b \in G : b = Then(REEN, a)
    BY <1>3
  <2>4. PICK c \in G : c = Then(Op("stop if empty"), b)
    BY <1>2
  <2>6. PICK w \in G : w = Then(Op("wrap cons"), c)
    BY <1>2
  <2>5. Then(Op("--count"), w) \in G
    BY <1>2
  <2> QED BY <1>10, <2>1, <2>2, <2>3, <2>4, <2>5, <2>6 DEF After, Taking
<1>11. CASE o.op \in PlainMainOps
  <2>1. x \in Stack
    BY DEF Closed
  <2>2. After(m, o, x) = x
    BY <1>11, <2>1, PlainAfter
  <2> QED BY <2>2
<1> QED BY <1>6, <1>7, <1>8, <1>9, <1>10, <1>11 DEF MainOps, PlainMainOps, SerialOps

LEMMA ClosedAfter ==
  ASSUME NEW G, Closed(G), NEW m \in Mach, NEW o \in Ops, NEW x \in G, o.op # "enable if was"
  PROVE  After(m, o, x) \in G
<1>1. CASE o.op \in MainOps
  BY <1>1, ClosedSerial
<1>2. CASE o.op = "display"
  <2>1. o.arg \in Texts /\ After(m, o, x) = Displaying(o.arg, x)
    BY <1>2, OpFields DEF After, TextOps
  <2> QED BY <2>1, ClosedDisplaying
<1>3. CASE o.op = "chars"
  <2>1. /\ o.arg \in Texts
        /\ After(m, o, x) = IF o.arg = <<>> THEN x
                            ELSE Showing(Head(o.arg), Then(OpOf("chars", Tail(o.arg)), x))
    BY <1>3, OpFields DEF After, TextOps
  <2> QED BY <2>1, ClosedDisplaying
<1>4. CASE o.op = "end?"
  <2>1. After(m, o, x) = IF m.col < Cols THEN x ELSE LineEnding(x)
    BY <1>4 DEF After
  <2> QED BY <2>1, ClosedLine
<1>5. CASE o.op = "bottom?"
  <2>1. After(m, o, x) = IF m.row < Rows THEN x ELSE Scrolling(x)
    BY <1>5 DEF After
  <2> QED BY <2>1, ClosedLine
<1>6. CASE o.op \notin MainOps \cup {"display", "chars", "end?", "bottom?"}
  <2>1. After(m, o, x) = x
    BY <1>6 DEF After, MainOps, SerialOps
  <2> QED BY <2>1
<1> QED BY <1>1, <1>2, <1>3, <1>4, <1>5, <1>6

LEMMA ClosedPrinting ==
  ASSUME NEW G, Closed(G), <<>> \in G, NEW s \in Texts
  PROVE  printk(s) \in G /\ VGA_display_str(s) \in G /\ Printing(s) \in G
<1>1. PICK y \in G : y = Then(OpOf("serial", s), <<>>)
  BY ClosedText
<1>2. Displaying(s, y) \in G /\ Displaying(s, <<>>) \in G
  BY ClosedDisplaying
<1> QED BY <1>1, <1>2, PrintingCode DEF Printing

-----------------------------------------------------------------------------
(***************************************************************************)
(* The cursor before the first key: it can be behind the last column only  *)
(* from a "move" or a "newline" to the "col=0" that follows, and below the *)
(* last row only from a "row++" to the "last row".                         *)
(***************************************************************************)
NextOp(x) == IF x = <<>> THEN "none" ELSE Head(x).op

PartnerNext(o, x) == o.op \in MoveOps => NextOp(x) = Partner(o.op)
MoveOrder == {p \in Ops \X Stack : PartnerNext(p[1], p[2])}
Paired(x) == Linked(x, MoveOrder)
PairedStacks == {x \in Stack : Paired(x)}

InScreen(m, x) ==
  /\ m.wild => FALSE
  /\ NextOp(x) \notin {"bottom?", "scroll", "last row"} => m.row < Rows
  /\ NextOp(x) \notin {"end?", "col=0"} => m.col < Cols

LEMMA NextOpThen ==
  ASSUME NEW o \in Ops, NEW x \in Stack
  PROVE  NextOp(<<>>) = "none" /\ NextOp(Then(o, x)) = o.op
<1>1. Then(o, x) # <<>> /\ Head(Then(o, x)) = o
  BY Stacks
<1> QED BY <1>1 DEF NextOp

LEMMA PairedThen ==
  ASSUME NEW o \in Ops, NEW x \in Stack
  PROVE  /\ Paired(<<>>) /\ Then(o, x) \in Stack
         /\ Paired(Then(o, x)) => PartnerNext(o, x) /\ Paired(x)
         /\ Paired(x) /\ PartnerNext(o, x) => Paired(Then(o, x))
         /\ Paired(x) /\ o.op \notin MoveOps => Paired(Then(o, x))
<1>1. <<o, x>> \in MoveOrder <=> PartnerNext(o, x)
  BY DEF MoveOrder
<1>2. Paired(<<>>) /\ (Paired(Then(o, x)) <=> <<o, x>> \in MoveOrder /\ Paired(x))
  BY LinkedThen DEF Paired
<1>3. o.op \notin MoveOps => PartnerNext(o, x)
  BY DEF PartnerNext
<1> QED BY <1>1, <1>2, <1>3, Stacks

LEMMA PairsClosed ==
  Closed(PairedStacks) /\ <<>> \in PairedStacks
<1>1. ASSUME NEW o \in Ops, NEW x \in PairedStacks, o.op \notin MoveOps
      PROVE  Then(o, x) \in PairedStacks
  <2>1. x \in Stack /\ Paired(x)
    BY DEF PairedStacks
  <2>2. Then(o, x) \in Stack /\ Paired(Then(o, x))
    BY <1>1, <2>1, PairedThen
  <2> QED BY <2>2 DEF PairedStacks
<1>2. ASSUME NEW x \in PairedStacks PROVE x \in Stack /\ Disabling(x) \in PairedStacks
  <2>1. STI.op \notin MoveOps /\ PREV.op \notin MoveOps /\ DIS.op \notin MoveOps
    BY SideOps DEF MoveOps
  <2>2. PICK y \in PairedStacks : y = Then(DIS, x)
    BY <1>1, <2>1, SideOps
  <2>3. PICK z \in PairedStacks : z = Then(PREV, y)
    BY <1>1, <2>1, SideOps
  <2>4. Then(STI, z) \in PairedStacks
    BY <1>1, <2>1, SideOps
  <2> QED BY <2>2, <2>3, <2>4 DEF Disabling, PairedStacks
<1>3. ASSUME NEW o \in Ops, NEW w \in Ops, NEW x \in PairedStacks, o.op \in MoveOps, w.op = Partner(o.op)
      PROVE  Then(o, Then(w, x)) \in PairedStacks
  <2>1. w.op \notin MoveOps
    BY <1>3 DEF MoveOps, Partner
  <2>2. PICK y \in Stack : y = Then(w, x) /\ Paired(y) /\ NextOp(y) = w.op
    BY <1>1, <1>3, <2>1, NextOpThen DEF PairedStacks
  <2>4. PartnerNext(o, y)
    BY <1>3, <2>2 DEF PartnerNext
  <2>3. Then(o, y) \in Stack /\ Paired(Then(o, y))
    BY <2>2, <2>4, PairedThen
  <2> QED BY <2>2, <2>3 DEF PairedStacks
<1>4. <<>> \in PairedStacks
  BY EmptyStack, SideOps, PairedThen DEF PairedStacks
<1>5. \A o \in Ops : \A x \in PairedStacks : o.op \notin BoundOps => Then(o, x) \in PairedStacks
  BY <1>1 DEF BoundOps
<1> QED BY <1>2, <1>3, <1>4, <1>5 DEF Closed

LEMMA PairedAfter ==
  ASSUME NEW m \in Mach, NEW o \in Ops, NEW x \in Stack, Paired(Then(o, x))
  PROVE  After(m, o, x) \in Stack /\ Paired(After(m, o, x))
<1>1. x \in PairedStacks
  BY PairedThen DEF PairedStacks
<1>2. CASE o.op # "enable if was"
  BY <1>1, <1>2, PairsClosed, ClosedAfter DEF PairedStacks
<1>3. CASE o.op = "enable if was"
  <2>1. After(m, o, x) = IF m.prev /\ ~m.curr THEN Enabling(x) ELSE x
    BY <1>3 DEF After
  <2>2. CLI.op \notin MoveOps /\ ENA.op \notin MoveOps /\ PREV.op \notin MoveOps
    BY SideOps DEF MoveOps
  <2>3. Then(CLI, x) \in Stack /\ Paired(Then(CLI, x))
    BY <1>1, <2>2, SideOps, PairedThen DEF PairedStacks
  <2>4. Then(ENA, Then(CLI, x)) \in Stack /\ Paired(Then(ENA, Then(CLI, x)))
    BY <2>2, <2>3, SideOps, PairedThen
  <2>5. Enabling(x) \in Stack /\ Paired(Enabling(x))
    BY <2>2, <2>4, SideOps, PairedThen DEF Enabling
  <2> QED BY <1>1, <2>1, <2>5 DEF PairedStacks
<1> QED BY <1>2, <1>3

(* What a step in the screen does to the cursor. *)
LEMMA CursorStep ==
  ASSUME NEW m \in Mach, NEW o \in Ops, OnScreen(m), m.wild => FALSE, o.op \notin LineOps
  PROVE  /\ Do(m, o).row < Rows /\ (Do(m, o).wild => FALSE)
         /\ o.op \notin {"move", "newline"} => Do(m, o).col < Cols
<1>1. CASE o.op \notin VgaOps
  <2>1. Screen(Do(m, o)) = Screen(m)
    BY <1>1, IrqStep, SerialStep, OtherStep
  <2>2. Do(m, o).row = m.row /\ Do(m, o).col = m.col /\ (Do(m, o).wild => m.wild)
    BY <2>1 DEF Screen
  <2> QED BY <2>2 DEF OnScreen
<1>2. CASE o.op \in VgaOps
  <2>1. Do(m, o) = DoVga(m, o)
    BY <1>2 DEF Do, IrqOps, VgaOps, SerialOps
  <2>2. Index(m) \in 0..(Rows * Cols - 1)
    BY CellIndex, MachFields DEF OnScreen, Index
  <2>3. CASE o.op = "erase cursor"
    <3>1. Do(m, o) = Put(m, NUL)
      BY <2>1, <2>3 DEF DoVga
    <3>2. PICK n \in Letters : n = NUL
      BY LetterFacts
    <3>3. Put(m, n).row = m.row /\ Put(m, n).col = m.col /\ Put(m, n).wild = m.wild
      BY <2>2, PutTypes
    <3> QED BY <3>1, <3>2, <3>3 DEF OnScreen
  <2>4. CASE o.op = "store"
    <3>1. Do(m, o) = Stored(m, o.arg) /\ o.arg \in Letters
      BY <2>1, <2>4, OpFields DEF DoVga, LetterOps
    <3>2. Do(m, o).row = m.row /\ Do(m, o).col = m.col /\ Do(m, o).wild = m.wild
      BY <3>1, StoredTypes
    <3> QED BY <3>2 DEF OnScreen
  <2>5. CASE o.op = "move"
    <3>1. Do(m, o) = Moved(m, o.arg)
      BY <2>1, <2>5 DEF DoVga
    <3>2. Do(m, o).row = m.row /\ Do(m, o).wild = m.wild
      BY <3>1, MovedTypes
    <3> QED BY <2>5, <3>2 DEF OnScreen
  <2>6. CASE o.op = "newline"
    <3>1. Do(m, o) = IF AfterFullLine(m) THEN m ELSE Moved(Stored(m, LF), LF)
      BY <2>1, <2>6 DEF DoVga
    <3>2. PICK s : s = Stored(m, LF)
      OBVIOUS
    <3>3. s \in Mach /\ s.row = m.row /\ s.wild = m.wild
      BY <3>2, StoredTypes, LetterFacts
    <3>4. Moved(s, LF).row = s.row /\ Moved(s, LF).wild = s.wild
      BY <3>3, MovedTypes
    <3>5. Do(m, o).row = m.row /\ Do(m, o).wild = m.wild
      BY <3>1, <3>2, <3>3, <3>4
    <3> QED BY <2>6, <3>5 DEF OnScreen
  <2>7. CASE o.op = "backspace"
    <3>1. Do(m, o) = Backspaced(m)
      BY <2>1, <2>7 DEF DoVga
    <3>2. OnScreen(Do(m, o)) /\ Do(m, o).wild = m.wild
      BY <3>1, BackspacedTypes
    <3> QED BY <3>2 DEF OnScreen
  <2> QED BY <1>2, <2>3, <2>4, <2>5, <2>6, <2>7 DEF VgaOps, LineOps
<1> QED BY <1>1, <1>2

LEMMA InScreenStep ==
  ASSUME NEW m \in Mach, NEW o \in Ops, NEW x \in Stack,
         Paired(Then(o, x)), InScreen(m, Then(o, x))
  PROVE  InScreen(Do(m, o), After(m, o, x))
<1>1. /\ m.wild => FALSE
      /\ o.op \notin {"bottom?", "scroll", "last row"} => m.row < Rows
      /\ o.op \notin {"end?", "col=0"} => m.col < Cols
  BY NextOpThen DEF InScreen
<1>2. o.op \in MoveOps => NextOp(x) = Partner(o.op)
  BY PairedThen DEF PartnerNext
<1>3. CASE o.op = "end?"
  <2>1. Do(m, o) = m
    BY <1>3, OtherStep DEF IrqOps, VgaOps, SerialOps
  <2>2. After(m, o, x) = IF m.col < Cols THEN x ELSE LineEnding(x)
    BY <1>3 DEF After
  <2>3. NextOp(LineEnding(x)) = "col=0"
    BY ScreenTypes, Stacks, NextOpThen DEF LineEnding
  <2> QED BY <1>1, <1>3, <2>1, <2>2, <2>3 DEF InScreen
<1>4. CASE o.op = "bottom?"
  <2>1. Do(m, o) = m
    BY <1>4, OtherStep DEF IrqOps, VgaOps, SerialOps
  <2>2. After(m, o, x) = IF m.row < Rows THEN x ELSE Scrolling(x)
    BY <1>4 DEF After
  <2>3. NextOp(Scrolling(x)) = "scroll"
    BY ScreenTypes, Stacks, NextOpThen DEF Scrolling
  <2> QED BY <1>1, <1>4, <2>1, <2>2, <2>3 DEF InScreen
<1>5. CASE o.op \in LineOps
  <2>1. After(m, o, x) = x
    BY <1>5 DEF After, LineOps
  <2>2. PICK n \in Mach : n = Do(m, o)
    BY DoTypes
  <2>3. /\ n.wild = m.wild
        /\ o.op = "col=0" => n.row = m.row /\ n.col = 0
        /\ o.op # "col=0" => n.col = m.col
        /\ o.op = "last row" => n.row = Rows - 1
    BY <1>5, <2>2, LineTypes
  <2>4. o.op \in {"row++", "scroll"} => NextOp(x) \in {"bottom?", "last row"}
    BY <1>2 DEF MoveOps, Partner
  <2>6. n.wild => FALSE
    BY <1>1, <2>3
  <2>7. CASE o.op = "col=0"
    <3>1. n.row < Rows /\ n.col < Cols
      BY <1>1, <2>3, <2>7, Numbers
    <3> QED BY <2>1, <2>2, <2>6, <3>1 DEF InScreen
  <2>8. CASE o.op \in {"row++", "scroll"}
    <3>1. n.col < Cols /\ NextOp(x) \in {"bottom?", "last row"}
      BY <1>1, <2>3, <2>4, <2>8
    <3> QED BY <2>1, <2>2, <2>6, <3>1 DEF InScreen
  <2>9. CASE o.op = "last row"
    <3>1. n.row = Rows - 1 /\ n.col = m.col
      BY <2>3, <2>9
    <3>3. n.row < Rows
      BY <3>1, Numbers
    <3>4. m.col < Cols
      BY <1>1, <2>9
    <3> QED BY <2>1, <2>2, <2>6, <3>1, <3>3, <3>4 DEF InScreen
  <2> QED BY <1>5, <2>7, <2>8, <2>9 DEF LineOps
<1>6. CASE o.op \notin {"end?", "bottom?"} \cup LineOps
  <2>1. PICK n \in Mach : n = Do(m, o)
    BY DoTypes
  <2>2. OnScreen(m)
    BY <1>1, <1>6 DEF OnScreen, LineOps
  <2>3. /\ n.row < Rows /\ (n.wild => FALSE)
        /\ o.op \notin {"move", "newline"} => n.col < Cols
    BY <1>1, <1>6, <2>1, <2>2, CursorStep
  <2>4. ASSUME o.op \in {"move", "newline"} PROVE NextOp(After(m, o, x)) = "end?"
    <3>1. NextOp(x) = "end?"
      BY <1>2, <2>4 DEF MoveOps, Partner
    <3>2. After(m, o, x) = x
      BY <2>4 DEF After
    <3> QED BY <3>1, <3>2
  <2> QED BY <2>1, <2>3, <2>4 DEF InScreen
<1> QED BY <1>3, <1>4, <1>5, <1>6

KeylessCursor ==
  pressed = 0 => /\ (serving => FALSE) /\ key = NoKey
                 /\ Paired(todo) /\ InScreen(mach, todo)

LEMMA CursorStart ==
  ASSUME Init
  PROVE  KeylessCursor
<1>1. mach = Booted /\ todo = Starting /\ serving = FALSE /\ key = NoKey
  BY StartCode DEF Init
<1>2. mach.row < Rows /\ mach.col < Cols /\ (mach.wild => FALSE)
  BY <1>1, Numbers DEF Booted
<1>3. Paired(todo)
  <2>1. PICK p \in PairedStacks : p = Printing(<<LF>>)
    BY PairsClosed, ClosedPrinting, LetterFacts
  <2>2. p \in Stack /\ Paired(p)
    BY DEF PairedStacks
  <2>3. CLI.op \notin MoveOps /\ ENA.op \notin MoveOps /\ PREV.op \notin MoveOps
    BY SideOps DEF MoveOps
  <2>4. Then(CLI, p) \in Stack /\ Paired(Then(CLI, p))
    BY <2>2, <2>3, SideOps, PairedThen
  <2>5. Then(ENA, Then(CLI, p)) \in Stack /\ Paired(Then(ENA, Then(CLI, p)))
    BY <2>3, <2>4, SideOps, PairedThen
  <2>6. Paired(Enabling(p))
    BY <2>3, <2>5, SideOps, PairedThen DEF Enabling
  <2> QED BY <1>1, <2>1, <2>6 DEF Starting
<1> QED BY <1>1, <1>2, <1>3 DEF KeylessCursor, InScreen

LEMMA CursorStays ==
  ASSUME Inv, KeylessCursor, [Next]_vars
  PROVE  KeylessCursor'
<1>1. SUFFICES ASSUME pressed' = 0
               PROVE  /\ (serving' => FALSE) /\ key' = NoKey
                      /\ Paired(todo') /\ InScreen(mach', todo')
  BY DEF KeylessCursor
<1>2. mach \in Mach /\ todo \in Stack /\ pressed \in Nat /\ Typed
  BY DEF Inv, Typed
<1>3. ASSUME pressed = 0
      PROVE  (serving => FALSE) /\ key = NoKey /\ Paired(todo) /\ InScreen(mach, todo)
  BY <1>3 DEF KeylessCursor
<1>4. CASE Execute
  <2>1. PICK o \in Ops, x \in Stack :
          /\ todo = Then(o, x) /\ mach' = Do(mach, o) /\ todo' = After(mach, o, x)
          /\ UNCHANGED <<serving, held, key, prints, pressed, warned, escaped>>
    BY <1>2, <1>4, ExecuteStep
  <2>2. (serving => FALSE) /\ key = NoKey /\ Paired(Then(o, x)) /\ InScreen(mach, Then(o, x))
    BY <1>1, <1>3, <2>1
  <2>3. Paired(todo') /\ InScreen(mach', todo')
    BY <1>2, <2>1, <2>2, PairedAfter, InScreenStep
  <2> QED BY <2>1, <2>2, <2>3
<1>5. ASSUME NEW s \in Strings, Message(s)
      PROVE  /\ (serving' => FALSE) /\ key' = NoKey
             /\ Paired(todo') /\ InScreen(mach', todo')
  <2>1. todo = <<>> /\ todo' = printk(s) /\ UNCHANGED <<mach, serving, key, pressed>>
    BY <1>5 DEF Message
  <2>2. (serving => FALSE) /\ key = NoKey /\ InScreen(mach, todo)
    BY <1>1, <1>3, <2>1
  <2>3. mach.row < Rows /\ (mach.wild => FALSE) /\ mach.col < Cols
    BY <2>1, <2>2 DEF InScreen, NextOp
  <2>4. Paired(printk(s))
    BY PairsClosed, ClosedPrinting, LetterFacts DEF PairedStacks
  <2> QED BY <2>1, <2>2, <2>3, <2>4 DEF InScreen
<1>6. ASSUME NEW k \in Keys, Press(k) PROVE FALSE
  BY <1>1, <1>2, <1>6 DEF Press
<1>7. CASE UartSent
  <2>1. Screen(mach') = Screen(mach) /\ UNCHANGED <<todo, serving, key, pressed>>
    BY <1>2, <1>7, MachSteps DEF UartSent
  <2>2. mach'.row = mach.row /\ mach'.col = mach.col /\ (mach'.wild => mach.wild)
    BY <2>1 DEF Screen
  <2> QED BY <1>1, <1>3, <2>1, <2>2 DEF InScreen
<1>8. CASE Interrupt
  BY <1>1, <1>3, <1>8 DEF Interrupt
<1>9. CASE Return
  BY <1>1, <1>3, <1>9 DEF Return
<1>10. CASE UNCHANGED vars
  BY <1>1, <1>3, <1>10 DEF vars
<1> QED BY <1>4, <1>5, <1>6, <1>7, <1>8, <1>9, <1>10 DEF Next

LEMMA CursorShown ==
  ASSUME Inv, KeylessCursor
  PROVE  CursorOnScreen
<1>1. ASSUME pressed = 0 PROVE InScreen(mach, todo)
  BY <1>1 DEF KeylessCursor
<1> QED BY <1>1 DEF CursorOnScreen, InScreen, Resting, NextOp

(***************************************************************************)
(* Before the first key no VGA_PUTC() goes past the screen, and between    *)
(* two messages the cursor is on it: the store, the move, the new line and *)
(* the scroll of VGA_display_attr_char() (vga_driver.c:250-337), for every *)
(* size of screen and all strings.                                         *)
(***************************************************************************)
THEOREM Cursor == Spec => []CursorOnScreen
<1>1. Init => Inv /\ KeylessCursor
  BY TypedStart, CursorStart
<1>2. Inv /\ KeylessCursor /\ [Next]_vars => Inv' /\ KeylessCursor'
  BY TypedStep, CursorStays
<1>3. Inv /\ KeylessCursor => CursorOnScreen
  BY CursorShown
<1> QED BY <1>1, <1>2, <1>3, PTL DEF Spec
=============================================================================
