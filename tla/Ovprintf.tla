------------------------------ MODULE Ovprintf ------------------------------
(***************************************************************************)
(* ovprintf of print.c, the interpreter of format strings behind printf    *)
(* and snprintf.  A call walks over the format; a conversion takes its     *)
(* argument from the list, if the size and the conversion go together, and *)
(* hands its characters to the printer one at a time.                      *)
(* Characters are the one-letter strings; a format is made of pieces, each *)
(* a plain character or a directive with the argument the caller passes    *)
(* for it, so that what a call has to print can be said piece by piece:    *)
(*   [kind |-> "plain", char]                                              *)
(*   [kind, zero, width, size, conv], with the kind "percent" or "nothing",*)
(*     a directive the code does not know; and with an argument            *)
(*     num, when the kind is "number" or "pointer",                        *)
(*     str, when it is "string", chr, when it is "char"                    *)
(***************************************************************************)
EXTENDS BufferPrinter, SequencesExt

CONSTANTS Pieces,       \* what the formats checked are made of
          MaxPieces,    \* the length of the formats checked
          Sizes         \* the buffer sizes checked

VARIABLES
  call,       \* the pieces of the call, which stay as they are
  format,     \* the rest of the format
  args,       \* the rest of va_list
  directive,  \* the locals of the directive read, [open |-> FALSE] outside one
  pending,    \* what a conversion has yet to print
  count       \* the number returned

vars == <<printer, call, format, args, directive, pending, count>>

-----------------------------------------------------------------------------
(* The parts of a directive.                                                *)

Space  == " "
Digits == <<"0", "1", "2", "3", "4", "5", "6", "7", "8", "9">>
Digit(d, isUpper) ==
  (Digits \o IF isUpper THEN <<"A", "B", "C", "D", "E", "F">>
                        ELSE <<"a", "b", "c", "d", "e", "f">>)[d + 1]

SizeChars    == {"h", "l", "z"}
NumberChars  == {"d", "i", "u", "o", "x", "X"}
DSIZE_SIZE_T == 10

Modified(dSize, c) == CASE c = "h" -> dSize - 1
                        [] c = "l" -> dSize + 1
                        [] c = "z" -> DSIZE_SIZE_T

\* The sizes a conversion knows; with any other it prints nothing and leaves the argument.
Known(dSize, isUnsigned) == dSize \in -2 .. 2 \/ (isUnsigned /\ dSize = DSIZE_SIZE_T)

Outside == [open |-> FALSE]
Fresh   == [open |-> TRUE, isFirst |-> TRUE, dSize |-> 0, zeroFill |-> FALSE, width |-> 0]

-----------------------------------------------------------------------------
(* Numbers.                                                                 *)

FaultDigitBuffer(value, isUpper, base, width, zeroFill) ==  \* the padding has one too many
  LET fill[v \in Nat] == [w \in Int |->
        IF v = 0 /\ w < 0 THEN <<>>
        ELSE <<IF v # 0 THEN Digit(v % base, isUpper) ELSE IF zeroFill THEN "0" ELSE Space>>
             \o fill[v \div base][w - 1]]
  IN  <<Digit(value % base, isUpper)>> \o fill[value \div base][width - 1]

\* buffer[] after the loop: the last digit first, then the others, then the padding.
DigitBuffer(value, isUpper, base, width, zeroFill) ==
  LET fill[v \in Nat] == [w \in Int |->
        IF v = 0 /\ w <= 0 THEN <<>>
        ELSE <<IF v # 0 THEN Digit(v % base, isUpper) ELSE IF zeroFill THEN "0" ELSE Space>>
             \o fill[v \div base][w - 1]]
  IN  <<Digit(value % base, isUpper)>> \o fill[value \div base][width - 1]

\* The buffer from its end to its start, with a separator where a multiple of four is left.
print_number_(value, isUpper, base, width, addSeps, zeroFill) ==
  LET digits == DigitBuffer(value, isUpper, base, width, zeroFill)
      Printed(i) == LET buffer_pos == Len(digits) - i
                    IN  IF addSeps /\ buffer_pos % 4 = 0 /\ buffer_pos > 0
                          THEN <<digits[buffer_pos + 1], ":">>
                          ELSE <<digits[buffer_pos + 1]>>
  IN  FlattenSeq([i \in 1 .. Len(digits) |-> Printed(i)])

\* data *= -1 makes the least number itself again, which as an unsigned number is its opposite.
print_number(data, isUpper, base, width, addSeps, zeroFill) ==
  (IF data < 0 THEN <<"-">> ELSE <<>>)
  \o print_number_(IF data < 0 THEN -data ELSE data, isUpper, base, width, addSeps, zeroFill)

-----------------------------------------------------------------------------
(* The formats and arguments that callers pass.                             *)

Power(base, n) == LET p[k \in 0 .. n] == IF k = 0 THEN 1 ELSE base * p[k - 1] IN p[n]

\* What the first n modifiers make of a directive's size.
SizeAt(mods, n) ==
  LET d[k \in 0 .. n] == IF k = 0 THEN 0 ELSE Modified(d[k - 1], mods[k]) IN d[n]
SizeOf(p) == SizeAt(p.size, Len(p.size))

Magnitude(num) == IF num < 0 THEN -num ELSE num
Fits(num)      == \A base \in {8, 10, 16} : \E k \in 1 .. 32 : Magnitude(num) < Power(base, k)

\* A piece of each kind, with an argument of the type that the code takes from va_list.
GoodPiece(p) ==
  \/ p.kind = "plain" /\ p.char \in Char \ {"%"}
  \/ /\ p.zero \in BOOLEAN /\ p.width \in 0 .. 99 /\ p.size \in Seq(SizeChars)
     /\ \/ p.kind = "percent" /\ p.conv = "%"
        \/ /\ p.kind = "number" /\ p.conv \in NumberChars /\ p.width <= 65
           /\ p.num \in Int /\ Fits(p.num) /\ (p.conv \notin {"d", "i"} => p.num >= 0)
           /\ Known(SizeOf(p), p.conv \notin {"d", "i"})
        \/ p.kind = "string" /\ p.conv = "s" /\ SizeOf(p) = 0 /\ p.str \in Seq(Char)
        \/ p.kind = "char" /\ p.conv = "c" /\ SizeOf(p) = 0 /\ p.chr \in Char
        \/ p.kind = "pointer" /\ p.conv = "p" /\ p.num \in Nat /\ Fits(p.num)
        \/ /\ p.kind = "nothing" /\ p.conv \in Char
           /\ p.conv \notin SizeChars \cup Range(Digits) \cup {"%", "p"}
           /\ p.conv \in {"c", "s"} => SizeOf(p) # 0
           /\ p.conv \in NumberChars => ~Known(SizeOf(p), p.conv \notin {"d", "i"})

ASSUME OvprintfAssumption ==
  /\ \A p \in Pieces : GoodPiece(p)
  /\ MaxPieces \in Nat /\ Sizes \subseteq 0 .. SIZE_T - 1
  /\ {"%", "-", ":", Space} \subseteq Char
  /\ \A d \in 0 .. 15, isUpper \in BOOLEAN : Digit(d, isUpper) \in Char
  /\ \E k \in 1 .. 16 : Power(16, k) = SIZE_T

-----------------------------------------------------------------------------
(* The steps of a call.                                                     *)

WidthChars(w) == IF w = 0 THEN <<>>
                 ELSE IF w < 10 THEN <<Digits[w + 1]>>
                 ELSE <<Digits[(w \div 10) + 1], Digits[(w % 10) + 1]>>
Chars(p) ==
  IF p.kind = "plain" THEN <<p.char>>
  ELSE <<"%">> \o (IF p.zero THEN <<"0">> ELSE <<>>) \o WidthChars(p.width) \o p.size
       \o <<p.conv>>

Argument(p) == IF p.kind \in {"number", "string", "char", "pointer"} THEN <<p>> ELSE <<>>

Init ==
  /\ call \in BoundedSeq(Pieces, MaxPieces)
  /\ format = FlattenSeq([i \in DOMAIN call |-> Chars(call[i])])
  /\ args = FlattenSeq([i \in DOMAIN call |-> Argument(call[i])])
  /\ directive = Outside /\ pending = <<>> /\ count = 0
  /\ \E n \in Sizes : PrinterInit(n)

PrintPending ==
  /\ pending # <<>>
  /\ printer_print(Head(pending))
  /\ pending' = Tail(pending)
  /\ UNCHANGED <<call, format, args, directive, count>>

\* *format is c, and everything before it has been printed.
Reads(c) == pending = <<>> /\ format # <<>> /\ Head(format) = c
Directs(c) == directive.open /\ Reads(c)

PlainChar ==
  \E c \in Char \ {"%"} :
     /\ ~directive.open /\ Reads(c)
     /\ pending' = <<c>> /\ count' = count + 1
     /\ format' = Tail(format)
     /\ UNCHANGED <<printer, call, args, directive>>

OpenDirective ==
  /\ ~directive.open /\ Reads("%")
  /\ directive' = Fresh
  /\ format' = Tail(format)
  /\ UNCHANGED <<printer, call, args, pending, count>>

\* The next character of a directive that goes on.
GoesOn(d) ==
  /\ directive' = [d EXCEPT !.isFirst = FALSE]
  /\ format' = Tail(format)
  /\ UNCHANGED <<printer, call, args, pending, count>>

SizeModifier ==
  \E c \in SizeChars :
     /\ Directs(c)
     /\ GoesOn([directive EXCEPT !.dSize = Modified(@, c)])

ZeroFlag ==
  Directs("0") /\ directive.isFirst /\ GoesOn([directive EXCEPT !.zeroFill = TRUE])

WidthDigit ==
  \E d \in 0 .. 9 :
     /\ Directs(Digits[d + 1])
     /\ d = 0 => ~directive.isFirst
     /\ GoesOn([directive EXCEPT !.width = @ * 10 + d])

\* The directive is over: chars are to be printed, n is added to count and so many arguments
\* are taken.
Over(chars, n, taken) ==
  /\ directive' = Outside
  /\ pending' = chars /\ count' = count + n
  /\ args' = SubSeq(args, taken + 1, Len(args))
  /\ format' = Tail(format)
  /\ UNCHANGED <<printer, call>>

PercentSign == Directs("%") /\ Over(<<"%">>, 1, 0)

CharDirective ==
  /\ Directs("c")
  /\ IF directive.dSize = 0 THEN Over(<<Head(args).chr>>, 1, 1) ELSE Over(<<>>, 0, 0)

\* The padding goes in front and is not counted.
StringDirective ==
  /\ Directs("s")
  /\ IF directive.dSize = 0
       THEN LET str == Head(args).str
            IN  Over([i \in 1 .. directive.width - Len(str) |-> Space] \o str, Len(str), 1)
       ELSE Over(<<>>, 0, 0)

UnreadNumber ==
  /\ \E c \in NumberChars : Directs(c) /\ ~Known(directive.dSize, c \notin {"d", "i"})
  /\ Over(<<>>, 0, 0)

NumberDirective ==
  \E c \in NumberChars :
     /\ Directs(c) /\ Known(directive.dSize, c \notin {"d", "i"})
     /\ LET base == CASE c \in {"d", "i", "u"} -> 10 [] c = "o" -> 8 [] c \in {"x", "X"} -> 16
            text == print_number(Head(args).num, c = "X", base, directive.width, FALSE,
                                 directive.zeroFill)
        IN  Over(text, Len(text), 1)

PointerDigits == CHOOSE k \in 1 .. 16 : Power(16, k) = SIZE_T   \* sizeof(size_t) * 2

PointerDirective ==
  /\ Directs("p")
  /\ LET text == print_number(Head(args).num, TRUE, 16, PointerDigits, TRUE, TRUE)
     IN  Over(text, Len(text), 1)

OtherDirective ==
  \E c \in Char \ (SizeChars \cup NumberChars \cup Range(Digits) \cup {"%", "c", "s", "p"}) :
     Directs(c) /\ Over(<<>>, 0, 0)

Finish ==
  /\ pending = <<>> /\ format = <<>> /\ ~directive.open /\ ~Ended
  /\ printer_end
  /\ UNCHANGED <<call, format, args, directive, pending, count>>

Returned == Ended /\ UNCHANGED vars

Next == \/ PrintPending \/ PlainChar \/ OpenDirective \/ SizeModifier \/ ZeroFlag \/ WidthDigit
        \/ PercentSign \/ CharDirective \/ StringDirective \/ UnreadNumber \/ NumberDirective
        \/ PointerDirective \/ OtherDirective \/ Finish \/ Returned

Spec == Init /\ [][Next]_vars

-----------------------------------------------------------------------------
(* What a call has to print.                                                *)

Pad(w, n) == IF w > n THEN w - n ELSE 0

\* v in the base, by the place of each digit, at least width characters long.
Numeral(v, isUpper, base, width, pad) ==
  LET n == CHOOSE k \in 1 .. 32 : v < Power(base, k) /\ (k = 1 \/ v >= Power(base, k - 1))
      len == n + Pad(width, n)
  IN  [i \in 1 .. len |->
         IF len - i < n THEN Digit((v \div Power(base, len - i)) % base, isUpper) ELSE pad]

\* Fours of characters from the right, with a separator between two of them.
InFours(s) ==
  LET total == Len(s) + (Len(s) - 1) \div 4
  IN  [i \in 1 .. total |->
         LET place == total - i
         IN  IF place % 5 = 4 THEN ":" ELSE s[Len(s) - (place - place \div 5)]]

Meaning(p) ==
  CASE p.kind = "plain"   -> <<p.char>>
    [] p.kind = "percent" -> <<"%">>
    [] p.kind = "number"  ->
         (IF p.num < 0 THEN <<"-">> ELSE <<>>)
         \o Numeral(IF p.num < 0 THEN -p.num ELSE p.num, p.conv = "X",
                    CASE p.conv = "o" -> 8 [] p.conv \in {"x", "X"} -> 16 [] OTHER -> 10,
                    p.width, IF p.zero THEN "0" ELSE Space)
    [] p.kind = "string"  -> [i \in 1 .. Pad(p.width, Len(p.str)) |-> Space] \o p.str
    [] p.kind = "char"    -> <<p.chr>>
    [] p.kind = "pointer" -> InFours(Numeral(p.num, TRUE, 16, PointerDigits, "0"))
    [] p.kind = "nothing" -> <<>>

\* What is counted of it.
Unpadded(p) == IF p.kind = "string" THEN p.str ELSE Meaning(p)

\* A call prints what its pieces mean, one after the other, whatever directives stand side by
\* side: no flag, width or size of one is left over for the next, and a directive that prints
\* nothing leaves its neighbours' arguments alone; the number returned counts everything but
\* the padding of strings (ovprintf, ovprintf_print_number_).
PrintsMeaning ==
  Ended => /\ out = FlattenSeq([i \in DOMAIN call |-> Meaning(call[i])])
           /\ count = Len(FlattenSeq([i \in DOMAIN call |-> Unpadded(call[i])]))
=============================================================================
