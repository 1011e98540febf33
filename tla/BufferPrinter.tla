--------------------------- MODULE BufferPrinter ---------------------------
(***************************************************************************)
(* The printers of print.c that receive what ovprintf prints, character    *)
(* by character: the serial one passes every character on, the buffer one  *)
(* stores as many as there is room for and ends them with a zero.  Both    *)
(* are driven at once here, so that what is stored can be compared with    *)
(* what was printed.                                                       *)
(***************************************************************************)
EXTENDS Integers, Sequences

CONSTANTS Char,      \* the characters
          Zero,      \* the character 0 that ends a string
          SIZE_T     \* the number of values of size_t, 2^64

ASSUME PrinterAssumption ==
  /\ Zero \notin Char
  /\ SIZE_T \in Nat \ {0}

VARIABLES
  out,        \* what went through printer_print
  buffer,     \* what was stored from self->buffer's first value on
  left,       \* self->left
  size        \* the size the caller gave

printer == <<out, buffer, left, size>>

FaultPrinterInit(n) ==  \* no room is kept for the zero
  out = <<>> /\ buffer = <<>> /\ size = n /\ left = n % SIZE_T

\* One byte is kept for the zero; size 0 wraps around and stands for no limit, which is how
\* vsprintf calls.
PrinterInit(n) ==
  out = <<>> /\ buffer = <<>> /\ size = n /\ left = (n - 1) % SIZE_T

printer_print(c) ==
  /\ out' = Append(out, c)
  /\ IF left # 0
       THEN buffer' = Append(buffer, c) /\ left' = left - 1
       ELSE UNCHANGED <<buffer, left>>
  /\ UNCHANGED size

printer_end ==
  /\ buffer' = Append(buffer, Zero)
  /\ UNCHANGED <<out, left, size>>

-----------------------------------------------------------------------------
(* The printers under any use: characters, then the end.                    *)

Ended == \E i \in 1 .. Len(buffer) : buffer[i] = Zero

PrinterStart == \E n \in 0 .. SIZE_T - 1 : PrinterInit(n)
PrinterNext  == ~Ended /\ ((\E c \in Char : printer_print(c)) \/ printer_end)
PrinterSpec  == PrinterStart /\ [][PrinterNext]_printer

-----------------------------------------------------------------------------

Limit == IF size = 0 THEN SIZE_T - 1 ELSE size - 1

\* What a caller of snprintf relies on: the bytes stored are the first ones printed, as many as
\* fit before the zero and not one less, the zero follows them, and nothing is stored past the
\* size given (__buffer_print, __buffer_end and the size - 1 of buffer_printer_init).
StoresWhatFits ==
  LET k == IF Len(out) < Limit THEN Len(out) ELSE Limit
  IN  /\ Len(buffer) = IF Ended THEN k + 1 ELSE k
      /\ \A i \in 1 .. k : buffer[i] = out[i]
      /\ Ended => buffer[k + 1] = Zero
=============================================================================
