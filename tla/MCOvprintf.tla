------------------------------ MODULE MCOvprintf ------------------------------
EXTENDS Ovprintf

\* Directives of every conversion and size, with the borders of a type of 16 (int) and 20 bits
\* (long) and with widths below, at and above the length of the number.
Directive(kind, zero, width, sz, conv) ==
  [kind |-> kind, zero |-> zero, width |-> width, size |-> sz, conv |-> conv]
Number(zero, width, sz, conv, num) ==
  Directive("number", zero, width, sz, conv) @@ [num |-> num]

MCPieces ==
  {[kind |-> "plain", char |-> c] : c \in {"d", "7"}}
  \cup {Directive("percent", FALSE, w, <<>>, "%") : w \in {0, 7}}
  \cup {Number(z, w, <<>>, "d", a) : z \in BOOLEAN, w \in {0, 4, 12}, a \in {0, 42, -32768}}
  \cup {Number(FALSE, 0, s, "i", -524288) : s \in {<<"l">>, <<"l", "l">>}}
  \cup {Number(TRUE, 3, <<"h">>, c, 171) : c \in {"u", "o", "x", "X"}}
  \cup {Number(FALSE, 20, <<"h", "h">>, "u", 65535), Number(FALSE, 0, <<"z">>, "x", 1048575)}
  \cup {Directive("string", FALSE, w, <<>>, "s") @@ [str |-> a] :
          w \in {0, 2, 3}, a \in {<<>>, <<"a", "b">>}}
  \cup {Directive("char", FALSE, 0, <<>>, "c") @@ [chr |-> "c"]}
  \cup {Directive("pointer", FALSE, 0, <<>>, "p") @@ [num |-> a] : a \in {0, 703710, 1048575}}
  \cup {Directive("pointer", TRUE, 3, <<"h">>, "p") @@ [num |-> 42]}
  \cup {Directive("nothing", FALSE, 0, s[1], s[2]) :
          s \in {<<<<"l">>, "s">>, <<<<"h">>, "c">>, <<<<"z">>, "d">>, <<<<"z", "l">>, "u">>,
                 <<<<"l", "l", "l">>, "i">>, <<<<>>, "b">>}}

MCChar == {"d", "7", "%", "0", "1", "2", "3", "4", "5", "6", "8", "9", "a", "b", "c", "e", "f",
           "A", "B", "C", "D", "E", "F", "h", "l", "z", "i", "u", "o", "x", "X", "s", "p",
           " ", "-", ":"}
=============================================================================
