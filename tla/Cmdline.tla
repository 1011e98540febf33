------------------------------ MODULE Cmdline ------------------------------
(***************************************************************************)
(* read_cmdline of cmdline.c: the kernel's name, then options separated by *)
(* one space each, up to the first word that is not an option.             *)
(* A character is a one-letter string.  The eight characters log_lvl= are  *)
(* written "L" and the seven log_clr, the part that is compared, "C"; the  *)
(* word log_clr=1 is therefore <<"C", "=", "1">>.  A position past the     *)
(* last character is the place of the string's zero.                       *)
(***************************************************************************)
EXTENDS Integers, Sequences, SequencesExt

CONSTANT NAME_SIZE     \* the size of name[], 50
ASSUME CmdlineAssumption == NAME_SIZE \in Nat \ {0}

\* **s - '0' of a character of a number; letters count too, "a" standing for them.
CharValue == [c \in {"0", "1", "6"} |-> CASE c = "0" -> 0 [] c = "1" -> 1 [] c = "6" -> 6]
             @@ [c \in {"a"} |-> 49]

Space == " "

\* The end of the word that begins at i.
WordEnd(s, i) == CHOOSE e \in i .. Len(s) + 1 :
                   /\ e = Len(s) + 1 \/ s[e] = Space
                   /\ \A k \in i .. e - 1 : s[k] # Space

\* Where read_arg_str stops: at the end of the word or when name is full.
read_arg_str(s, n) == LET e == WordEnd(s, 1) IN IF e > n THEN n ELSE e

Number(digits) == FoldLeft(LAMBDA arg, c : arg * 10 + CharValue[c], 0, digits)

read_arg_num(s, i) == Number(SubSeq(s, i, WordEnd(s, i) - 1))

StartsWith(s, i, key) == i <= Len(s) /\ s[i] = key

FaultTurn(s, loop) ==  \* a word that is no option is skipped
  LET i == loop.at
  IN  IF i > Len(s) THEN loop
      ELSE CASE StartsWith(s, i + 1, "L") ->
                  [at  |-> WordEnd(s, i + 2),
                   set |-> [loop.set EXCEPT !.level = read_arg_num(s, i + 2)]]
             [] StartsWith(s, i + 1, "C") ->
                  [at  |-> WordEnd(s, i + 3),
                   set |-> [loop.set EXCEPT !.color = read_arg_num(s, i + 3) # 0]]
             [] OTHER -> [loop EXCEPT !.at = WordEnd(s, i + 1)]

\* One turn of the loop: one character is skipped, whatever it is, then a key decides, and without
\* one the position stays.  Only seven characters of log_clr= are compared and eight are skipped.
Turn(s, loop) ==
  LET i == loop.at
  IN  IF i > Len(s) THEN loop
      ELSE CASE StartsWith(s, i + 1, "L") ->
                  [at  |-> WordEnd(s, i + 2),
                   set |-> [loop.set EXCEPT !.level = read_arg_num(s, i + 2)]]
             [] StartsWith(s, i + 1, "C") ->
                  [at  |-> WordEnd(s, i + 3),
                   set |-> [loop.set EXCEPT !.color = read_arg_num(s, i + 3) # 0]]
             [] OTHER -> loop

\* The loop over the options: where it is after so many turns.  Every turn but the last comes
\* further, so that Len(s) turns are enough.
Options(s, start, default) ==
  LET turns[n \in 0 .. Len(s)] ==
        IF n = 0 THEN {[at |-> start, set |-> default]}
        ELSE {Turn(s, loop) : loop \in turns[n - 1]}
  IN  (CHOOSE loop \in turns[Len(s)] : TRUE).set

read_cmdline(s, default) == Options(s, read_arg_str(s, NAME_SIZE), default)

-----------------------------------------------------------------------------
(* What the options mean: a command line is a name and words.               *)

Text(name, words) == name \o FlattenSeq([i \in DOMAIN words |-> <<Space>> \o words[i]])

IsOption(w) == w # <<>> /\ Head(w) \in {"L", "C"}

\* The words up to the first that is no option; none when the name does not fit.
Valid(name, words) ==
  IF Len(name) >= NAME_SIZE THEN <<>>
  ELSE LET n == CHOOSE k \in 0 .. Len(words) :
                  /\ \A i \in 1 .. k : IsOption(words[i])
                  /\ k = Len(words) \/ ~IsOption(words[k + 1])
       IN  SubSeq(words, 1, n)

NumberIn(w) == Number(SubSeq(w, IF Head(w) = "L" THEN 2 ELSE 3, Len(w)))

\* The number of the last valid option with the key, or what it is without one.
Setting(name, words, key, default) ==
  LET valid  == Valid(name, words)
      chosen == {k \in DOMAIN valid : Head(valid[k]) = key}
  IN  IF chosen = {} THEN default ELSE NumberIn(valid[Max(chosen)])
=============================================================================
