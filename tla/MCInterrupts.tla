---------------------------- MODULE MCInterrupts ----------------------------
EXTENDS Interrupts

\* Options that set, repeat and reset both settings, with a number left out, a letter for a digit
\* and any character for "="; a word that is no option; two spaces in a row; and names that just
\* fit and just do not, with a key inside.
MCWords == {<<"L", "1">>, <<"L", "6", "0">>, <<"L">>, <<"L", "a">>,
            <<"C", "=", "1">>, <<"C", "a", "0">>, <<"C", "=">>, <<"a">>, <<>>}

MCCommandLines == [name : {<<>>, <<"a", "L">>, <<"a", "a", "L">>, <<"a", "a", "L", "a">>},
                   words : BoundedSeq(MCWords, 3)]
=============================================================================
