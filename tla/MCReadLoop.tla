----------------------------- MODULE MCReadLoop ------------------------------
(* Instances of ReadLoop for TLC.                                          *)
EXTENDS ReadLoop

MCGlobTable == [p \in {} |-> << >>]
MCLetters == {"x"}
MCLongNames == {"ab", "if", "then", "fi"}

\* What opens something, what closes it or something else, and what is in between.
MCLines ==
    {<< >>, <<"ab">>, <<"'">>, <<"ab", " ", "'", "x">>, <<"x", "'", " ", "}">>,
     <<"\"", "ab", "\\", "\\">>, <<"ab", "\\">>, <<"#", "'", "ab">>,
     <<"{", " ", "ab">>, <<";", "}">>, <<"ab", ">", "|">>,
     <<"$", "(", "ab">>, <<"ab", ")">>, <<"$", "{", "ab", "-", "'">>, <<"}", "bq">>,
     <<"\"", "$", "(", "x">>, <<"$", "x">>}

MCContinuations ==
    {<<"ab">>, <<"}">>, <<"'">>, <<"\"">>, <<")">>, <<")", "\"">>, <<"then", " ", "ab", ";", "fi">>}
\* What closes what each of three lines may have opened, the last one first.
Closed == {<< >>, <<"'">>, <<"\"">>, <<"x">>, <<")">>, <<")", "\"">>, <<"}">>, <<"'", "}">>, <<"bq">>}
MCClosers == {a \o b \o c : a \in Closed, b \in Closed, c \in Closed}
=============================================================================
