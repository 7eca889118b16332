------------------------------ MODULE MCHistory ------------------------------
(* Instances of History for TLC.                                           *)
EXTENDS History

CONSTANTS s1, s2

MCLowerCase == [c \in {"A"} |-> "a"]
MCLines == {<<"a">>, <<"A">>, <<"b", "a">>}
MCPatterns == {<<"a">>, <<"A">>, <<"_">>, <<"b", "%">>}
Symmetry == {[s \in {s1, s2} |-> s], [s \in {s1, s2} |-> IF s = s1 THEN s2 ELSE s1]}
=============================================================================
