---------------------------- MODULE MCIniParser -----------------------------
(* Two objects; files in which sections come back, or are never left, with *)
(* a comment, a stray character, an invalid line or an orphan; one file    *)
(* that cannot be opened.                                                  *)
EXTENDS IniParser, TLC

a == <<"[", "a", "]">>
b == <<" ", "[", "b", "]", " ", ";">>
x1 == <<"x", "=", "1">>
x2 == <<"x", " ", "=", " ", "2", ";", "x">>
y == <<"y", "=", "z">>
stray == <<"y", " ", "z", "=", "1">>
invalid == <<"[", "a">>

Symmetry == Permutations(Object)

MCFile == {"back", "stray", "orphan", "invalid", "missing"}
MCLines ==
    [file \in MCFile \ {"missing"} |->
        CASE file = "back" -> <<a, x1, b, x2, a, y, x2>>
          [] file = "stray" -> <<b, x1, stray, a, x2>>
          [] file = "orphan" -> <<<<>>, y, a, x1>>
          [] file = "invalid" -> <<b, y, invalid, a, x1>>]

MCRequests == {<<"a", ".", "x">>, <<" ", "b", ".", "x">>, <<"b", ".", "y">>, <<"c", ".", "x">>}
=============================================================================
