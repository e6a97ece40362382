-------------------------------- MODULE Text --------------------------------
(***************************************************************************)
(* A string is a sequence of characters, and what the programs ask of      *)
(* std::string: find, erase and the loops that read up to a character.     *)
(***************************************************************************)
EXTENDS Integers, Sequences, FiniteSetsExt, SequencesExt

Blank == {" ", "\t"}

(* Where part first occurs in text, 0 (std::string::npos) if nowhere.      *)
find(text, part) ==
    LET places == {i \in 1 .. Len(text) - Len(part) + 1 :
                      SubSeq(text, i, i + Len(part) - 1) = part}
    IN IF places = {} THEN 0 ELSE Min(places)

Has(text, part) == find(text, part) # 0
HasAnyOf(text, chars) == ToSet(text) \cap chars # {}

From(text, i) == SubSeq(text, i, Len(text))
erase(text, n) == From(text, n + 1)

(* The longest prefix without these characters.                            *)
Until(text, chars) ==
    LET ends == {i \in 1 .. Len(text) : text[i] \in chars}
    IN IF ends = {} THEN text ELSE SubSeq(text, 1, Min(ends) - 1)

Without(text, chars) == FoldLeft(LAMBDA rest, c : IF c \in chars THEN rest ELSE Append(rest, c), <<>>, text)

SkipBlanks(text) ==
    LET others == {i \in 1 .. Len(text) : text[i] \notin Blank}
    IN IF others = {} THEN <<>> ELSE From(text, Min(others))
=============================================================================
