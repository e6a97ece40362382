------------------------------ MODULE IniText -------------------------------
(***************************************************************************)
(* How the spider's ini_parser reads a line of a file and a request        *)
(* "section.variable" (ini_parser.cpp), as what each string is made of.    *)
(* ServerIniText has the search server's copy, character by character.     *)
(***************************************************************************)
EXTENDS Text

Empty == [type |-> "_empty_", name |-> <<>>, value |-> <<>>]
Invalid == [type |-> "_invalid_", name |-> <<>>, value |-> <<>>]
Section(name) == [type |-> "_section_", name |-> name, value |-> <<>>]
Variable(name, value) == [type |-> "_variable_", name |-> name, value |-> value]

Bad == [section |-> <<>>, variable |-> <<>>]  \* ParserException_incorrect_request
NUL == "NUL"                                 \* what std::string has after its last character

(* A line has no line break: getline took it.                              *)
delete_spaces(text) == SkipBlanks(text)

section_of_any(text) ==
    LET end == find(text, <<"]">>)
    IN IF end \in {0, 2} THEN Invalid ELSE Section(SubSeq(text, 2, end - 1))

(* The loop over what follows the bracket stops one character early.       *)
section_of(text) ==
    LET end == find(text, <<"]">>)
        name == SubSeq(text, 2, end - 1)
        tail == SubSeq(text, end + 1, Len(text) - 1)
    IN IF \/ end \in {0, 2}
          \/ HasAnyOf(name, Blank \cup {"."})
          \/ ~ ToSet(Until(tail, {";"})) \subseteq Blank
       THEN Invalid ELSE Section(name)

variable_of(text) ==
    LET end == find(text, <<"=">>)
        before == SubSeq(text, 1, end - 1)
        name == Until(before, Blank \cup {"."})
    IN IF end = 0 \/ name = <<>> \/ ~ ToSet(erase(before, Len(name))) \subseteq Blank
       THEN Invalid ELSE Variable(name, Until(From(text, end + 1), {";"}))

research_string(text) ==
    IF text = <<>> \/ text[1] = ";" THEN Empty
    ELSE IF text[1] = "[" THEN section_of(text) ELSE variable_of(text)

names_unchecked(request) ==
    LET text == delete_spaces(request)
        dot == find(text, <<".">>)
    IN IF dot = 0 THEN Bad
       ELSE [section |-> SubSeq(text, 1, dot - 1), variable |-> From(text, dot + 1)]

(* The test for a dot at the end compares with < where it needs =<, and    *)
(* the loop then takes the NUL after the last character for the name.      *)
get_section_variable_names(request) ==
    LET text == delete_spaces(request)
        dot == find(text, <<".">>)
        section == SubSeq(text, 1, dot - 1)
        variable == IF dot = Len(text) THEN <<NUL>> ELSE From(text, dot + 1)
    IN IF dot \in {0, 1} \/ Len(text) < 3 \/ HasAnyOf(section, {" "}) \/ HasAnyOf(variable, {".", " "})
       THEN Bad ELSE [section |-> section, variable |-> variable]
-----------------------------------------------------------------------------
(***************************************************************************)
(* A line is read as a section exactly when it is "[name]", blanks and a   *)
(* comment, save that its last character may be anything, and as a         *)
(* variable exactly when it is name, blanks, "=", value and a comment      *)
(* (ini_parser.cpp:111-210): no cut of the line is missed or misread.      *)
(***************************************************************************)
IsSectionLine(text, name) ==
    /\ name # <<>> /\ ~ HasAnyOf(name, Blank \cup {".", "]"})
    /\ \E rest \in Suffixes(text) :
          /\ text = <<"[">> \o name \o <<"]">> \o rest
          /\ \/ Len(rest) =< 1
             \/ \E k \in 0 .. Len(rest) - 1 :
                   /\ ToSet(SubSeq(rest, 1, k)) \subseteq Blank
                   /\ k + 1 = Len(rest) \/ rest[k + 1] = ";"

IsVariableLine(text, name, value) ==
    /\ name # <<>> /\ name[1] \notin {";", "["}
    /\ ~ HasAnyOf(name, Blank \cup {".", "="})
    /\ ~ HasAnyOf(value, {";"})
    /\ \E rest \in Suffixes(text) : \E gap \in Prefixes(erase(text, Len(name))) :
          /\ text = name \o gap \o <<"=">> \o value \o rest
          /\ ToSet(gap) \subseteq Blank
          /\ rest = <<>> \/ rest[1] = ";"

LinesAreRead(text) ==
    LET line == delete_spaces(text)
        read == research_string(line)
    IN /\ \A part \in SubSeqs(line) :
             /\ IsSectionLine(line, part) <=> read = Section(part)
             /\ \A value \in SubSeqs(line) :
                   IsVariableLine(line, part, value) <=> read = Variable(part, value)
       /\ read.type = "_empty_" <=> line = <<>> \/ line[1] = ";"

(***************************************************************************)
(* A request names what is asked exactly when it is section, ".",          *)
(* variable, both without a blank or a dot; the one exception is a request *)
(* that ends in its dot (ini_parser.cpp:212-275).                          *)
(***************************************************************************)
RequestGrammar(text) ==
    LET line == delete_spaces(text)
        names == get_section_variable_names(text)
    IN /\ \A s, v \in SubSeqs(line) \ {<<>>} :
             line = s \o <<".">> \o v /\ ~ HasAnyOf(s, {".", " "}) /\ ~ HasAnyOf(v, {".", " "})
                <=> names = [section |-> s, variable |-> v]
       /\ names.variable = <<NUL>> => line = names.section \o <<".">>
=============================================================================
