--------------------------- MODULE ServerIniText ----------------------------
(***************************************************************************)
(* How the search server's copy of ini_parser reads a line and a request,  *)
(* one character after the other as its loops do.  In this copy the loop   *)
(* over the characters between a name and "=" is where it never runs.      *)
(***************************************************************************)
EXTENDS IniText

delete_spaces_2(text) ==
    FoldLeft(LAMBDA temp, c : IF c \in Blank /\ temp = <<>> THEN temp ELSE Append(temp, c), <<>>, text)

section_step_gap(read, c) ==
    CASE read.at = "name" /\ c = "]" -> [read EXCEPT !.at = "tail"]
      [] read.at = "name" /\ c \in Blank -> read
      [] read.at = "name" /\ c \notin Blank \cup {".", "]"} -> [read EXCEPT !.name = Append(@, c)]
      [] read.at = "tail" /\ c \in Blank -> read
      [] read.at = "tail" /\ c = ";" -> [read EXCEPT !.at = "comment"]
      [] read.at = "comment" -> read
      [] OTHER -> [read EXCEPT !.at = "wrong"]

(* at: in the name, in the tail after "]", in a comment, or "wrong".       *)
section_step(read, c) ==
    CASE read.at = "name" /\ c = "]" -> [read EXCEPT !.at = "tail"]
      [] read.at = "name" /\ c \notin Blank \cup {".", "]"} -> [read EXCEPT !.name = Append(@, c)]
      [] read.at = "tail" /\ c \in Blank -> read
      [] read.at = "tail" /\ c = ";" -> [read EXCEPT !.at = "comment"]
      [] read.at = "comment" -> read
      [] OTHER -> [read EXCEPT !.at = "wrong"]

section_of_2(text) ==
    LET inner == FoldLeft(section_step, [at |-> "name", name |-> <<>>], SubSeq(text, 2, Len(text) - 1))
        read == IF inner.at = "name" THEN section_step(inner, Last(text)) ELSE inner
    IN IF read.at \in {"tail", "comment"} /\ read.name # <<>> THEN Section(read.name) ELSE Invalid

variable_step(read, c) ==
    CASE read.at \in {"name", "gap"} /\ c = "=" -> [read EXCEPT !.at = "value"]
      [] read.at = "name" /\ c \in Blank \cup {"."} -> [read EXCEPT !.at = "gap"]
      [] read.at = "name" /\ c \notin Blank \cup {".", "="} -> [read EXCEPT !.name = Append(@, c)]
      [] read.at = "value" /\ c = ";" -> [read EXCEPT !.at = "comment"]
      [] read.at = "value" /\ c # ";" -> [read EXCEPT !.value = Append(@, c)]
      [] OTHER -> read

(* A value may have been begun by any "=": only the first one is found.    *)
variable_of_2(text) ==
    LET read == FoldLeft(variable_step, [at |-> "name", name |-> <<>>, value |-> <<>>], text)
    IN IF read.at \in {"name", "gap"} \/ read.name = <<>> THEN Invalid
       ELSE Variable(read.name, read.value)

research_string_2(text) ==
    CASE text = <<>> -> Empty
      [] Len(text) > 0 /\ Head(text) = ";" -> Empty
      [] Len(text) > 0 /\ Head(text) = "[" -> section_of_2(text)
      [] OTHER -> variable_of_2(text)

request_step(read, c) ==
    CASE read.at = "section" /\ c = "." -> [read EXCEPT !.at = "variable"]
      [] read.at = "section" /\ c \notin {".", " "} -> [read EXCEPT !.section = Append(@, c)]
      [] read.at = "variable" /\ c \notin {".", " "} -> [read EXCEPT !.variable = Append(@, c)]
      [] OTHER -> [read EXCEPT !.at = "wrong"]

get_section_variable_names_2(request) ==
    LET text == delete_spaces_2(request)
        read == FoldLeft(request_step, [at |-> "section", section |-> <<>>, variable |-> <<>>],
                         IF text # <<>> /\ Last(text) = "." /\ ~ Has(Front(text), <<".">>) THEN Append(text, NUL) ELSE text)
    IN IF Len(text) < 3 \/ read.at # "variable" \/ read.section = <<>> THEN Bad
       ELSE [section |-> read.section, variable |-> read.variable]
-----------------------------------------------------------------------------
(***************************************************************************)
(* The two copies read every line and every request alike, save one kind   *)
(* of line: where the spider's finds something else than blanks between a  *)
(* name and "=", the server's takes the line for a variable                *)
(* (diploma_thesis_2/ini_parser.cpp:175-213).                              *)
(***************************************************************************)
CopiesAgree(text) ==
    LET line == delete_spaces(text)
        one == research_string(line)
        other == research_string_2(line)
        stray == erase(SubSeq(line, 1, find(line, <<"=">>) - 1), Len(other.name))
    IN /\ delete_spaces_2(text) = line
       /\ get_section_variable_names_2(text) = get_section_variable_names(text)
       /\ one = other \/ one = Invalid
       /\ one # other <=> other.type = "_variable_" /\ ~ ToSet(stray) \subseteq Blank
=============================================================================
