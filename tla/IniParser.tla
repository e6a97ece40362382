----------------------------- MODULE IniParser ------------------------------
(***************************************************************************)
(* ini_parser: objects of the class, made, copied, moved, assigned, filled *)
(* from a file and destroyed in any order, and what a request for a value  *)
(* comes to.  Both programs have the class (ini_parser.cpp, ini_parser.hpp *)
(* in diploma_thesis and diploma_thesis_2); they differ in how a line is   *)
(* read (IniText, ServerIniText) and in the assignments.                   *)
(*                                                                         *)
(* sections_map and variables_str_array are allocated, moved and deleted   *)
(* together: one store.  A store that is freed leaves Dangling pointers,   *)
(* and what using one of them does is undefined: status "corrupt".         *)
(*                                                                         *)
(* construct_shared, nothing_nulled, section_not_pushed, section_kept and  *)
(* error_first are mistakes that the properties must catch: the mutants of *)
(* PROJECT.json.                                                           *)
(***************************************************************************)
EXTENDS ServerIniText

CONSTANTS
    Object,    \* variables of type ini_parser
    MaxStores, \* bound: stores at a time
    MaxFills,  \* bound: calls of fill_parser on an object
    File,      \* names of files
    Lines,     \* the lines of each file that can be opened
    Requests   \* what get_value is asked for: section.variable

ASSUME IniAssumption ==
    /\ MaxStores \in Nat /\ MaxFills \in Nat
    /\ DOMAIN Lines \subseteq File
    /\ \A file \in DOMAIN Lines : Lines[file] \in Seq(ToSet(Lines[file]))
    /\ \A request \in Requests :
          Bad \notin {get_section_variable_names(request), get_section_variable_names_2(request)}

VARIABLES
    program,   \* whose copy of the class: "spider" or "server"
    parser,    \* the fields of each object
    heap,      \* the stores
    status,    \* "ok", "crashed", or "corrupt" for undefined behaviour
    fills,     \* history: the files fill_parser was called with
    assigned   \* history: whether an assignment operator was called

vars == <<program, parser, heap, status, fills, assigned>>

Null == 0
Dangling == -1
Stores == 1 .. MaxStores

Constructed(s) ==
    [alive |-> TRUE, store |-> s, parser_invalid |-> FALSE, file_read |-> FALSE,
     invalid_data |-> FALSE, incorrect_str_num |-> 0, current_section_number |-> -1]
NoParser == [Constructed(Null) EXCEPT !.alive = FALSE]

(* sections: the index of a name; variables: at index i + 1, the values.   *)
Free == [live |-> FALSE, sections |-> <<>>, variables |-> <<>>]
Created == [Free EXCEPT !.live = TRUE]

Init ==
    /\ program \in {"spider", "server"}
    /\ parser = [o \in Object |-> NoParser]
    /\ heap = [s \in Stores |-> Free]
    /\ status = "ok"
    /\ fills = [o \in Object |-> <<>>]
    /\ assigned = FALSE

(* What each copy makes of a line and of a request.                        *)
read_line(line) == IF program = "spider" THEN research_string(delete_spaces(line))
                                         ELSE research_string_2(delete_spaces_2(line))
read_request(text) == IF program = "spider" THEN get_section_variable_names(text)
                                            ELSE get_section_variable_names_2(text)
-----------------------------------------------------------------------------
Owns(o) == parser[o].store \in Stores

(* The object's pointers are followed and lead nowhere.                    *)
Break(o) ==
    /\ ~ Owns(o)
    /\ status' = IF parser[o].store = Null THEN "crashed" ELSE "corrupt"
    /\ UNCHANGED <<program, parser, heap, fills>>

construct(o) ==
    /\ ~ parser[o].alive
    /\ \E s \in Stores :
          /\ ~ heap[s].live
          /\ heap' = [heap EXCEPT ![s] = Created]
          /\ parser' = [parser EXCEPT ![o] = Constructed(s)]
    /\ UNCHANGED <<program, status, fills, assigned>>

construct_shared(o, other) ==
    /\ parser[other].alive /\ ~ parser[o].alive
    /\ Owns(other)
    /\ parser' = [parser EXCEPT ![o] = parser[other]]
    /\ fills' = [fills EXCEPT ![o] = fills[other]]
    /\ UNCHANGED <<program, heap, status, assigned>>

copy_construct(o, other) ==
    /\ parser[other].alive /\ ~ parser[o].alive
    /\ \/ /\ Owns(other)
          /\ \E s \in Stores :
                /\ ~ heap[s].live
                /\ heap' = [heap EXCEPT ![s] = heap[parser[other].store]]
                /\ parser' = [parser EXCEPT ![o] = [parser[other] EXCEPT !.store = s]]
          /\ fills' = [fills EXCEPT ![o] = fills[other]]
          /\ UNCHANGED <<program, status>>
       \/ Break(other)
    /\ UNCHANGED assigned

nothing_nulled(o, other) ==
    /\ parser[other].alive /\ ~ parser[o].alive
    /\ parser' = [parser EXCEPT ![o] = parser[other]]
    /\ fills' = [fills EXCEPT ![o] = fills[other], ![other] = <<>>]
    /\ UNCHANGED <<program, heap, status, assigned>>

move_construct(o, other) ==
    /\ parser[other].alive /\ ~ parser[o].alive
    /\ parser' = [parser EXCEPT ![o] = parser[other], ![other].store = Null]
    /\ fills' = [fills EXCEPT ![o] = fills[other], ![other] = <<>>]
    /\ UNCHANGED <<program, heap, status, assigned>>

destroy(o) ==
    /\ parser[o].alive
    /\ \/ /\ parser[o].store # Dangling
          /\ heap' = [s \in Stores |-> IF s = parser[o].store THEN Free ELSE heap[s]]
          /\ parser' = [p \in Object |->
                IF p = o THEN NoParser
                ELSE IF parser[p].store = parser[o].store /\ Owns(o) THEN [parser[p] EXCEPT !.store = Dangling]
                ELSE parser[p]]
          /\ fills' = [fills EXCEPT ![o] = <<>>]
          /\ UNCHANGED <<program, status>>
       \/ parser[o].store = Dangling /\ Break(o)
    /\ UNCHANGED assigned
-----------------------------------------------------------------------------
(***************************************************************************)
(* Assignment from another object.  The spider's copy moves a temporary    *)
(* copy into the target with the default move assignment, which copies its *)
(* pointers, and destroys it; the target's own store is never freed.  The  *)
(* server's copy calls itself with a temporary copy, for ever.             *)
(***************************************************************************)
copy_assign(o, other) ==
    /\ program = "spider" /\ o # other /\ parser[o].alive /\ parser[other].alive
    /\ \/ /\ Owns(other)
          /\ parser' = [parser EXCEPT ![o] = [parser[other] EXCEPT !.store = Dangling]]
          /\ fills' = [fills EXCEPT ![o] = fills[other]]
          /\ UNCHANGED <<program, heap, status>>
       \/ Break(other)
    /\ assigned' = TRUE

move_assign(o, other) ==
    /\ program = "spider" /\ parser[o].alive /\ parser[other].alive
    /\ parser' = [parser EXCEPT ![o] = parser[other]]
    /\ fills' = [fills EXCEPT ![o] = fills[other]]
    /\ assigned' = TRUE
    /\ UNCHANGED <<program, heap, status>>

move_assign_2(o, other) ==
    /\ program = "server" /\ parser[o].alive /\ parser[other].alive
    /\ \/ Owns(other) /\ status' = "crashed" /\ UNCHANGED <<program, parser, heap, fills>>
       \/ Break(other)
    /\ assigned' = TRUE

copy_assign_2(o, other) == o # other /\ move_assign_2(o, other)
-----------------------------------------------------------------------------
put(map, key, value) ==
    [k \in DOMAIN map \cup {key} |-> IF k = key THEN value ELSE map[k]]

section_not_pushed(fill, name) ==
    IF name \in DOMAIN fill.sections
    THEN [fill EXCEPT !.current_section_number = fill.sections[name]]
    ELSE [fill EXCEPT !.sections = put(@, name, fill.sections_count),
                      !.current_section_number = fill.sections_count,
                      !.sections_count = @ + 1]

section_kept(fill, name) ==
    IF name \in DOMAIN fill.sections THEN fill
    ELSE [fill EXCEPT !.sections = put(@, name, fill.sections_count),
                      !.current_section_number = fill.sections_count,
                      !.sections_count = @ + 1,
                      !.variables = Append(@, <<>>)]

(* The count of sections is of this call: a second fill_parser gives new   *)
(* sections the numbers of the old ones.                                   *)
take_section(fill, name) ==
    IF name \in DOMAIN fill.sections
    THEN [fill EXCEPT !.current_section_number = fill.sections[name]]
    ELSE [fill EXCEPT !.sections = put(@, name, fill.sections_count),
                      !.current_section_number = fill.sections_count,
                      !.sections_count = @ + 1,
                      !.variables = Append(@, <<>>)]

take_variable(fill, name, value) ==
    IF fill.current_section_number < 0 THEN [fill EXCEPT !.incorrect_str_num = fill.lines_count]
    ELSE [fill EXCEPT !.variables[fill.current_section_number + 1] = put(@, name, value)]

(* The loop ends after the first line that finds incorrect_str_num set.    *)
take_line(before, line) ==
    LET read == read_line(line)
        fill == [before EXCEPT !.lines_count = @ + 1]
        after == CASE read.type = "_section_" -> take_section(fill, read.name)
                   [] read.type = "_variable_" -> take_variable(fill, read.name, read.value)
                   [] read.type = "_invalid_" -> [fill EXCEPT !.incorrect_str_num = fill.lines_count]
                   [] OTHER -> fill
    IN IF before.done THEN before ELSE [after EXCEPT !.done = after.incorrect_str_num # 0]

filled(o, lines) ==
    FoldLeft(take_line,
             [sections |-> heap[parser[o].store].sections,
              variables |-> heap[parser[o].store].variables,
              current_section_number |-> parser[o].current_section_number,
              incorrect_str_num |-> parser[o].incorrect_str_num,
              sections_count |-> 0, lines_count |-> 0, done |-> FALSE],
             lines)

(* What the call leaves in the store, and in the object.                   *)
written(fill) == [live |-> TRUE, sections |-> fill.sections, variables |-> fill.variables]

noted(fields, fill) ==
    [fields EXCEPT !.file_read = TRUE,
                   !.invalid_data = @ \/ fill.done,
                   !.incorrect_str_num = fill.incorrect_str_num,
                   !.current_section_number = fill.current_section_number,
                   !.parser_invalid = @ \/ Len(fill.variables) # Cardinality(DOMAIN fill.sections)]

fill_parser(o, file) ==
    /\ parser[o].alive /\ Len(fills[o]) < MaxFills
    /\ \/ /\ file \notin DOMAIN Lines
          /\ parser' = [parser EXCEPT ![o].parser_invalid = TRUE]
          /\ fills' = [fills EXCEPT ![o] = Append(@, file)]
          /\ UNCHANGED <<program, heap, status>>
       \/ /\ file \in DOMAIN Lines /\ Owns(o)
          /\ heap' = [heap EXCEPT ![parser[o].store] = written(filled(o, Lines[file]))]
          /\ parser' = [parser EXCEPT ![o] = noted(parser[o], filled(o, Lines[file]))]
          /\ fills' = [fills EXCEPT ![o] = Append(@, file)]
          /\ UNCHANGED <<program, status>>
       \/ file \in DOMAIN Lines /\ Break(o)
    /\ UNCHANGED assigned
-----------------------------------------------------------------------------
error_first(o) ==
    IF parser[o].parser_invalid \/ parser[o].store = Null THEN "error"
    ELSE IF ~ parser[o].file_read THEN "no_file"
    ELSE IF parser[o].invalid_data THEN "incorrect_data" ELSE "none"

(* The exception that is thrown, "none" if none is.                        *)
check_parser(o) ==
    IF ~ parser[o].file_read THEN "no_file"
    ELSE IF parser[o].parser_invalid \/ parser[o].store = Null THEN "error"
    ELSE IF parser[o].invalid_data THEN "incorrect_data" ELSE "none"

Throw(exception) == [exception |-> exception, value |-> <<>>]
Give(value) == [exception |-> "none", value |-> value]

get_section_number(store, name) == IF name \in DOMAIN store.sections THEN store.sections[name] ELSE -1
get_section_name(store, i) ==
    LET names == {n \in DOMAIN store.sections : store.sections[n] = i}
    IN IF names = {} THEN <<>> ELSE CHOOSE n \in names : TRUE

get_variable_value(store, i, name) ==
    IF i < 0 THEN Throw("no_section")
    ELSE IF i >= Len(store.variables) THEN Throw("error")
    ELSE IF name \notin DOMAIN store.variables[i + 1] THEN Throw("no_variable")
    ELSE Give(store.variables[i + 1][name])

Digits == {"0", "1", "2", "3", "4", "5", "6", "7", "8", "9"}

(* std::stoi: a sign, and the digits up to what is none.                   *)
stoi(text) ==
    LET sign == IF text # <<>> /\ Head(text) = "-" THEN 1 ELSE 0
        others == {i \in sign + 1 .. Len(text) : text[i] \notin Digits}
        end == IF others = {} THEN Len(text) ELSE Min(others) - 1
    IN IF end > sign THEN Give(SubSeq(text, 1, end)) ELSE Throw("no_variable")

as_type(T, text) ==
    LET value == Without(text, Blank)
    IN CASE T = "string" -> Give(value)
         [] T = "bool" -> Give(value # <<"0">>)
         [] T = "int" -> stoi(value)

get_value(T, o, request) ==
    LET names == read_request(request)
        store == heap[parser[o].store]
        index == get_section_number(store, names.section)
        found == get_variable_value(store, index, names.variable)
    IN IF check_parser(o) \in {"no_file", "error"} THEN Throw(check_parser(o))
       ELSE IF names = Bad THEN Throw("incorrect_request")
       ELSE IF index < 0 THEN Throw("no_section")
       ELSE IF found.exception # "none" THEN found
       ELSE as_type(T, found.value)

(* get_value and the printing methods change nothing, but follow the       *)
(* pointers once the checks let them.                                      *)
ask(o) ==
    /\ parser[o].alive
    /\ check_parser(o) \in {"none", "incorrect_data"}
    /\ Break(o)
    /\ UNCHANGED assigned

print_all_sections_info(o) ==
    LET store == heap[parser[o].store]
    IN [i \in 1 .. Len(store.variables) |->
           [name |-> get_section_name(store, i - 1), variables |-> store.variables[i]]]
-----------------------------------------------------------------------------
Next ==
    /\ status = "ok"
    /\ \E o, other \in Object :
          \/ construct(o) \/ destroy(o) \/ ask(o)
          \/ copy_construct(o, other) \/ move_construct(o, other)
          \/ copy_assign(o, other) \/ move_assign(o, other)
          \/ copy_assign_2(o, other) \/ move_assign_2(o, other)
          \/ \E file \in File : fill_parser(o, file)

Spec == Init /\ [][Next]_vars
-----------------------------------------------------------------------------
Intact(o) == parser[o].alive /\ Owns(o) /\ ~ assigned

TypeOfStore(store) ==
    /\ store.live \in BOOLEAN
    /\ \A name \in DOMAIN store.sections : store.sections[name] \in 0 .. Len(store.variables) - 1

(* Types.  The number of a section, wherever it is kept, is the index of   *)
(* some map of variables: operator[] never leaves variables_str_array.     *)
TypeOK ==
    /\ program \in {"spider", "server"}
    /\ DOMAIN parser = Object
    /\ \A o \in Object :
          /\ parser[o].store \in Stores \cup {Null, Dangling}
          /\ Owns(o) => parser[o].current_section_number \in -1 .. Len(heap[parser[o].store].variables) - 1
    /\ DOMAIN heap = Stores
    /\ \A s \in Stores : TypeOfStore(heap[s])
    /\ status \in {"ok", "crashed", "corrupt"}
    /\ assigned \in BOOLEAN

(***************************************************************************)
(* As long as no assignment operator is called, whatever objects are made, *)
(* copied, moved, filled and destroyed, each store has exactly one owner,  *)
(* no pointer dangles, nothing leaks and nothing is deleted twice; the     *)
(* constructors and the destructor (ini_parser.cpp:6-76) are sound by      *)
(* themselves.                                                             *)
(***************************************************************************)
DamageOnlyByAssignment ==
    ~ assigned =>
        /\ status # "corrupt"
        /\ \A o \in Object : parser[o].store # Dangling /\ (Owns(o) => parser[o].alive)
        /\ \A o, other \in Object : Owns(o) /\ parser[o].store = parser[other].store => o = other
        /\ \A s \in Stores : heap[s].live <=> \E o \in Object : parser[o].store = s

(***************************************************************************)
(* After one fill_parser, a variable has the value of its last line in the *)
(* parts of the file under its section's name, up to the first line that   *)
(* is invalid or a variable before any section, however sections come and  *)
(* come back; nothing else has a value; and the printout says the same     *)
(* (ini_parser.cpp:417-554).                                               *)
(***************************************************************************)
ValueIsOfItsSection ==
    \A o \in Object : Intact(o) /\ Len(fills[o]) = 1 /\ fills[o][1] \in DOMAIN Lines =>
        LET read == [i \in DOMAIN Lines[fills[o][1]] |-> read_line(Lines[fills[o][1]][i])]
            sections(n) == {i \in 1 .. n : read[i].type = "_section_"}
            Good(i) == \/ read[i].type \in {"_section_", "_empty_"}
                       \/ read[i].type = "_variable_" /\ sections(i) # {}
            accepted == Max({n \in 0 .. Len(read) : \A i \in 1 .. n : Good(i)})
            Under(i) == read[Max(sections(i))].name
            says(section, variable) == {i \in 1 .. accepted :
                read[i].type = "_variable_" /\ read[i].name = variable /\ Under(i) = section}
            store == heap[parser[o].store]
            printed == print_all_sections_info(o)
        IN /\ DOMAIN store.sections = {read[i].name : i \in sections(accepted)}
           /\ \A section \in DOMAIN store.sections, variable \in {read[i].name : i \in DOMAIN read} :
                 get_variable_value(store, get_section_number(store, section), variable) =
                    IF says(section, variable) = {} THEN Throw("no_variable")
                    ELSE Give(read[Max(says(section, variable))].value)
           /\ parser[o].invalid_data <=> accepted < Len(read)
           /\ Len(printed) = Cardinality(DOMAIN store.sections)
           /\ \A i \in DOMAIN printed : printed[i].variables = store.variables[store.sections[printed[i].name] + 1]

(***************************************************************************)
(* main catches ParserException_no_file, no_section and no_variable and no *)
(* other.  None other comes out of get_value for a request of the form     *)
(* section.variable when the parser was filled at most once                *)
(* (diploma_thesis.cpp:15-54, diploma_thesis_2.cpp:14-54).                 *)
(***************************************************************************)
MainCatchesAll ==
    \A o \in Object : Intact(o) /\ Len(fills[o]) =< 1 =>
        \A request \in Requests, T \in {"string", "int", "bool"} :
            get_value(T, o, request).exception \in {"none", "no_file", "no_section", "no_variable"}

(***************************************************************************)
(* An object's values change by its own fill_parser only: what happens to  *)
(* a copy of it, or to what it was copied from, does not reach it          *)
(* (ini_parser.cpp:26-47).                                                 *)
(***************************************************************************)
CopiesAreIndependent ==
    [][\A o \in Object :
          /\ Intact(o) /\ ~ assigned'
          /\ parser'[o].alive /\ parser'[o].store \in Stores
          /\ fills'[o] = fills[o]
          => heap'[parser'[o].store] = heap[parser[o].store]]_vars
=============================================================================
