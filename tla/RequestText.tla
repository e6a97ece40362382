----------------------------- MODULE RequestText ----------------------------
(***************************************************************************)
(* What the search server makes of the body of a request                   *)
(* (server_interface.cpp), beside what the spider made of a page           *)
(* (PageText): a word is found only if both write it alike.                *)
(***************************************************************************)
EXTENDS PageText

field_name == <<"s", "e", "a", "r", "c", "h", "_", "r", "e", "q", "u", "e", "s", "t", "=">>

RequestSigns == {".", ",", ":", ";", "!", "?", "\"", "'", "*", "+", "=", "_", "~", "#", "$", "^", "&"}

(* A tabulator arrives as "%09".                                           *)
Tabs(text) ==
    FoldLeft(LAMBDA done, c :
                 IF c = "9" /\ IsSuffix(<<"%", "0">>, done)
                 THEN Append(SubSeq(done, 1, Len(done) - 2), " ") ELSE Append(done, c), <<>>, text)

clear_all_signs(text) ==
    IF ~ BeginsWith(text, field_name) THEN <<>>
    ELSE Lower(Without(Tabs(erase(text, Len(field_name))), RequestSigns))

clear_request_string(text) ==
    IF ~ BeginsWith(text, field_name) THEN <<>>
    ELSE Lower(Collapse(Spaced(Tabs(erase(text, Len(field_name))), RequestSigns), " "))

(* ">>" reads up to a blank.  Without a word the string it left is empty,  *)
(* and is taken for one.                                                   *)
get_words_request_set(text) ==
    LET starts == {i \in DOMAIN text : text[i] # " " /\ (i = 1 \/ text[i - 1] = " ")}
    IN IF starts = {} THEN {<<>>} ELSE {Until(From(text, i), {" "}) : i \in starts}

(* The browser's encoding of what was typed into the form.                 *)
form_encode(typed) ==
    LET code == [c \in ToSet(typed) |->
                    CASE c = " " -> <<"+">> [] c = "\t" -> <<"%", "0", "9">>
                      [] c = "," -> <<"%", "2", "C">> [] OTHER -> <<c>>]
    IN field_name \o FoldLeft(LAMBDA done, c : done \o code[c], <<>>, typed)

(***************************************************************************)
(* What a page says and a user types alike, the spider indexes and the     *)
(* server asks for alike: the words of both are the same, in whatever      *)
(* case and with whatever dots, underscores and blanks                     *)
(* (html_parser.cpp:126-145, server_interface.cpp:127-162).  A hyphen or a *)
(* comma separates words only for the spider.                              *)
(***************************************************************************)
AskedAsWritten(typed) ==
    ~ HasAnyOf(typed, {"-", ","}) =>
        LET indexed == DOMAIN collect_words(clear_signs(typed), 1, Len(typed))
            asked == get_words_request_set(clear_request_string(form_encode(typed)))
        IN asked = IF indexed = {} THEN {<<>>} ELSE indexed
=============================================================================
