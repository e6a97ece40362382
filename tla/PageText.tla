------------------------------ MODULE PageText ------------------------------
(***************************************************************************)
(* What the spider makes of the text of a page: the address of a link      *)
(* (html_parser.cpp), how it is fetched (spider.cpp), and its words.       *)
(* Finding the tags themselves, by regular expressions over the whole      *)
(* page, is left out.                                                      *)
(***************************************************************************)
EXTENDS Text

Http == <<"h", "t", "t", "p", ":", "/", "/">>
Https == <<"h", "t", "t", "p", "s", ":", "/", "/">>
Www == <<"w", "w", "w", ".">>

BeginsWith(text, part) == find(text, part) = 1

DropSlash(text) == IF text # <<>> /\ Last(text) = "/" THEN Front(text) ELSE text

(* Runs of a character become one.                                         *)
Collapse(text, char) ==
    FoldLeft(LAMBDA done, c : IF c = char /\ done # <<>> /\ Last(done) = char THEN done ELSE Append(done, c),
             <<>>, text)

(* The result of its regex_replace is not used.                            *)
complete_url(in_url, url_base) ==
    IF in_url = <<>> THEN url_base
    ELSE IF \E prefix \in {Https, Http, Www} : BeginsWith(in_url, prefix) THEN in_url
    ELSE url_base \o <<"/">> \o (IF in_url[1] = "/" THEN Tail(in_url) ELSE in_url)

(* The scheme is searched for anywhere, and removed from the beginning.    *)
http_prefix(url) == IF Has(url, Https) THEN Https ELSE IF Has(url, Http) THEN Http ELSE <<>>

get_base_host(url) == http_prefix(url) \o Until(erase(url, Len(http_prefix(url))), {"/"})

(* Without the last name if that has a dot: what the regular expression    *)
(* matches at the end is cut out where it occurs first.                    *)
get_base_path(text) ==
    LET url == DropSlash(text)
        path == erase(url, Len(http_prefix(url)))
        ends == {i \in 1 .. Len(path) - 1 : path[i] = "/" /\ ~ HasAnyOf(From(path, i + 2), {"/"})}
        found == From(path, Min(ends))
        n_pos == find(path, found)
        base == IF ends # {} /\ HasAnyOf(found, {"."})
                THEN SubSeq(path, 1, n_pos - 1) \o From(path, n_pos + Len(found)) ELSE path
    IN http_prefix(url) \o Collapse(base, "/")

final_url_bare(href, base) ==
    LET url == DropSlash(href)
        path == get_base_path(url)
    IN (IF path = <<>> THEN <<>> ELSE complete_url(path, base)) \o erase(url, Len(path))

(* get_urls_from_html, for the address between the quotes of one link.     *)
final_url(href, base) ==
    LET url == DropSlash(href)
        path == get_base_path(url)
    IN complete_url(path, base) \o erase(url, Len(path))

check_this_host_only(host, url, this_host_only) == this_host_only => BeginsWith(url, host)

get_host_type(url) ==
    IF BeginsWith(url, Http) THEN [type |-> "host_http", url |-> erase(url, Len(Http))]
    ELSE IF BeginsWith(url, Https) THEN [type |-> "host_https", url |-> erase(url, Len(Https))]
    ELSE [type |-> "host_unknown", url |-> url]

get_host_and_target(text) ==
    LET others == {i \in 1 .. Len(text) : text[i] # "/"}
        url == IF others = {} THEN <<>> ELSE From(text, Min(others))
        host == Until(url, {"/"})
    IN [host |-> host, target |-> IF host = url THEN <<"/">> ELSE erase(url, Len(host))]

url_is_forbidden(url, forbidden_urls) == \E el \in forbidden_urls : Has(url, el)
-----------------------------------------------------------------------------
Signs == {".", ",", ":", ";", "@", "!", "~", "=", "%", "&", "#", "^", "|", "$", "[", "/", "?",
          "<", ">", "(", ")", "{", "}", "\"", "'", "*", "+", "_", "-"}

ToLower == [c \in {"A", "B", "C"} |-> CASE c = "A" -> "a" [] c = "B" -> "b" [] c = "C" -> "c"]
Spaced(text, signs) == [i \in DOMAIN text |-> IF text[i] \in signs THEN " " ELSE text[i]]
Lower(text) == [i \in DOMAIN text |-> IF text[i] \in DOMAIN ToLower THEN ToLower[text[i]] ELSE text[i]]

(* What clear_tags does to the text between the tags.  The last two signs  *)
(* are erased after the blanks.                                            *)
clear_signs(text) ==
    Lower(Without(Collapse(Spaced(text, Signs \cup {"\t"}), " "), {"\\", "]"}))

(* The expression matches any character, a blank too, and all up to a      *)
(* blank.                                                                  *)
WordAt(text, i) == Without(<<text[i]>> \o Until(From(text, i + 1), {" "}), {" "})
Matches(text) == {i \in DOMAIN text : i = 1 \/ text[i] = " "}

collect_once(text, min_word_len, max_word_len) ==
    [word \in {w \in {WordAt(text, i) : i \in Matches(text) \ {1}} :
                  Len(w) >= min_word_len /\ Len(w) =< max_word_len} |->
        Cardinality({i \in Matches(text) : WordAt(text, i) = word})]

collect_words(text, min_word_len, max_word_len) ==
    [word \in {w \in {WordAt(text, i) : i \in Matches(text)} :
                  Len(w) >= min_word_len /\ Len(w) =< max_word_len} |->
        Cardinality({i \in Matches(text) : WordAt(text, i) = word})]
-----------------------------------------------------------------------------
(***************************************************************************)
(* A link without a scheme leads to the host of its page, over the same    *)
(* protocol, and passes the check for it; one with a scheme leads where it *)
(* says (html_parser.cpp:34-64, spider.cpp:237-277).  Exceptions: a link   *)
(* whose path is made to begin with "www." is never fetched, and a scheme  *)
(* inside a link, an empty name between slashes, or a last name that       *)
(* occurs before, too, may make another host of it.                        *)
(***************************************************************************)
Place(url) == [type |-> get_host_type(url).type, host |-> get_host_and_target(get_host_type(url).url).host]

RelativeLinksStayOnHost(link, page) ==
    LET url == final_url(link, get_base_host(page))
        scheme == http_prefix(link)
        rest == erase(link, Len(scheme))
        names == DropSlash(rest)
        www == BeginsWith(get_base_path(DropSlash(link)), Www)
    IN /\ scheme = <<>> /\ ~ www =>
             /\ Place(url) = Place(page)
             /\ check_this_host_only(get_base_host(page), url, TRUE)
       /\ scheme = <<>> /\ www => Place(url).type = "host_unknown"
       /\ \/ scheme = <<>>
          \/ ~ BeginsWith(link, scheme)
          \/ Until(rest, {"/"}) = <<>> \/ Has(rest, <<"/", "/">>)
          \/ \E i \in DOMAIN names : names[i] = "/" /\ find(names, From(names, i)) # i
          \/ Place(url) = Place(link)

(***************************************************************************)
(* Every word of a text, from blank to blank, is counted as often as it    *)
(* occurs, and nothing else is (html_parser.cpp:212-246).                  *)
(***************************************************************************)
WordsAreCounted(text, min_word_len, max_word_len) ==
    LET words == collect_words(text, min_word_len, max_word_len)
        Occurs(w) == {i \in 1 .. Len(text) - Len(w) + 1 :
            /\ SubSeq(text, i, i + Len(w) - 1) = w
            /\ i = 1 \/ text[i - 1] = " "
            /\ i + Len(w) - 1 = Len(text) \/ text[i + Len(w)] = " "}
    IN \A w \in SubSeqs(text) \ {<<>>} :
          IF ~ HasAnyOf(w, {" "}) /\ Len(w) \in min_word_len .. max_word_len /\ Occurs(w) # {}
          THEN w \in DOMAIN words /\ words[w] = Cardinality(Occurs(w))
          ELSE w \notin DOMAIN words
=============================================================================
