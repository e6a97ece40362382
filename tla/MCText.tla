------------------------------- MODULE MCText -------------------------------
(* A text grows piece by piece, from the alphabet of its subject, and the  *)
(* operators of the text modules are tried on every text met.              *)
EXTENDS ServerIniText, RequestText

CONSTANT MaxPieces  \* bound: pieces of a text

VARIABLES subject, text, pieces

Pieces ==
    [ini |-> {<<c>> : c \in {"[", "]", "=", ";", ".", " ", "a"}},
     link |-> {Http, Https, Www, <<"/">>, <<".">>, <<"a">>, <<"/", "a", ".">>},
     words |-> {<<c>> : c \in {"A", "b", " ", ".", "_", "-", ",", "\t"}}]

Pages == {Https \o <<"h">>, Http \o <<"h", ".", "a", "/", "a", "/", "a", ".", "b">>}

Init == subject \in DOMAIN Pieces /\ text = <<>> /\ pieces = 0

Next ==
    /\ pieces < MaxPieces
    /\ pieces' = pieces + 1
    /\ \E piece \in Pieces[subject] : text' = text \o piece
    /\ UNCHANGED subject

Spec == Init /\ [][Next]_<<subject, text, pieces>>

(* The properties of the text modules, each for the texts it is about.     *)
Lines == subject = "ini" => LinesAreRead(text)
Requests == subject = "ini" => RequestGrammar(text)
Copies == subject = "ini" => CopiesAgree(text)
Links == subject = "link" => \A page \in Pages : RelativeLinksStayOnHost(text, page)
Words == subject = "words" => WordsAreCounted(text, 2, 3)
Asked == subject = "words" => AskedAsWritten(text)
=============================================================================
