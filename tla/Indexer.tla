------------------------------ MODULE Indexer ------------------------------
(***************************************************************************)
(* The spider's writer: Data_base (data_base.cpp) and                      *)
(* add_url_words_to_database (spider.cpp).  Every statement is a           *)
(* transaction of its own and an action; between two of them the           *)
(* connection may be lost or the process may end.  The tables outlive the  *)
(* process, and the next run of the spider goes on with them.              *)
(*                                                                         *)
(* The work threads call add_url_words_to_database under data_base_mutex,  *)
(* from its first statement to its last, so there is one writer at a time: *)
(* url, todo, url_id and word_id are the locals of the thread that holds   *)
(* the mutex.  last_error only feeds a message and is left out.            *)
(*                                                                         *)
(* id_unchecked, skip_nothing, insert_always, insert_again and id_swapped  *)
(* are mistakes that the properties must catch: the mutants of             *)
(* PROJECT.json.                                                           *)
(***************************************************************************)
EXTENDS Integers

CONSTANTS
    Url, Word,
    Pages,       \* what a page may contain: a quantity per word, 0 for none
    LongUrl,     \* addresses of more than 250 characters: varchar(250)
    LongWord,    \* words of more than 32 characters: varchar(32)
    SerialSize   \* how many ids a serial column has: 2^31 - 1

ASSUME IndexerAssumption ==
    /\ Pages \subseteq [Word -> Nat]
    /\ LongUrl \subseteq Url
    /\ LongWord \subseteq Word
    /\ SerialSize \in Nat \ {0}

VARIABLES
    place,          \* where the program is, see Place
    connection,     \* connection_ptr: "none" (nullptr), "open" or "broken"
    documents,      \* the id of each address, 0 if it has no row
    documents_seq,  \* the last id taken from the sequence of documents.id
    words, words_seq,
    urls_words,     \* quantity by <<word_id, url_id>>, 0 if there is no row
    url, todo,      \* the address and what is left of words_map
    url_id, word_id,
    page,           \* history: what each address was last indexed with
    flawed          \* history: whether a statement failed on the way

table_vars == <<documents, documents_seq, words, words_seq, urls_words>>
local_vars == <<todo, url_id, word_id>>
vars == <<place, connection, table_vars, url, local_vars, page, flawed>>

Id == 1 .. SerialSize
Starting == {"connect", "tables", "templates"}
Indexing == {"add_url", "url_id", "add_word", "word_id", "exist", "insert", "update"}
Place == Starting \cup Indexing \cup {"free", "ended"}

NoPage == [w \in Word |-> 0]
WordsOf(p) == {w \in Word : p[w] > 0}

(* The loop over words_map is at this word: a map has some fixed order.    *)
word == CHOOSE w \in todo : TRUE

TypeOK ==
    /\ place \in Place
    /\ connection \in {"none", "open", "broken"}
    /\ documents \in [Url -> 0 .. SerialSize]
    /\ documents_seq \in 0 .. SerialSize
    /\ words \in [Word -> 0 .. SerialSize]
    /\ words_seq \in 0 .. SerialSize
    /\ urls_words \in [Id \X Id -> Nat]
    /\ url \in Url
    /\ todo \in SUBSET Word
    /\ url_id \in 0 .. SerialSize
    /\ word_id \in 0 .. SerialSize
    /\ page \in [Url -> [Word -> Nat]]
    /\ flawed \in [Url -> BOOLEAN]

Init ==
    /\ place = "connect"
    /\ connection = "none"
    /\ documents = [u \in Url |-> 0]
    /\ documents_seq = 0
    /\ words = [w \in Word |-> 0]
    /\ words_seq = 0
    /\ urls_words = [pair \in Id \X Id |-> 0]
    /\ url \in Url
    /\ todo = {}
    /\ url_id = 0
    /\ word_id = 0
    /\ page = [u \in Url |-> NoPage]
    /\ flawed = [u \in Url |-> FALSE]
-----------------------------------------------------------------------------
(* The end of the process, and of add_url_words_to_database.               *)
Exit == place' = "ended" /\ connection' = "none" /\ todo' = {} /\ url_id' = 0 /\ word_id' = 0
Return == place' = "free" /\ todo' = {} /\ url_id' = 0 /\ word_id' = 0

(* start_db.  Without a connection, the tables or the templates the spider *)
(* does nothing and the program ends.                                      *)
connect_db ==
    /\ place = "connect"
    /\ \/ connection' = "open" /\ place' = "tables" /\ UNCHANGED local_vars
       \/ Exit
    /\ UNCHANGED <<table_vars, url, page, flawed>>

(* CREATE ... IF NOT EXISTS, all in one transaction.                       *)
create_tables ==
    /\ place = "tables"
    /\ \/ place' = "templates" /\ UNCHANGED <<connection, local_vars>>
       \/ Exit
    /\ UNCHANGED <<table_vars, url, page, flawed>>

create_templates ==
    /\ place = "templates"
    /\ \/ place' = "free" /\ UNCHANGED <<connection, local_vars>>
       \/ Exit
    /\ UNCHANGED <<table_vars, url, page, flawed>>
-----------------------------------------------------------------------------
(***************************************************************************)
(* What a statement may come to.  Good: it is executed.  Fails: nothing is *)
(* stored, and the connection may be gone, after which every statement     *)
(* fails.  InDoubt: it is stored, but the answer to the commit is lost.    *)
(* The methods catch what libpqxx throws, all but get_word_url_exist.      *)
(***************************************************************************)
Flaw == flawed' = [flawed EXCEPT ![url] = TRUE]

Good == connection = "open" /\ UNCHANGED <<connection, flawed>>
InDoubt == connection = "open" /\ connection' = "broken" /\ Flaw
Stored == Good \/ InDoubt
Fails == connection' \in {connection, "broken"} /\ Flaw

(* insert into ... (url) values ($1): an id is drawn first, and is lost if *)
(* the row is then refused because it exists, or is too long.              *)
Drawn(seq) == IF seq < SerialSize THEN seq + 1 ELSE seq
MayDraw(seq) == {seq, Drawn(seq)}

insert_again(ids, seq, key, long) ==
    IF ~ long /\ seq < SerialSize THEN [ids EXCEPT ![key] = seq + 1] ELSE ids

insert(ids, seq, key, long) ==
    IF ids[key] = 0 /\ ~ long /\ seq < SerialSize
    THEN [ids EXCEPT ![key] = seq + 1] ELSE ids

add_new_url ==
    /\ place = "add_url"
    /\ place' = "url_id"
    /\ \/ /\ Stored
          /\ documents' = insert(documents, documents_seq, url, url \in LongUrl)
          /\ documents_seq' \in IF url \in LongUrl THEN MayDraw(documents_seq)
                                                  ELSE {Drawn(documents_seq)}
       \/ Fails /\ UNCHANGED documents /\ documents_seq' \in MayDraw(documents_seq)
    /\ UNCHANGED <<words, words_seq, urls_words, url, local_vars, page>>

id_unchecked ==
    /\ place = "url_id"
    /\ \/ Good /\ url_id' = documents[url]
       \/ Fails /\ url_id' = -1
    /\ place' = "add_word"
    /\ UNCHANGED <<table_vars, url, todo, word_id, page>>

(* -1, for a failure or no row, ends the indexing of the address.          *)
get_url_id ==
    /\ place = "url_id"
    /\ \/ /\ Good /\ documents[url] # 0
          /\ url_id' = documents[url]
          /\ place' = "add_word"
          /\ UNCHANGED <<todo, word_id>>
       \/ Good /\ documents[url] = 0 /\ Return
       \/ Fails /\ Return
    /\ UNCHANGED <<table_vars, url, page>>

add_new_word ==
    /\ place = "add_word"
    /\ place' = "word_id"
    /\ \/ /\ Stored
          /\ words' = insert(words, words_seq, word, word \in LongWord)
          /\ words_seq' \in IF word \in LongWord THEN MayDraw(words_seq)
                                                 ELSE {Drawn(words_seq)}
       \/ Fails /\ UNCHANGED words /\ words_seq' \in MayDraw(words_seq)
    /\ UNCHANGED <<documents, documents_seq, urls_words, url, local_vars, page>>

(* The loop goes on with the next word, or is over.                        *)
next_word ==
    \/ todo = {word} /\ Return
    \/ /\ todo # {word}
       /\ place' = "add_word"
       /\ todo' = todo \ {word}
       /\ word_id' = 0
       /\ UNCHANGED url_id

skip_nothing ==
    /\ place = "word_id"
    /\ \/ Good /\ words[word] # 0 /\ word_id' = words[word] /\ place' = "exist"
       \/ Good /\ words[word] = 0 /\ place' = "add_word" /\ UNCHANGED word_id
       \/ Fails /\ place' = "add_word" /\ UNCHANGED word_id
    /\ UNCHANGED <<table_vars, url, todo, url_id, page>>

(* -1, for a failure or no row, skips the word.                            *)
get_word_id ==
    /\ place = "word_id"
    /\ \/ /\ Good /\ words[word] # 0
          /\ word_id' = words[word]
          /\ place' = "exist"
          /\ UNCHANGED <<todo, url_id>>
       \/ Good /\ words[word] = 0 /\ next_word
       \/ Fails /\ next_word
    /\ UNCHANGED <<table_vars, url, page>>

insert_always ==
    /\ place = "exist"
    /\ \/ Good /\ place' = "insert" /\ UNCHANGED local_vars
       \/ Flaw /\ Exit
    /\ UNCHANGED <<table_vars, url, page>>

(* The one statement outside a try block: a failure ends the process.      *)
get_word_url_exist ==
    /\ place = "exist"
    /\ \/ /\ Good
          /\ place' = IF urls_words[<<word_id, url_id>>] = 0 THEN "insert" ELSE "update"
          /\ UNCHANGED local_vars
       \/ Flaw /\ Exit
    /\ UNCHANGED <<table_vars, url, page>>

id_swapped ==
    /\ place \in {"insert", "update"}
    /\ next_word
    /\ \/ Stored /\ urls_words' = [urls_words EXCEPT ![<<url_id, word_id>>] = page[url][word]]
       \/ Fails /\ UNCHANGED urls_words
    /\ UNCHANGED <<documents, documents_seq, words, words_seq, url, page>>

(* The primary key refuses a pair that exists, update leaves others alone. *)
new_word_url_pair ==
    LET pair == <<word_id, url_id>>
        quantity == page[url][word]
    IN
    /\ place \in {"insert", "update"}
    /\ next_word
    /\ \/ /\ Stored
          /\ urls_words' = IF (place = "insert") = (urls_words[pair] = 0)
                           THEN [urls_words EXCEPT ![pair] = quantity] ELSE urls_words
       \/ Fails /\ UNCHANGED urls_words
    /\ UNCHANGED <<documents, documents_seq, words, words_seq, url, page>>
-----------------------------------------------------------------------------
(* A work thread takes data_base_mutex with the words of a page.  Without  *)
(* words nothing is done.                                                  *)
add_url_words_to_database(u, words_map) ==
    /\ place = "free"
    /\ page' = [page EXCEPT ![u] = words_map]
    /\ flawed' = [flawed EXCEPT ![u] = FALSE]
    /\ \/ WordsOf(words_map) = {} /\ UNCHANGED <<place, url, todo>>
       \/ /\ WordsOf(words_map) # {}
          /\ place' = "add_url"
          /\ url' = u
          /\ todo' = WordsOf(words_map)
    /\ UNCHANGED <<connection, table_vars, url_id, word_id>>

(* The process ends, by itself between two pages, or it is stopped.        *)
End ==
    /\ place # "ended"
    /\ Exit
    /\ IF place \in Indexing THEN Flaw ELSE UNCHANGED flawed
    /\ UNCHANGED <<table_vars, url, page>>

(* The next run of the spider: a new process, the same tables.             *)
Restart ==
    /\ place = "ended"
    /\ place' = "connect"
    /\ UNCHANGED <<connection, table_vars, url, local_vars, page, flawed>>

start_db == connect_db \/ create_tables \/ create_templates

Statement ==
    \/ add_new_url \/ get_url_id \/ add_new_word
    \/ get_word_id \/ get_word_url_exist \/ new_word_url_pair

Next ==
    \/ start_db
    \/ Statement
    \/ \E u \in Url, p \in Pages : add_url_words_to_database(u, p)
    \/ End
    \/ Restart

Spec == Init /\ [][Next]_vars

(* Every statement returns, with an answer or an error.                    *)
FairSpec == Spec /\ WF_vars(Statement)
-----------------------------------------------------------------------------
(* The quantity a search finds for a word at an address.                   *)
Quantity(u, w) ==
    IF documents[u] # 0 /\ words[w] # 0 THEN urls_words[<<words[w], documents[u]>>] ELSE 0

(* What the database refuses to take: a string that is too long, or a new  *)
(* row when the ids have run out.                                          *)
Refused(ids, seq, long, key) == ids[key] = 0 /\ (key \in long \/ seq = SerialSize)

(***************************************************************************)
(* An address whose last indexing met no failure has every word of its     *)
(* page with its quantity (spider.cpp:347-364), whatever runs, crashes and *)
(* other pages came before or after; only what the database refuses is     *)
(* missing.  A page is stored by some 4 * n + 2 transactions.              *)
(***************************************************************************)
CleanPageIsComplete ==
    \A u \in Url :
        \/ flawed[u]
        \/ place \in Indexing /\ u = url
        \/ WordsOf(page[u]) = {}
        \/ Refused(documents, documents_seq, LongUrl, u)
        \/ \A w \in WordsOf(page[u]) :
              \/ Quantity(u, w) = page[u][w]
              \/ Refused(words, words_seq, LongWord, w)

(***************************************************************************)
(* A quantity changes only for the address being indexed and a word of its *)
(* page, and becomes the number of times it occurs there: ids are never    *)
(* mixed up, and the words that a page has lost keep their old numbers     *)
(* (spider.cpp:341-364 carries the ids from one transaction to another).   *)
(***************************************************************************)
RowsAreOfTheirPage ==
    [][\A u \in Url, w \in Word :
          Quantity(u, w)' # Quantity(u, w) =>
              /\ place \in Indexing
              /\ u = url
              /\ page[u][w] > 0
              /\ Quantity(u, w)' = page[u][w]]_vars

(***************************************************************************)
(* To a search the writer is module Index: numbers appear and change one   *)
(* by one and none is taken back, through failures and restarts.           *)
(***************************************************************************)
quantities == [u \in Url |-> [w \in Word |-> Quantity(u, w)]]
Rows == {row \in {<<u, w, p[w]>> : u \in Url, w \in Word, p \in Pages} : row[3] > 0}

Abstract == INSTANCE Index WITH index <- quantities, Row <- Rows

ImplementsIndex == Abstract!Spec

(***************************************************************************)
(* The thread that holds data_base_mutex gives it back, or the process     *)
(* ends: a failing statement never makes the loop turn for ever.           *)
(***************************************************************************)
IndexingEnds == place \in Indexing ~> place \in {"free", "ended"}
=============================================================================
