---------------------------- MODULE IndexerProofs ---------------------------
(***************************************************************************)
(* What the spider stores, for any addresses, words, pages and any number  *)
(* of restarts.  The ids that add_url_words_to_database carries from one   *)
(* transaction to the next are those of its address and word as long as    *)
(* ids are never given twice, and a new id has no rows yet: Ids.           *)
(***************************************************************************)
EXTENDS Indexer, TLAPS

WithUrlId == {"add_word", "word_id", "exist", "insert", "update"}
WithWordId == {"exist", "insert", "update"}

(* The ids of a table are distinct and no more than its sequence.          *)
Distinct(key, ids, seq) ==
    /\ \A k \in key : ids[k] =< seq
    /\ \A k, l \in key : ids[k] = ids[l] /\ ids[k] # 0 => k = l

Ids ==
    /\ Distinct(Url, documents, documents_seq)
    /\ Distinct(Word, words, words_seq)
    /\ \A i, j \in Id : urls_words[<<i, j>>] # 0 => i =< words_seq /\ j =< documents_seq

(* The locals of add_url_words_to_database.                                *)
Locals ==
    /\ place \in Indexing => todo # {} /\ todo \subseteq WordsOf(page[url])
    /\ place \in WithUrlId => url_id = documents[url] /\ url_id # 0
    /\ place \in WithWordId => word_id = words[word] /\ word_id # 0
    /\ place \in {"insert", "update"} => ((place = "insert") = (urls_words[<<word_id, url_id>>] = 0))
    /\ \A u \in Url : page[u] \in Pages \cup {NoPage}

IInv == TypeOK /\ Ids /\ Locals

LEMMA IdIsNat == Id \subseteq Nat \ {0} /\ SerialSize \in Nat \ {0} /\ SerialSize \in Id
  BY IndexerAssumption DEF Id

LEMMA WordIsToDo == ASSUME todo # {} PROVE word \in todo
  BY DEF word

(* The value of a new row, or what is there.                               *)
LEMMA InsertFact ==
    ASSUME NEW key, NEW ids \in [key -> 0 .. SerialSize], NEW seq \in 0 .. SerialSize,
           NEW k \in key, NEW Long, Distinct(key, ids, seq),
           NEW next, next = seq \/ next = Drawn(seq),
           NEW new, \/ new = ids
                    \/ new = insert(ids, seq, k, k \in Long) /\ (k \notin Long => next = Drawn(seq))
    PROVE  /\ new \in [key -> 0 .. SerialSize]
           /\ next \in 0 .. SerialSize /\ seq =< next
           /\ Distinct(key, new, next)
           /\ \A l \in key : new[l] = ids[l] \/ (l = k /\ ids[k] = 0 /\ new[k] > seq)
  <1>1. seq \in Nat /\ SerialSize \in Nat
    BY IdIsNat
  <1>2. next \in 0 .. SerialSize /\ seq =< next
    BY <1>1 DEF Drawn
  <1>3. CASE new = ids
    BY <1>1, <1>2, <1>3 DEF Distinct
  <1>4. CASE new # ids
    <2>1. /\ new = [ids EXCEPT ![k] = seq + 1] /\ ids[k] = 0
          /\ seq < SerialSize /\ next = seq + 1
      BY <1>4 DEF insert, Drawn
    <2> QED
      BY <1>1, <1>2, <2>1 DEF Distinct
  <1> QED
    BY <1>3, <1>4

(* What a step may do to the numbers a search sees.                        *)
SameQuantities == \A u \in Url, w \in Word : Quantity(u, w)' = Quantity(u, w)

OneQuantity ==
    /\ place \in Indexing /\ word \in WordsOf(page[url])
    /\ \A u \in Url, w \in Word :
          Quantity(u, w)' = IF u = url /\ w = word THEN page[url][word] ELSE Quantity(u, w)

(* A page has a number for each word.                                      *)
LEMMA PageIsFunction == Pages \cup {NoPage} \subseteq [Word -> Nat]
  BY IndexerAssumption DEF NoPage

LEMMA InitIInv == Init => IInv
  <1> SUFFICES ASSUME Init PROVE IInv
    OBVIOUS
  <1>1. TypeOK
    BY IdIsNat, PageIsFunction, SMTT(30) DEF Init, TypeOK, Place, Starting
  <1>2. Ids
    BY IdIsNat DEF Init, Ids, Distinct, Id
  <1>3. Locals
    BY DEF Init, Locals, Indexing, WithUrlId, WithWordId
  <1> QED
    BY <1>1, <1>2, <1>3 DEF IInv

(* Steps that leave the tables and the locals alone, or end the loop.      *)
LEMMA QuietStep ==
    ASSUME IInv, UNCHANGED <<table_vars, url, page>>,
           Exit \/ Return \/ (UNCHANGED local_vars /\ place' \in Place \ Indexing),
           connection' \in {"none", "open", "broken"},
           flawed' \in [Url -> BOOLEAN]
    PROVE  IInv' /\ SameQuantities
  <1>1. /\ place' \in Place \ Indexing
        /\ place' \notin WithUrlId /\ place' \notin WithWordId /\ place' \notin {"insert", "update"}
    BY DEF Exit, Return, Place, Indexing, Starting, WithUrlId, WithWordId
  <1>2. TypeOK'
    BY <1>1, IdIsNat DEF IInv, TypeOK, Exit, Return, table_vars, local_vars
  <1>3. Ids'
    BY DEF IInv, Ids, Distinct, table_vars, Id
  <1>4. Locals'
    BY <1>1 DEF IInv, Locals
  <1>5. SameQuantities
    BY DEF SameQuantities, Quantity, table_vars
  <1> QED
    BY <1>2, <1>3, <1>4, <1>5 DEF IInv

(* How a statement comes out keeps the types of connection and flawed.     *)
LEMMA OutcomeTypes ==
    ASSUME TypeOK, Good \/ InDoubt \/ Fails \/ Stored
    PROVE  connection' \in {"none", "open", "broken"} /\ flawed' \in [Url -> BOOLEAN]
  BY DEF TypeOK, Good, InDoubt, Fails, Stored, Flaw

LEMMA NewUrlStep ==
    ASSUME IInv, add_new_url
    PROVE  IInv' /\ SameQuantities
  <1>2. /\ place = "add_url" /\ place' = "url_id" /\ url \in Url
        /\ UNCHANGED <<words, words_seq, urls_words, url, todo, url_id, word_id, page>>
        /\ documents \in [Url -> 0 .. SerialSize] /\ documents_seq \in 0 .. SerialSize
        /\ Distinct(Url, documents, documents_seq)
    BY DEF IInv, TypeOK, Ids, add_new_url, local_vars
  <1>3. /\ \/ documents' = documents
           \/ /\ documents' = insert(documents, documents_seq, url, url \in LongUrl)
              /\ url \notin LongUrl => documents_seq' = Drawn(documents_seq)
        /\ documents_seq' = documents_seq \/ documents_seq' = Drawn(documents_seq)
        /\ connection' \in {"none", "open", "broken"} /\ flawed' \in [Url -> BOOLEAN]
    BY OutcomeTypes DEF IInv, add_new_url, MayDraw
  <1>4. /\ documents' \in [Url -> 0 .. SerialSize]
        /\ documents_seq' \in 0 .. SerialSize /\ documents_seq =< documents_seq'
        /\ Distinct(Url, documents', documents_seq')
        /\ \A u \in Url : \/ documents'[u] = documents[u]
                          \/ u = url /\ documents[url] = 0 /\ documents'[url] > documents_seq
    BY <1>2, <1>3, InsertFact
  <1>5. TypeOK'
    BY <1>2, <1>3, <1>4, SMTT(30) DEF IInv, TypeOK, Place, Indexing
  <1>6. Ids'
    BY <1>2, <1>4, IdIsNat DEF IInv, Ids, TypeOK, Id, Distinct
  <1>7. Locals'
    BY <1>2 DEF IInv, Locals, Indexing, WithUrlId, WithWordId, word
  <1>8. SameQuantities
    <2> SUFFICES ASSUME NEW u \in Url, NEW w \in Word
                 PROVE  Quantity(u, w)' = Quantity(u, w)
      BY DEF SameQuantities
    <2>1. CASE documents'[u] = documents[u]
      BY <1>2, <2>1 DEF Quantity
    <2>2. CASE documents[u] = 0 /\ documents'[u] > documents_seq
      <3>1. Quantity(u, w) = 0
        BY <2>2 DEF Quantity
      <3>2. words[w] # 0 => urls_words[<<words[w], documents'[u]>>] = 0
        BY <1>2, <1>4, <2>2, IdIsNat DEF IInv, Ids, TypeOK, Id
      <3> QED
        BY <1>2, <3>1, <3>2 DEF Quantity
    <2> QED
      BY <1>4, <2>1, <2>2
  <1> QED
    BY <1>5, <1>6, <1>7, <1>8 DEF IInv

LEMMA UrlIdStep ==
    ASSUME IInv, get_url_id
    PROVE  IInv' /\ SameQuantities
  <1>1. /\ place = "url_id" /\ UNCHANGED <<table_vars, url, page>>
        /\ connection' \in {"none", "open", "broken"} /\ flawed' \in [Url -> BOOLEAN]
    BY OutcomeTypes DEF IInv, get_url_id
  <1>2. CASE Return
    BY <1>1, <1>2, QuietStep
  <1>3. CASE /\ documents[url] # 0 /\ url_id' = documents[url]
             /\ place' = "add_word" /\ UNCHANGED <<todo, word_id>>
    <2>1. TypeOK'
      BY <1>1, <1>3 DEF IInv, TypeOK, Place, Indexing, table_vars
    <2>2. Ids'
      BY <1>1 DEF IInv, Ids, Distinct, table_vars, Id
    <2>3. Locals'
      BY <1>1, <1>3 DEF IInv, Locals, Indexing, WithUrlId, WithWordId, table_vars, word
    <2>4. SameQuantities
      BY <1>1 DEF SameQuantities, Quantity, table_vars
    <2> QED
      BY <2>1, <2>2, <2>3, <2>4 DEF IInv
  <1> QED
    BY <1>2, <1>3 DEF get_url_id

LEMMA NewWordStep ==
    ASSUME IInv, add_new_word
    PROVE  IInv' /\ SameQuantities
  <1>1. word \in Word
    BY WordIsToDo DEF IInv, Locals, add_new_word, Indexing, TypeOK
  <1>2. /\ place = "add_word" /\ place' = "word_id"
        /\ UNCHANGED <<documents, documents_seq, urls_words, url, todo, url_id, word_id, page>>
        /\ words \in [Word -> 0 .. SerialSize] /\ words_seq \in 0 .. SerialSize
        /\ Distinct(Word, words, words_seq)
    BY DEF IInv, TypeOK, Ids, add_new_word, local_vars
  <1>3. /\ \/ words' = words
           \/ /\ words' = insert(words, words_seq, word, word \in LongWord)
              /\ word \notin LongWord => words_seq' = Drawn(words_seq)
        /\ words_seq' = words_seq \/ words_seq' = Drawn(words_seq)
        /\ connection' \in {"none", "open", "broken"} /\ flawed' \in [Url -> BOOLEAN]
    BY OutcomeTypes DEF IInv, add_new_word, MayDraw
  <1>4. /\ words' \in [Word -> 0 .. SerialSize]
        /\ words_seq' \in 0 .. SerialSize /\ words_seq =< words_seq'
        /\ Distinct(Word, words', words_seq')
        /\ \A w \in Word : \/ words'[w] = words[w]
                           \/ w = word /\ words[word] = 0 /\ words'[word] > words_seq
    BY <1>1, <1>2, <1>3, InsertFact
  <1>5. TypeOK'
    BY <1>2, <1>3, <1>4, SMTT(30) DEF IInv, TypeOK, Place, Indexing
  <1>6. Ids'
    BY <1>2, <1>4, IdIsNat DEF IInv, Ids, TypeOK, Id, Distinct
  <1>7. Locals'
    BY <1>2 DEF IInv, Locals, Indexing, WithUrlId, WithWordId, word
  <1>8. SameQuantities
    <2> SUFFICES ASSUME NEW u \in Url, NEW w \in Word
                 PROVE  Quantity(u, w)' = Quantity(u, w)
      BY DEF SameQuantities
    <2>1. CASE words'[w] = words[w]
      BY <1>2, <2>1 DEF Quantity
    <2>2. CASE words[w] = 0 /\ words'[w] > words_seq
      <3>1. Quantity(u, w) = 0
        BY <2>2 DEF Quantity
      <3>2. documents[u] # 0 => urls_words[<<words'[w], documents[u]>>] = 0
        BY <1>2, <1>4, <2>2, IdIsNat DEF IInv, Ids, TypeOK, Id
      <3> QED
        BY <1>2, <3>1, <3>2 DEF Quantity
    <2> QED
      BY <1>4, <2>1, <2>2
  <1> QED
    BY <1>5, <1>6, <1>7, <1>8 DEF IInv

(* The loop goes on or ends.                                               *)
LEMMA NextWordKeeps ==
    ASSUME IInv, place \in WithUrlId, next_word, UNCHANGED <<documents, url, page>>
    PROVE  /\ Locals' /\ place' \in Place
           /\ todo' \in SUBSET Word /\ url_id' \in 0 .. SerialSize /\ word_id' \in 0 .. SerialSize
  <1>1. place \in Indexing
    BY DEF WithUrlId, Indexing
  <1>2. CASE Return
    BY <1>2, IdIsNat DEF IInv, Locals, Return, TypeOK, Place, Indexing, WithUrlId, WithWordId
  <1>3. CASE /\ todo # {word} /\ place' = "add_word" /\ todo' = todo \ {word}
             /\ word_id' = 0 /\ UNCHANGED url_id
    <2>1. todo' # {} /\ todo' \subseteq WordsOf(page[url])'
      BY <1>1, <1>3, WordIsToDo DEF IInv, Locals, WordsOf
    <2>2. Locals'
      BY <1>3, <2>1 DEF IInv, Locals, WithUrlId, WithWordId, Indexing
    <2> QED
      BY <1>3, <2>2, IdIsNat DEF IInv, TypeOK, Place, Indexing
  <1> QED
    BY <1>2, <1>3 DEF next_word

LEMMA WordIdStep ==
    ASSUME IInv, get_word_id
    PROVE  IInv' /\ SameQuantities
  <1>1. /\ place = "word_id" /\ place \in WithUrlId /\ UNCHANGED <<table_vars, url, page>>
        /\ connection' \in {"none", "open", "broken"} /\ flawed' \in [Url -> BOOLEAN]
    BY OutcomeTypes DEF IInv, get_word_id, WithUrlId
  <1>2. Ids' /\ SameQuantities
    BY <1>1 DEF IInv, Ids, Distinct, table_vars, Id, SameQuantities, Quantity
  <1>3. CASE next_word
    <2>1. TypeOK' /\ Locals'
      BY <1>1, <1>3, NextWordKeeps DEF IInv, TypeOK, table_vars
    <2> QED
      BY <1>2, <2>1 DEF IInv
  <1>4. CASE words[word] # 0 /\ word_id' = words[word] /\ place' = "exist" /\ UNCHANGED <<todo, url_id>>
    <2>1. word \in Word
      BY <1>1, WordIsToDo DEF IInv, Locals, TypeOK, Indexing
    <2>2. TypeOK'
      BY <1>1, <1>4, <2>1 DEF IInv, TypeOK, Place, Indexing, table_vars
    <2>3. Locals'
      BY <1>1, <1>4 DEF IInv, Locals, Indexing, WithUrlId, WithWordId, table_vars, word
    <2> QED
      BY <1>2, <2>2, <2>3 DEF IInv
  <1> QED
    BY <1>3, <1>4 DEF get_word_id

LEMMA ExistStep ==
    ASSUME IInv, get_word_url_exist
    PROVE  IInv' /\ SameQuantities
  <1>1. /\ place = "exist" /\ UNCHANGED <<table_vars, url, page>>
        /\ flawed' \in [Url -> BOOLEAN]
    BY OutcomeTypes DEF IInv, get_word_url_exist, Flaw, TypeOK
  <1>2. CASE Exit
    <2>1. connection' \in {"none", "open", "broken"}
      BY <1>2 DEF Exit
    <2> QED
      BY <1>1, <1>2, <2>1, QuietStep
  <1>3. CASE /\ place' = IF urls_words[<<word_id, url_id>>] = 0 THEN "insert" ELSE "update"
             /\ Good /\ UNCHANGED local_vars
    <2>1. Ids' /\ SameQuantities
      BY <1>1 DEF IInv, Ids, Distinct, table_vars, Id, SameQuantities, Quantity
    <2>2. TypeOK'
      BY <1>1, <1>3 DEF IInv, TypeOK, Place, Indexing, table_vars, local_vars, Good
    <2>3. Locals'
      BY <1>1, <1>3 DEF IInv, Locals, Indexing, WithUrlId, WithWordId, table_vars, local_vars, word
    <2> QED
      BY <2>1, <2>2, <2>3 DEF IInv
  <1> QED
    BY <1>2, <1>3 DEF get_word_url_exist

(* The one statement that changes a number.                                *)
LEMMA PairStep ==
    ASSUME IInv, new_word_url_pair
    PROVE  IInv' /\ (SameQuantities \/ OneQuantity)
  <1> DEFINE pair == <<word_id, url_id>>
             quantity == page[url][word]
             new == [urls_words EXCEPT ![pair] = quantity]
  <1>1. /\ place \in {"insert", "update"} /\ next_word
        /\ UNCHANGED <<documents, documents_seq, words, words_seq, url, page>>
        /\ urls_words' = urls_words \/ urls_words' = new
        /\ connection' \in {"none", "open", "broken"} /\ flawed' \in [Url -> BOOLEAN]
    BY OutcomeTypes DEF IInv, new_word_url_pair
  <1>2. place \in WithUrlId /\ place \in WithWordId /\ place \in Indexing
    BY <1>1 DEF WithUrlId, WithWordId, Indexing
  <1>3. /\ word \in WordsOf(page[url]) /\ word \in Word /\ url \in Url
        /\ url_id = documents[url] /\ url_id # 0 /\ word_id = words[word] /\ word_id # 0
    BY <1>2, WordIsToDo DEF IInv, Locals, TypeOK, WordsOf
  <1>4. word_id \in Id /\ url_id \in Id /\ quantity \in Nat /\ quantity > 0
    <2>1. page[url] \in [Word -> Nat]
      BY <1>3, PageIsFunction DEF IInv, Locals
    <2> QED
      BY <1>3, <2>1, IdIsNat DEF IInv, TypeOK, Id, WordsOf
  <1>5. word_id =< words_seq /\ url_id =< documents_seq
    BY <1>3 DEF IInv, Ids, Distinct
  <1>6. urls_words' \in [Id \X Id -> Nat]
    BY <1>1, <1>4 DEF IInv, TypeOK
  <1>7. TypeOK' /\ Locals'
    BY <1>1, <1>2, <1>6, NextWordKeeps DEF IInv, TypeOK
  <1>8. \A i, j \in Id : urls_words'[<<i, j>>] =
             IF urls_words' = new /\ i = word_id /\ j = url_id THEN quantity ELSE urls_words[<<i, j>>]
    BY <1>1, <1>4 DEF IInv, TypeOK
  <1>9. Ids'
    BY <1>1, <1>5, <1>8 DEF IInv, Ids, Distinct, Id
  <1>10. CASE urls_words' = urls_words
    <2>1. SameQuantities
      BY <1>1, <1>10 DEF SameQuantities, Quantity
    <2> QED
      BY <1>7, <1>9, <2>1 DEF IInv
  <1>11. CASE urls_words' = new
    <2>1. ASSUME NEW u \in Url, NEW w \in Word
          PROVE  Quantity(u, w)' = IF u = url /\ w = word THEN quantity ELSE Quantity(u, w)
      <3>1. CASE documents[u] # 0 /\ words[w] # 0
        <4>1. documents[u] \in Id /\ words[w] \in Id
          BY <3>1, IdIsNat DEF IInv, TypeOK, Id
        <4>2. documents[u] = url_id <=> u = url
          BY <1>3, <3>1 DEF IInv, Ids, Distinct
        <4>3. words[w] = word_id <=> w = word
          BY <1>3, <3>1 DEF IInv, Ids, Distinct
        <4> QED
          BY <1>1, <1>8, <1>11, <3>1, <4>1, <4>2, <4>3 DEF Quantity
      <3>2. CASE documents[u] = 0 \/ words[w] = 0
        BY <1>1, <1>3, <3>2 DEF Quantity
      <3> QED
        BY <3>1, <3>2
    <2> QED
      BY <1>2, <1>3, <1>7, <1>9, <2>1 DEF IInv, OneQuantity
  <1> QED
    BY <1>1, <1>10, <1>11

LEMMA BeginStep ==
    ASSUME IInv, NEW u \in Url, NEW p \in Pages, add_url_words_to_database(u, p)
    PROVE  IInv' /\ SameQuantities
  <1>1. /\ place = "free" /\ UNCHANGED <<connection, table_vars, url_id, word_id>>
        /\ page' = [page EXCEPT ![u] = p] /\ flawed' = [flawed EXCEPT ![u] = FALSE]
    BY DEF add_url_words_to_database
  <1>2. Ids' /\ SameQuantities
    BY <1>1 DEF IInv, Ids, Distinct, table_vars, Id, SameQuantities, Quantity
  <1>3. p \in [Word -> Nat]
    BY PageIsFunction
  <1>4. TypeOK'
    BY <1>1, <1>3 DEF IInv, TypeOK, table_vars, add_url_words_to_database, Place, Indexing, WordsOf
  <1>5. /\ place' = place \/ (place' = "add_url" /\ url' = u /\ todo' = WordsOf(p) /\ WordsOf(p) # {})
        /\ page'[u] = p
    BY <1>1 DEF add_url_words_to_database, IInv, TypeOK
  <1>6. Locals'
    BY <1>1, <1>5 DEF IInv, Locals, Indexing, WithUrlId, WithWordId, TypeOK
  <1> QED
    BY <1>2, <1>4, <1>6 DEF IInv

(* Connecting, ending and starting again.                                  *)
LEMMA ProcessStep ==
    ASSUME IInv, start_db \/ End \/ Restart
    PROVE  IInv' /\ SameQuantities
  <1>1. /\ UNCHANGED <<table_vars, url, page>>
        /\ connection' \in {"none", "open", "broken"}
        /\ flawed' \in [Url -> BOOLEAN]
    BY DEF IInv, TypeOK, start_db, connect_db, create_tables, create_templates, End, Restart, Exit, Flaw
  <1>2. Exit \/ (UNCHANGED local_vars /\ place' \in Place \ Indexing)
    BY DEF start_db, connect_db, create_tables, create_templates, End, Restart, Place, Starting, Indexing
  <1> QED
    BY <1>1, <1>2, QuietStep

(* A step changes one number a search sees, or none, and keeps the ids.    *)
LEMMA NextIInv == IInv /\ [Next]_vars => IInv' /\ (SameQuantities \/ OneQuantity)
  <1> SUFFICES ASSUME IInv, [Next]_vars PROVE IInv' /\ (SameQuantities \/ OneQuantity)
    OBVIOUS
  <1>1. CASE UNCHANGED vars
    <2>1. UNCHANGED <<place, connection, table_vars, url, todo, url_id, word_id, page, flawed>>
      BY <1>1 DEF vars, local_vars
    <2>2. TypeOK' /\ Ids' /\ SameQuantities
      BY <2>1 DEF IInv, TypeOK, Ids, Distinct, table_vars, Id, SameQuantities, Quantity
    <2>3. Locals'
      BY <2>1 DEF IInv, Locals, table_vars, word
    <2> QED
      BY <2>2, <2>3 DEF IInv
  <1>2. CASE Next
    BY <1>2, NewUrlStep, UrlIdStep, NewWordStep, WordIdStep, ExistStep, PairStep, BeginStep, ProcessStep
       DEF Next, Statement
  <1> QED
    BY <1>1, <1>2

THEOREM Invariance == Spec => []IInv
  BY InitIInv, NextIInv, PTL DEF Spec

(* Types, through every failure, end and restart (data_base.cpp).          *)
THEOREM TypeTheorem == Spec => []TypeOK
  <1>1. IInv => TypeOK
    BY DEF IInv
  <1> QED
    BY <1>1, Invariance, PTL

(* A quantity changes only for a word of the page being indexed, and       *)
(* becomes the number of times it occurs there (spider.cpp:341-364).       *)
THEOREM RowsTheorem == Spec => RowsAreOfTheirPage
  <1> DEFINE Row == \A u \in Url, w \in Word :
                        Quantity(u, w)' # Quantity(u, w) =>
                            /\ place \in Indexing
                            /\ u = url
                            /\ page[u][w] > 0
                            /\ Quantity(u, w)' = page[u][w]
  <1>1. IInv /\ [Next]_vars => Row
    <2> SUFFICES ASSUME IInv, [Next]_vars PROVE Row
      OBVIOUS
    <2>1. CASE SameQuantities
      BY <2>1 DEF SameQuantities
    <2>2. CASE OneQuantity
      BY <2>2 DEF OneQuantity, WordsOf
    <2> QED
      BY <2>1, <2>2, NextIInv
  <1>2. IInv /\ [Next]_vars => [Row]_vars
    BY <1>1
  <1> HIDE DEF Row
  <1>3. Spec => [][Row]_vars
    BY <1>2, Invariance, PTL DEF Spec
  <1> QED
    BY <1>3 DEF Row, RowsAreOfTheirPage

(* The writer implements Index: what a search may see changes one number   *)
(* at a time (data_base.cpp:302-335).                                      *)
THEOREM RefinementTheorem == Spec => ImplementsIndex
  <1>1. Init => Abstract!Init
    BY DEF Init, Abstract!Init, Quantity, quantities
  <1>2. IInv /\ [Next]_vars => [Abstract!Next]_quantities
    <2> SUFFICES ASSUME IInv, [Next]_vars PROVE Abstract!Next \/ UNCHANGED quantities
      OBVIOUS
    <2>1. CASE SameQuantities
      BY <2>1 DEF SameQuantities, quantities
    <2>2. CASE OneQuantity
      <3>1. /\ url \in Url /\ word \in Word /\ page[url] \in Pages
            /\ page[url][word] > 0
        BY <2>2, WordIsToDo DEF OneQuantity, IInv, TypeOK, Locals, WordsOf, NoPage
      <3>2. <<url, word, page[url][word]>> \in Rows
        BY <3>1 DEF Rows
      <3>3. quantities' = [quantities EXCEPT ![url][word] = page[url][word]]
        BY <2>2, <3>1 DEF OneQuantity, quantities
      <3>4. Abstract!Store(url, word, page[url][word])
        BY <3>3 DEF Abstract!Store
      <3> QED
        BY <3>2, <3>4 DEF Abstract!Next
    <2> QED
      BY <2>1, <2>2, NextIInv
  <1> QED
    BY <1>1, <1>2, Invariance, PTL DEF Spec, ImplementsIndex, Abstract!Spec
-----------------------------------------------------------------------------
(***************************************************************************)
(* That a clean page is complete holds only when its indexing is over.     *)
(* What holds on the way: the words the loop has left behind are done, and *)
(* a row that an insertion without a failure has not made is refused.      *)
(***************************************************************************)
UrlRefused(u) == Refused(documents, documents_seq, LongUrl, u)
WordRefused(w) == Refused(words, words_seq, LongWord, w)
Done(u, w) == Quantity(u, w) = page[u][w] \/ WordRefused(w)

Complete(u) ==
    \/ flawed[u]
    \/ WordsOf(page[u]) = {}
    \/ UrlRefused(u)
    \/ \A w \in WordsOf(page[u]) : Done(u, w)

OnTheWay ==
    /\ flawed[url] \/ \A w \in WordsOf(page[url]) \ todo : Done(url, w)
    /\ place = "url_id" => flawed[url] \/ documents[url] # 0 \/ UrlRefused(url)
    /\ place = "word_id" => flawed[url] \/ words[word] # 0 \/ WordRefused(word)

CInv ==
    /\ \A u \in Url : (place \in Indexing /\ u = url) \/ Complete(u)
    /\ place \in Indexing => OnTheWay

(* What is refused stays so.                                               *)
LEMMA InsertRefused ==
    ASSUME NEW key, NEW ids \in [key -> 0 .. SerialSize], NEW seq \in 0 .. SerialSize,
           NEW k \in key, NEW Long,
           NEW next, next = seq \/ next = Drawn(seq),
           NEW new, new = ids \/ new = insert(ids, seq, k, k \in Long)
    PROVE  /\ \A l \in key : Refused(ids, seq, Long, l) => Refused(new, next, Long, l)
           /\ new = insert(ids, seq, k, k \in Long) /\ (k \notin Long => next = Drawn(seq))
                => new[k] # 0 \/ Refused(new, next, Long, k)
  BY IdIsNat DEF insert, Drawn, Refused

LEMMA RefusedKept ==
    ASSUME IInv, [Next]_vars
    PROVE  /\ \A u \in Url : UrlRefused(u) => UrlRefused(u)'
           /\ \A w \in Word : WordRefused(w) => WordRefused(w)'
  <1>1. CASE add_new_url
    <2>1. /\ UNCHANGED <<words, words_seq>> /\ url \in Url
          /\ documents \in [Url -> 0 .. SerialSize] /\ documents_seq \in 0 .. SerialSize
          /\ documents' = documents \/ documents' = insert(documents, documents_seq, url, url \in LongUrl)
          /\ documents_seq' = documents_seq \/ documents_seq' = Drawn(documents_seq)
      BY <1>1 DEF IInv, TypeOK, add_new_url, MayDraw
    <2>2. \A u \in Url : UrlRefused(u) => UrlRefused(u)'
      BY <2>1, InsertRefused DEF UrlRefused
    <2> QED
      BY <2>1, <2>2 DEF WordRefused, Refused
  <1>2. CASE add_new_word
    <2>1. word \in Word
      BY <1>2, WordIsToDo DEF IInv, Locals, add_new_word, Indexing, TypeOK
    <2>2. /\ UNCHANGED <<documents, documents_seq>>
          /\ words \in [Word -> 0 .. SerialSize] /\ words_seq \in 0 .. SerialSize
          /\ words' = words \/ words' = insert(words, words_seq, word, word \in LongWord)
          /\ words_seq' = words_seq \/ words_seq' = Drawn(words_seq)
      BY <1>2 DEF IInv, TypeOK, add_new_word, MayDraw
    <2>3. \A w \in Word : WordRefused(w) => WordRefused(w)'
      BY <2>1, <2>2, InsertRefused DEF WordRefused
    <2> QED
      BY <2>2, <2>3 DEF UrlRefused, Refused
  <1>3. CASE UNCHANGED <<documents, documents_seq, words, words_seq>>
    BY <1>3 DEF UrlRefused, WordRefused, Refused
  <1>4. CASE UNCHANGED vars
    BY <1>4, <1>3 DEF vars, table_vars
  <1> QED
    BY <1>1, <1>2, <1>3, <1>4
       DEF Next, Statement, start_db, connect_db, create_tables, create_templates, get_url_id,
           get_word_id, get_word_url_exist, new_word_url_pair, add_url_words_to_database, End,
           Restart, table_vars

(* A word that is done stays so.                                           *)
LEMMA DoneKept ==
    ASSUME IInv, [Next]_vars, NEW u \in Url, NEW w \in Word, page'[u] = page[u], Done(u, w)
    PROVE  Done(u, w)'
  <1>1. CASE SameQuantities
    BY <1>1, RefusedKept DEF Done, SameQuantities
  <1>2. CASE OneQuantity
    BY <1>2, RefusedKept DEF Done, OneQuantity
  <1> QED
    BY <1>1, <1>2, NextIInv

LEMMA CompleteKept ==
    ASSUME IInv, [Next]_vars, NEW u \in Url, page'[u] = page[u], flawed[u] => flawed'[u], Complete(u)
    PROVE  Complete(u)'
  <1>1. \A w \in WordsOf(page[u]) : Done(u, w) => Done(u, w)'
    BY DoneKept DEF WordsOf
  <1>2. UrlRefused(u) => UrlRefused(u)'
    BY RefusedKept
  <1>3. WordsOf(page[u])' = WordsOf(page[u])
    BY DEF WordsOf
  <1> QED
    BY <1>1, <1>2, <1>3 DEF Complete

(* The addresses that are not being indexed.                               *)
LEMMA OthersKept ==
    ASSUME IInv, CInv, [Next]_vars, place \in Indexing, UNCHANGED <<url, page>>,
           flawed' = flawed \/ Flaw
    PROVE  /\ \A u \in Url \ {url} : Complete(u)'
           /\ \A w \in WordsOf(page[url]) : Done(url, w) => Done(url, w)'
           /\ flawed[url] => flawed'[url]
           /\ Flaw => flawed'[url]
           /\ WordsOf(page[url])' = WordsOf(page[url])
  <1>1. \A u \in Url : flawed[u] => flawed'[u]
    BY DEF IInv, TypeOK, Flaw
  <1>2. \A u \in Url \ {url} : Complete(u)'
    BY <1>1, CompleteKept DEF CInv
  <1>3. url \in Url
    BY DEF IInv, TypeOK
  <1>4. \A w \in WordsOf(page[url]) : Done(url, w) => Done(url, w)'
    BY <1>3, DoneKept DEF WordsOf
  <1>5. Flaw => flawed'[url]
    BY <1>3 DEF IInv, TypeOK, Flaw
  <1> QED
    BY <1>1, <1>2, <1>3, <1>4, <1>5 DEF WordsOf

(* The loop leaves a word behind.                                          *)
LEMMA LoopGoesOn ==
    ASSUME IInv, CInv, [Next]_vars, place \in Indexing, UNCHANGED <<url, page>>,
           flawed' = flawed \/ Flaw, next_word,
           \A w \in Word : w = word => flawed'[url] \/ Done(url, w)'
    PROVE  CInv'
  <1>1. \A w \in WordsOf(page[url]) \ (todo \ {word}) : flawed'[url] \/ Done(url, w)'
    <2> SUFFICES ASSUME NEW w \in WordsOf(page[url]) \ (todo \ {word})
                 PROVE  flawed'[url] \/ Done(url, w)'
      OBVIOUS
    <2>1. CASE w = word
      BY <2>1 DEF WordsOf
    <2>2. CASE w \notin todo
      BY <2>2, OthersKept DEF CInv, OnTheWay
    <2> QED
      BY <2>1, <2>2
  <1>2. CASE Return
    <2>1. todo = {word} => Complete(url)'
      BY <1>1, OthersKept DEF Complete
    <2>2. CASE todo # {word}
      BY <1>2, <2>2 DEF next_word, Return
    <2>3. CASE todo = {word}
      BY <1>2, <2>1, <2>3, OthersKept DEF CInv, Return, Indexing
    <2> QED
      BY <2>2, <2>3
  <1>3. CASE todo # {word} /\ place' = "add_word" /\ todo' = todo \ {word}
    <2>1. OnTheWay'
      BY <1>1, <1>3, OthersKept DEF OnTheWay
    <2> QED
      BY <1>3, <2>1, OthersKept DEF CInv, Indexing
  <1> QED
    BY <1>2, <1>3 DEF next_word

(* An insertion that met no failure leaves a row, or was refused.          *)
LEMMA NewUrlDone ==
    ASSUME IInv, CInv, [Next]_vars, add_new_url
    PROVE  CInv'
  <1>1. /\ place = "add_url" /\ place \in Indexing /\ place' = "url_id"
        /\ UNCHANGED <<todo, url, page>> /\ (flawed' = flawed \/ Flaw) /\ url \in Url
    BY DEF add_new_url, local_vars, Stored, Good, InDoubt, Fails, IInv, TypeOK, Indexing
  <1>2. flawed'[url] \/ documents'[url] # 0 \/ UrlRefused(url)'
    <2>1. CASE Flaw
      BY <1>1, <2>1, OthersKept
    <2>2. CASE ~ Flaw
      <3>1. /\ documents' = insert(documents, documents_seq, url, url \in LongUrl)
            /\ url \notin LongUrl => documents_seq' = Drawn(documents_seq)
            /\ documents_seq' = documents_seq \/ documents_seq' = Drawn(documents_seq)
            /\ documents \in [Url -> 0 .. SerialSize] /\ documents_seq \in 0 .. SerialSize
        BY <2>2 DEF add_new_url, Stored, InDoubt, Fails, MayDraw, IInv, TypeOK
      <3> QED
        BY <1>1, <3>1, InsertRefused DEF UrlRefused
    <2> QED
      BY <2>1, <2>2
  <1>3. flawed'[url] \/ \A w \in WordsOf(page[url]) \ todo : Done(url, w)'
    BY <1>1, OthersKept DEF CInv, OnTheWay
  <1>4. OnTheWay'
    BY <1>1, <1>2, <1>3, OthersKept DEF OnTheWay
  <1> QED
    BY <1>1, <1>4, OthersKept DEF CInv, Indexing

LEMMA NewWordDone ==
    ASSUME IInv, CInv, [Next]_vars, add_new_word
    PROVE  CInv'
  <1>1. /\ place = "add_word" /\ place \in Indexing /\ place' = "word_id"
        /\ UNCHANGED <<todo, url, page>> /\ (flawed' = flawed \/ Flaw)
    BY DEF add_new_word, local_vars, Stored, Good, InDoubt, Fails, Indexing
  <1>2. word \in Word /\ word' = word
    BY <1>1, WordIsToDo DEF IInv, Locals, TypeOK, word
  <1>3. flawed'[url] \/ words'[word] # 0 \/ WordRefused(word)'
    <2>1. CASE Flaw
      BY <1>1, <2>1, OthersKept
    <2>2. CASE ~ Flaw
      <3>1. /\ words' = insert(words, words_seq, word, word \in LongWord)
            /\ word \notin LongWord => words_seq' = Drawn(words_seq)
            /\ words_seq' = words_seq \/ words_seq' = Drawn(words_seq)
            /\ words \in [Word -> 0 .. SerialSize] /\ words_seq \in 0 .. SerialSize
        BY <2>2 DEF add_new_word, Stored, InDoubt, Fails, MayDraw, IInv, TypeOK
      <3> QED
        BY <1>2, <3>1, InsertRefused DEF WordRefused
    <2> QED
      BY <2>1, <2>2
  <1>4. flawed'[url] \/ \A w \in WordsOf(page[url]) \ todo : Done(url, w)'
    BY <1>1, OthersKept DEF CInv, OnTheWay
  <1>5. OnTheWay'
    BY <1>1, <1>2, <1>3, <1>4, OthersKept DEF OnTheWay
  <1> QED
    BY <1>1, <1>5, OthersKept DEF CInv, Indexing

LEMMA UrlIdDone ==
    ASSUME IInv, CInv, [Next]_vars, get_url_id
    PROVE  CInv'
  <1>1. /\ place = "url_id" /\ place \in Indexing
        /\ UNCHANGED <<table_vars, url, page>> /\ (flawed' = flawed \/ Flaw)
    BY DEF get_url_id, Good, Fails, Indexing
  <1>2. CASE place' = "add_word" /\ UNCHANGED todo
    <2>1. OnTheWay'
      BY <1>1, <1>2, OthersKept DEF CInv, OnTheWay
    <2> QED
      BY <1>1, <1>2, <2>1, OthersKept DEF CInv, Indexing
  <1>3. CASE Return /\ documents[url] = 0 /\ Good
    <2>1. flawed[url] \/ UrlRefused(url)
      BY <1>1, <1>3 DEF CInv, OnTheWay
    <2>2. Complete(url)'
      BY <1>1, <2>1, OthersKept, RefusedKept DEF Complete, IInv, TypeOK
    <2> QED
      BY <1>1, <1>3, <2>2, OthersKept DEF CInv, Return, Indexing
  <1>4. CASE Return /\ Fails
    <2>1. Complete(url)'
      BY <1>1, <1>4, OthersKept DEF Complete, Fails
    <2> QED
      BY <1>1, <1>4, <2>1, OthersKept DEF CInv, Return, Indexing
  <1> QED
    BY <1>2, <1>3, <1>4 DEF get_url_id

LEMMA WordIdDone ==
    ASSUME IInv, CInv, [Next]_vars, get_word_id
    PROVE  CInv'
  <1>1. /\ place = "word_id" /\ place \in Indexing
        /\ UNCHANGED <<table_vars, url, page>> /\ (flawed' = flawed \/ Flaw)
    BY DEF get_word_id, Good, Fails, Indexing
  <1>2. CASE place' = "exist" /\ UNCHANGED todo
    <2>1. OnTheWay'
      BY <1>1, <1>2, OthersKept DEF CInv, OnTheWay
    <2> QED
      BY <1>1, <1>2, <2>1, OthersKept DEF CInv, Indexing
  <1>3. CASE Good /\ words[word] = 0 /\ next_word
    <2>1. flawed[url] \/ WordRefused(word)
      BY <1>1, <1>3 DEF CInv, OnTheWay
    <2>2. \A w \in Word : w = word => flawed'[url] \/ Done(url, w)'
      BY <1>1, <2>1, OthersKept, RefusedKept DEF Done
    <2> QED
      BY <1>1, <1>3, <2>2, LoopGoesOn
  <1>4. CASE Fails /\ next_word
    <2>1. flawed'[url]
      BY <1>1, <1>4, OthersKept DEF Fails
    <2> QED
      BY <1>1, <1>4, <2>1, LoopGoesOn
  <1> QED
    BY <1>2, <1>3, <1>4 DEF get_word_id

LEMMA ExistDone ==
    ASSUME IInv, CInv, [Next]_vars, get_word_url_exist
    PROVE  CInv'
  <1>1. /\ place = "exist" /\ place \in Indexing
        /\ UNCHANGED <<table_vars, url, page>> /\ (flawed' = flawed \/ Flaw)
    BY DEF get_word_url_exist, Good, Indexing
  <1>2. CASE place' \in {"insert", "update"} /\ UNCHANGED todo
    <2>1. OnTheWay'
      BY <1>1, <1>2, OthersKept DEF CInv, OnTheWay
    <2> QED
      BY <1>1, <1>2, <2>1, OthersKept DEF CInv, Indexing
  <1>3. CASE Flaw /\ Exit
    <2>1. Complete(url)'
      BY <1>1, <1>3, OthersKept DEF Complete
    <2> QED
      BY <1>1, <1>3, <2>1, OthersKept DEF CInv, Exit, Indexing
  <1> QED
    BY <1>2, <1>3 DEF get_word_url_exist, local_vars

LEMMA PairDone ==
    ASSUME IInv, CInv, [Next]_vars, new_word_url_pair
    PROVE  CInv'
  <1>1. /\ place \in {"insert", "update"} /\ place \in Indexing /\ place \in WithUrlId /\ place \in WithWordId
        /\ UNCHANGED <<documents, words, url, page>> /\ (flawed' = flawed \/ Flaw) /\ next_word
    BY DEF new_word_url_pair, Stored, Good, InDoubt, Fails, Indexing, WithUrlId, WithWordId
  <1>2. CASE Flaw
    <2>1. flawed'[url]
      BY <1>1, <1>2, OthersKept
    <2> QED
      BY <1>1, <2>1, LoopGoesOn
  <1>3. CASE ~ Flaw
    <2>1. /\ word \in Word /\ url \in Url
          /\ url_id = documents[url] /\ url_id # 0 /\ word_id = words[word] /\ word_id # 0
          /\ (place = "insert") = (urls_words[<<word_id, url_id>>] = 0)
      BY <1>1, WordIsToDo DEF IInv, Locals, TypeOK
    <2>2. <<word_id, url_id>> \in Id \X Id
      BY <2>1, IdIsNat DEF IInv, TypeOK, Id
    <2>3. urls_words' = [urls_words EXCEPT ![<<word_id, url_id>>] = page[url][word]]
      BY <1>3, <2>1 DEF new_word_url_pair, Stored, InDoubt, Fails
    <2>4. Quantity(url, word) = urls_words[<<word_id, url_id>>]
      BY <2>1 DEF Quantity
    <2>5. \A w \in Word : w = word => Quantity(url, w)' = page'[url][w]
      BY <1>1, <2>1, <2>2, <2>3 DEF Quantity, IInv, TypeOK
    <2>6. \A w \in Word : w = word => Done(url, w)'
      BY <1>1, <2>5 DEF Done
    <2> QED
      BY <1>1, <2>6, LoopGoesOn
  <1> QED
    BY <1>2, <1>3

LEMMA BeginDone ==
    ASSUME IInv, CInv, [Next]_vars, NEW u \in Url, NEW p \in Pages, add_url_words_to_database(u, p)
    PROVE  CInv'
  <1>1. /\ place = "free" /\ place \notin Indexing
        /\ page' = [page EXCEPT ![u] = p] /\ flawed' = [flawed EXCEPT ![u] = FALSE]
        /\ page'[u] = p
    BY DEF add_url_words_to_database, Indexing, IInv, TypeOK
  <1>2. ASSUME NEW v \in Url \ {u} PROVE Complete(v)'
    <2>1. page'[v] = page[v] /\ flawed'[v] = flawed[v] /\ Complete(v)
      BY <1>1 DEF IInv, TypeOK, CInv
    <2> QED
      BY <2>1, CompleteKept
  <1>3. CASE WordsOf(p) = {} /\ place' = place
    <2>1. Complete(u)'
      BY <1>1, <1>3 DEF Complete
    <2> QED
      BY <1>1, <1>2, <1>3, <2>1 DEF CInv
  <1>4. CASE place' = "add_url" /\ url' = u /\ todo' = WordsOf(p)
    <2>1. OnTheWay'
      BY <1>1, <1>4 DEF OnTheWay
    <2> QED
      BY <1>2, <1>4, <2>1 DEF CInv, Indexing
  <1> QED
    BY <1>3, <1>4 DEF add_url_words_to_database

LEMMA ProcessDone ==
    ASSUME IInv, CInv, [Next]_vars, start_db \/ End \/ Restart
    PROVE  CInv'
  <1>1. /\ place' \notin Indexing /\ UNCHANGED <<url, page>>
        /\ IF place \in Indexing THEN Flaw ELSE UNCHANGED flawed
    BY DEF start_db, connect_db, create_tables, create_templates, End, Restart, Exit, Indexing
  <1>2. ASSUME NEW u \in Url PROVE Complete(u)'
    <2>1. CASE place \in Indexing /\ u = url
      BY <1>1, <2>1 DEF Complete, Flaw, IInv, TypeOK
    <2>2. CASE Complete(u)
      <3>1. flawed[u] => flawed'[u]
        BY <1>1 DEF Flaw, IInv, TypeOK
      <3> QED
        BY <1>1, <2>2, <3>1, CompleteKept
    <2> QED
      BY <2>1, <2>2 DEF CInv
  <1> QED
    BY <1>1, <1>2 DEF CInv

LEMMA NextCInv == IInv /\ CInv /\ [Next]_vars => CInv'
  <1> SUFFICES ASSUME IInv, CInv, [Next]_vars PROVE CInv'
    OBVIOUS
  <1>1. CASE UNCHANGED vars
    <2>1. UNCHANGED <<place, documents, documents_seq, words, words_seq, urls_words, url, todo, page, flawed>>
      BY <1>1 DEF vars, table_vars, local_vars
    <2>2. \A u \in Url : Complete(u)' = Complete(u)
      BY <2>1 DEF Complete, Done, UrlRefused, WordRefused, Refused, Quantity, WordsOf
    <2>3. OnTheWay' = OnTheWay
      BY <2>1 DEF OnTheWay, Done, UrlRefused, WordRefused, Refused, Quantity, WordsOf, word
    <2> QED
      BY <2>1, <2>2, <2>3 DEF CInv
  <1>2. CASE Next
    BY <1>2, NewUrlDone, UrlIdDone, NewWordDone, WordIdDone, ExistDone, PairDone, BeginDone, ProcessDone
       DEF Next, Statement
  <1> QED
    BY <1>1, <1>2

(* An address whose last indexing met no failure has every word of its     *)
(* page with its quantity, save what the database refuses                  *)
(* (spider.cpp:347-364).                                                   *)
THEOREM CompleteTheorem == Spec => []CleanPageIsComplete
  <1>1. Init => CInv
    BY DEF Init, CInv, Complete, WordsOf, NoPage, Indexing
  <1>2. CInv => CleanPageIsComplete
    BY DEF CInv, Complete, CleanPageIsComplete, UrlRefused, Done, WordRefused
  <1> QED
    BY <1>1, <1>2, NextCInv, Invariance, PTL DEF Spec
=============================================================================
