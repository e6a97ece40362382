---------------------------- MODULE SearchProofs ----------------------------
(***************************************************************************)
(* What a search shows while the spider writes between its queries, for    *)
(* any tables, requests, settings and number of clients.  The numbers of   *)
(* the tables only appear, so a word found at an address stays found:      *)
(* that is what ties the three queries of a search together (Tied).        *)
(* Then type correctness, and that a search is exact while the spider      *)
(* writes nothing: the pages it shows, how many, and in what order.        *)
(***************************************************************************)
EXTENDS SearchServer, FiniteSetTheorems, TLAPS

(* What the history variables say of the locals of a search without a      *)
(* failed query.                                                           *)
Counting ==
    /\ listed = seen_then
    /\ complete_then \subseteq seen_then
    /\ complete_then \ Quoted \subseteq matched \cup uncounted
    /\ \A u \in complete_then : Tables!HasAll(u, request)
    /\ \A u \in matched : Tables!HasAll(u, request)
    /\ place = "table" => uncounted = {}

Shows ==
    /\ complete_then \ Quoted \subseteq Shown \/ Len(final_array) = search_results
    /\ \A u \in Shown : Tables!HasAll(u, request) \/ u \notin seen_then

Tied ==
    /\ index \in [Url -> [Word -> Nat]]
    /\ search_results \in Limit
    /\ place \in Busy => request \in Request
    /\ uncounted \subseteq listed /\ listed \subseteq Url /\ matched \subseteq Url
    /\ complete_then \subseteq Url /\ final_array \in Seq(Url)
    /\ place \in {"start", "idle", "ended", "list"} => matched = {}
    /\ place = "count" => uncounted # {}
    /\ place \in {"count", "table"} /\ ~ trouble => Counting
    /\ place = "respond" /\ ~ trouble => Shows

(* The server counts an address's words right: as many as asked are all.   *)
LEMMA AllAreCounted ==
    ASSUME NEW found, NEW asked \in Request, found \subseteq asked
    PROVE  Cardinality(found) = Cardinality(asked) <=> found = asked
  BY SearchAssumption, FS_Subset

(* What was found stays found.                                             *)
LEMMA StoreKeeps ==
    ASSUME index \in [Url -> [Word -> Nat]], Tables!Next, NEW u \in Url, NEW asked
    PROVE  /\ index' \in [Url -> [Word -> Nat]]
           /\ Tables!HasAll(u, asked) => Tables!HasAll(u, asked)'
  <1>1. PICK row \in Row : index' = [index EXCEPT ![row[1]][row[2]] = row[3]]
    BY DEF Tables!Next, Tables!Store
  <1>2. row[1] \in Url /\ row[2] \in Word /\ row[3] \in Nat /\ row[3] > 0
    BY SearchAssumption
  <1>3. index' \in [Url -> [Word -> Nat]]
    BY <1>1, <1>2
  <1>4. \A w \in Word : index[u][w] > 0 => index'[u][w] > 0
    BY <1>1, <1>2
  <1> QED
    BY <1>3, <1>4 DEF Tables!HasAll, Tables!WordsAt

(* A sorted array has every address once.                                  *)
LEMMA SortedHasAll ==
    ASSUME NEW urls, IsFiniteSet(urls), NEW order \in Sorted(urls)
    PROVE  /\ Len(order) = Cardinality(urls) /\ Len(order) \in Nat
           /\ order \in Seq(urls)
           /\ {order[i] : i \in 1 .. Len(order)} = urls
  <1> DEFINE n == Cardinality(urls)
  <1>1. n \in Nat
    BY FS_CardinalityType
  <1>2. order \in [1 .. n -> urls] /\ \A i, j \in 1 .. n : i < j => order[i] # order[j]
    BY DEF Sorted
  <1>3. IsFiniteSet(1 .. n) /\ Cardinality(1 .. n) = n
    BY <1>1, FS_Interval
  <1>4. \A i, j \in 1 .. n : order[i] = order[j] => i = j
    BY <1>1, <1>2
  <1>5. order \in Injection(1 .. n, urls)
    BY <1>2, <1>4 DEF Injection, IsInjective
  <1>6. order \in Surjection(1 .. n, urls)
    BY <1>3, <1>5, FS_Injection
  <1>7. Len(order) = n /\ order \in Seq(urls)
    BY <1>1, <1>2
  <1> QED
    BY <1>1, <1>6, <1>7 DEF Surjection

LEMMA ShownAreUrls == final_array \in Seq(Url) => Shown \subseteq Url
  BY DEF Shown

(* The spider writes.                                                      *)
LEMMA StoreStep == ASSUME Tied, Store PROVE Tied'
  <1>1. /\ UNCHANGED <<search_results, place, request, listed, matched, uncounted, final_array,
                       complete_then, seen_then, trouble>>
        /\ Tables!Next
    BY DEF Store, search_vars
  <1>2. /\ index' \in [Url -> [Word -> Nat]]
        /\ \A u \in Url : Tables!HasAll(u, request) => Tables!HasAll(u, request)'
    <2>1. ASSUME NEW u \in Url
          PROVE  /\ index' \in [Url -> [Word -> Nat]]
                 /\ Tables!HasAll(u, request) => Tables!HasAll(u, request)'
      <3>1. Tables!HasAll(u, request) => \A asked : asked = request => Tables!HasAll(u, asked)'
        BY <1>1, StoreKeeps DEF Tied
      <3> QED
        BY <1>1, <3>1, StoreKeeps DEF Tied, Tables!HasAll, Tables!WordsAt
    <2>2. \E u \in Url : TRUE
      BY <1>1, SearchAssumption DEF Tables!Next
    <2> QED
      BY <2>1, <2>2
  <1>3. place \in {"count", "table"} /\ ~ trouble => Counting'
    BY <1>1, <1>2 DEF Tied, Counting
  <1>4. place = "respond" /\ ~ trouble => Shows'
    BY <1>1, <1>2, ShownAreUrls DEF Tied, Shows, Shown
  <1> QED
    BY <1>1, <1>2, <1>3, <1>4 DEF Tied

(* Whatever concerns the clients and the process only.                     *)
LEMMA QuietStep ==
    ASSUME Tied, UNCHANGED <<index, search_results, search_vars, complete_then, seen_then, trouble>>,
           place' = place \/ (place \in {"start", "idle"} /\ place' \in {"idle", "ended"})
    PROVE  Tied'
  <1>1. UNCHANGED <<request, listed, matched, uncounted, final_array>>
    BY DEF search_vars
  <1>2. place' \in {"count", "table"} /\ ~ trouble => Counting'
    BY <1>1 DEF Tied, Counting, Tables!HasAll, Tables!WordsAt
  <1>3. place' = "respond" /\ ~ trouble => Shows'
    BY <1>1 DEF Tied, Shows, Shown, Tables!HasAll, Tables!WordsAt
  <1> QED
    BY <1>1, <1>2, <1>3 DEF Tied, Busy

LEMMA ReadStep == ASSUME Tied, NEW s \in Slot, on_read(s) PROVE Tied'
  <1>1. /\ place = "idle" /\ UNCHANGED <<index, search_results, complete_then, seen_then, trouble>>
    BY DEF on_read, Runs, history_vars
  <1>2. CASE UNCHANGED <<place, search_vars>>
    BY <1>1, <1>2, QuietStep
  <1>3. CASE place' = "list" /\ request' \in Request /\ UNCHANGED <<listed, matched, uncounted, final_array>>
    BY <1>1, <1>3 DEF Tied
  <1> QED
    BY <1>2, <1>3 DEF on_read, handle_request

(* A request has words, so an address with all of them has any.            *)
LEMMA ListStep == ASSUME Tied, get_urls_list_by_words PROVE Tied'
  <1>1. /\ place = "list" /\ UNCHANGED <<index, search_results, request, matched, final_array>>
        /\ uncounted' = listed' /\ listed' \subseteq Url
        /\ complete_then' = {u \in Url : Tables!HasAll(u, request)}
        /\ seen_then' = {u \in Url : Tables!HasAny(u, request)}
        /\ place' = IF uncounted' = {} THEN "table" ELSE "count"
        /\ ~ trouble' => listed' = seen_then'
    BY DEF get_urls_list_by_words, Searching, Answers, Fails
  <1>2. matched = {} /\ request \in Request /\ request # {}
    BY <1>1, SearchAssumption DEF Tied, Busy
  <1>3. complete_then' \subseteq seen_then'
    BY <1>1, <1>2 DEF Tables!HasAll, Tables!HasAny
  <1>4. \A u \in complete_then' : Tables!HasAll(u, request)'
    BY <1>1 DEF Tables!HasAll, Tables!WordsAt
  <1>5. ~ trouble' => Counting'
    BY <1>1, <1>2, <1>3, <1>4 DEF Counting
  <1> QED
    BY <1>1, <1>2, <1>5 DEF Tied, Busy

(* A count that was answered is right, except at an apostrophe.            *)
LEMMA CountsRight ==
    ASSUME Tied, count_url_words, ~ trouble'
    PROVE  /\ url \in uncounted /\ ~ trouble
           /\ matched' = IF url \notin Quoted /\ Tables!HasAll(url, request)
                         THEN matched \cup {url} ELSE matched
  <1>1. place = "count" /\ url \in uncounted /\ request \in Request
    BY DEF count_url_words, Searching, Tied, url, Busy
  <1>2. CASE url \notin Quoted
    <2>1. Counted(Tables!WordsAt(url, request)) /\ ~ trouble
      BY <1>2 DEF count_url_words, Answers, Fails
    <2>2. Cardinality(Tables!WordsAt(url, request)) = Cardinality(request) <=> Tables!HasAll(url, request)
      BY <1>1, AllAreCounted DEF Tables!HasAll, Tables!WordsAt
    <2> QED
      BY <1>1, <1>2, <2>1, <2>2 DEF Counted
  <1>3. CASE url \in Quoted
    <2>1. Counted({}) /\ ~ trouble
      BY <1>3 DEF count_url_words, Answers, Fails
    <2>2. Cardinality({}) # Cardinality(request)
      BY <1>1, AllAreCounted, SearchAssumption
    <2> QED
      BY <1>1, <1>3, <2>1, <2>2 DEF Counted
  <1> QED
    BY <1>2, <1>3

LEMMA CountStep == ASSUME Tied, count_url_words PROVE Tied'
  <1>1. /\ place = "count"
        /\ UNCHANGED <<index, search_results, request, listed, final_array, complete_then, seen_then>>
        /\ uncounted' = uncounted \ {url} /\ uncounted \subseteq listed
        /\ place' = IF uncounted' = {} THEN "table" ELSE "count"
        /\ matched' \in {matched, matched \cup {url}}
        /\ ~ trouble' => ~ trouble
    BY DEF count_url_words, Counted, Searching, Answers, Fails, Tied
  <1>2. url \in uncounted /\ url \in Url /\ request \in Request
    BY <1>1 DEF Tied, url, Busy
  <1>3. ~ trouble' => Counting'
    <2> SUFFICES ASSUME ~ trouble' PROVE Counting'
      OBVIOUS
    <2>1. Counting
      BY <1>1 DEF Tied
    <2>2. \A u \in complete_then : u = url /\ url \notin Quoted => url \in matched'
      BY <2>1, CountsRight DEF Counting
    <2>3. complete_then' \ Quoted \subseteq matched' \cup uncounted'
      BY <1>1, <2>1, <2>2 DEF Counting
    <2>4. \A u \in complete_then' \cup matched' : Tables!HasAll(u, request)
      BY <1>1, <2>1, CountsRight DEF Counting
    <2>5. \A u \in complete_then' \cup matched' : Tables!HasAll(u, request)'
      BY <1>1, <2>4 DEF Tables!HasAll, Tables!WordsAt
    <2> QED
      BY <1>1, <2>1, <2>3, <2>5 DEF Counting
  <1> QED
    BY <1>1, <1>2, <1>3 DEF Tied, Busy

(* The limit: all of the array, or search_results of it.                   *)
LEMMA LimitedArray ==
    ASSUME search_results \in Int
    PROVE  \A order \in Seq(Url) : LET n == results_num(Len(order)) IN
              /\ SubSeq(order, 1, n) \in Seq(Url)
              /\ DOMAIN SubSeq(order, 1, n) = 1 .. n /\ Len(SubSeq(order, 1, n)) = n
              /\ n \in 0 .. Len(order) /\ Len(order) \in Nat
              /\ \A i \in 1 .. n : SubSeq(order, 1, n)[i] = order[i]
              /\ n = Len(order) \/ n = search_results
  <1> SUFFICES ASSUME NEW order \in Seq(Url)
               PROVE  LET n == results_num(Len(order)) IN
                         /\ SubSeq(order, 1, n) \in Seq(Url)
                         /\ DOMAIN SubSeq(order, 1, n) = 1 .. n /\ Len(SubSeq(order, 1, n)) = n
                         /\ n \in 0 .. Len(order) /\ Len(order) \in Nat
                         /\ \A i \in 1 .. n : SubSeq(order, 1, n)[i] = order[i]
                         /\ n = Len(order) \/ n = search_results
    OBVIOUS
  <1> DEFINE n == results_num(Len(order))
  <1>1. /\ Len(order) \in Nat /\ n \in 0 .. Len(order)
        /\ n = Len(order) \/ n = search_results
    BY DEF results_num
  <1> HIDE DEF n
  <1>2. /\ SubSeq(order, 1, n) \in Seq(Url) /\ Len(SubSeq(order, 1, n)) = n
        /\ DOMAIN SubSeq(order, 1, n) = 1 .. n
        /\ \A i \in 1 .. n : SubSeq(order, 1, n)[i] = order[i]
    BY <1>1
  <1> QED
    BY <1>1, <1>2 DEF n

LEMMA TableStep == ASSUME Tied, get_words_urls_table PROVE Tied'
  <1>1. /\ place = "table" /\ place' = "respond"
        /\ UNCHANGED <<index, search_results, request, listed, matched, uncounted, complete_then, seen_then>>
        /\ ~ trouble' => ~ trouble
    BY DEF get_words_urls_table, Searching, Answers, Fails
  <1>2. ranked \subseteq Url /\ IsFiniteSet(ranked)
    BY SearchAssumption, FS_Subset DEF ranked
  <1>3. search_results \in Int /\ request # {}
    BY <1>1, SearchAssumption DEF Tied, Busy
  <1>4. CASE final_array' = <<>> /\ trouble'
    BY <1>1, <1>4 DEF Tied, Busy
  <1>5. CASE /\ \E order \in Sorted(ranked) : final_array' = SubSeq(order, 1, results_num(Len(order)))
             /\ trouble' = trouble
    <2>1. PICK order \in Sorted(ranked) : final_array' = SubSeq(order, 1, results_num(Len(order)))
      BY <1>5
    <2>2. order \in Seq(Url) /\ {order[i] : i \in 1 .. Len(order)} = ranked
      BY <1>2, SortedHasAll
    <2>3. /\ final_array' \in Seq(Url)
          /\ Shown' \subseteq ranked
          /\ Len(final_array') = search_results \/ Shown' = ranked
      <3> DEFINE n == results_num(Len(order))
      <3>1. /\ final_array' \in Seq(Url)
            /\ DOMAIN final_array' = 1 .. n /\ Len(final_array') = n
            /\ n \in 0 .. Len(order) /\ Len(order) \in Nat
            /\ \A i \in 1 .. n : final_array'[i] = order[i]
            /\ n = Len(order) \/ n = search_results
        BY <1>3, <2>1, <2>2, LimitedArray
      <3> HIDE DEF n
      <3>2. Shown' = {order[i] : i \in 1 .. n}
        BY <3>1 DEF Shown
      <3>3. 1 .. n \subseteq 1 .. Len(order)
        BY <3>1
      <3> QED
        BY <2>2, <3>1, <3>2, <3>3
    <2>4. ~ trouble => complete_then \ Quoted \subseteq ranked
      BY <1>1, <1>3 DEF Tied, Counting, ranked, Tables!HasAll, Tables!HasAny
    <2>5. ~ trouble => \A u \in ranked : Tables!HasAll(u, request) \/ u \notin seen_then
      BY <1>1 DEF Tied, Counting, ranked
    <2>6. ~ trouble => \A u \in Shown' : Tables!HasAll(u, request)' \/ u \notin seen_then
      BY <1>1, <2>3, <2>5 DEF Tables!HasAll, Tables!WordsAt
    <2>7. ~ trouble' => Shows'
      BY <1>1, <2>3, <2>4, <2>6 DEF Shows
    <2> QED
      BY <1>1, <2>3, <2>7 DEF Tied, Busy
  <1> QED
    BY <1>4, <1>5 DEF get_words_urls_table, Answers, Fails

LEMMA RespondStep == ASSUME Tied, send_response PROVE Tied'
  BY DEF send_response, forget, Tied, Busy

LEMMA NextTied == Tied /\ [Next]_vars => Tied'
  <1> SUFFICES ASSUME Tied, [Next]_vars PROVE Tied'
    OBVIOUS
  <1>1. CASE UNCHANGED vars
    BY <1>1, QuietStep DEF vars, history_vars
  <1>2. CASE main \/ run_returns \/ Connect \/ \E s \in Slot : Receive(s) \/ Lose(s) \/ Sent(s)
    BY <1>2, QuietStep DEF main, run_returns, Connect, Receive, Lose, Sent, Completes, history_vars
  <1>3. CASE on_accept \/ \E s \in Slot : on_write(s) \/ close(s)
    BY <1>3, QuietStep DEF on_accept, on_write, close, Runs, history_vars
  <1>4. CASE \E s \in Slot : on_read(s)
    BY <1>4, ReadStep
  <1>5. CASE Store \/ Search
    BY <1>5, StoreStep, ListStep, CountStep, TableStep, RespondStep DEF Search
  <1> QED
    BY <1>1, <1>2, <1>3, <1>4, <1>5 DEF Next, Thread, Handler

LEMMA InitTied == Init => Tied
  BY DEF Init, Tables!Init, Tied, Busy

THEOREM TiedTheorem == Spec => []Tied
  BY InitTied, NextTied, PTL DEF Spec

(* Whatever is written between the three queries, an address that had all  *)
(* the words when the search began is shown, unless the limit is reached   *)
(* or it has an apostrophe (server_interface.cpp:170-240).                 *)
THEOREM FoundTheorem == Spec => []CompletePagesAreFound
  <1>1. Tied => CompletePagesAreFound
    BY DEF Tied, Shows, CompletePagesAreFound
  <1> QED
    BY <1>1, TiedTheorem, PTL

(* An address without some of the words is shown only if it had none when  *)
(* the search began (server_interface.cpp:202).                            *)
THEOREM LateTheorem == Spec => []IncompleteOnlyIfLate
  <1>1. Tied => IncompleteOnlyIfLate
    BY DEF Tied, Shows, IncompleteOnlyIfLate
  <1> QED
    BY <1>1, TiedTheorem, PTL

(* Every variable keeps its type; that the addresses matched are among the *)
(* listed ones and those with all the words among those with any rests on  *)
(* the order of the three queries and on a request having words.           *)
THEOREM TypeTheorem == Spec => []TypeOK
  <1>1. Init => TypeOK
    <2> SUFFICES ASSUME Init PROVE TypeOK
      OBVIOUS
    <2>1. Tables!TypeOK
      BY DEF Init, Tables!Init, Tables!TypeOK
    <2>2. handlers \in Seq(Slot \cup {acceptor}) /\ final_array \in Seq(Url)
      BY DEF Init
    <2>3. session \in [Slot -> {"none", "reading", "request", "over", "serving", "writing", "written"}]
      BY DEF Init
    <2> QED
      BY <2>1, <2>2, <2>3 DEF Init, TypeOK
  <1>2. ASSUME TypeOK, Tied, Tied', [Next]_vars
        PROVE  TypeOK'
    <2> USE <1>2
    <2>1. /\ Tables!TypeOK' /\ search_results' \in Limit /\ final_array' \in Seq(Url)
          /\ (uncounted \subseteq listed)' /\ (listed \subseteq Url)'
      BY DEF Tied, Tables!TypeOK
    <2> USE <2>1 DEF TypeOK, Busy
    <2>2. CASE main
      <3>1. UNCHANGED <<session, request, listed, matched, uncounted, complete_then, seen_then, quiet, trouble>>
        BY <2>2 DEF main, listen, net_vars, search_vars, history_vars
      <3>2. listener' \in {listener, "accepting", "refused"}
        BY <2>2 DEF main, listen, net_vars
      <3>3. handlers' \in {handlers, <<acceptor>>}
        BY <2>2 DEF main, listen, net_vars
      <3>4. connection' \in {"none", "open", "broken"} /\ place' \in {"ended", "idle"}
        BY <2>2 DEF main, start_db
      <3>5. handlers' \in Seq(Slot \cup {acceptor})
        <4>1. CASE handlers' = handlers
          BY <4>1
        <4>2. CASE handlers' = <<acceptor>>
          BY <4>2
        <4> QED
          BY <3>3, <4>1, <4>2
      <3> QED
        BY <3>1, <3>2, <3>4, <3>5
    <2>3. CASE run_returns
      BY <2>3 DEF run_returns, net_vars, search_vars, history_vars
    <2>4. CASE Connect
      BY <2>4 DEF Connect, Completes, search_vars, history_vars
    <2>5. ASSUME NEW s \in Slot, Receive(s) \/ Lose(s) \/ Sent(s)
          PROVE  TypeOK'
      <3>1. /\ handlers' = Append(handlers, s)
            /\ UNCHANGED <<listener, connection, place, search_vars, history_vars>>
            /\ \E state \in {"request", "over", "written"} :
                  session' = [session EXCEPT ![s] = state]
        BY <2>5 DEF Receive, Lose, Sent, Completes
      <3>2. handlers' \in Seq(Slot \cup {acceptor})
        BY <3>1
      <3>3. session' \in [Slot -> {"none", "reading", "request", "over", "serving", "writing", "written"}]
        BY <3>1
      <3> QED
        BY <3>1, <3>2, <3>3 DEF search_vars, history_vars
    <2>6. CASE Store
      BY <2>6 DEF Store, net_vars, search_vars
    <2>7. ASSUME NEW who, Runs(who)
          PROVE  handlers' \in Seq(Slot \cup {acceptor}) /\ UNCHANGED connection
      BY <2>7 DEF Runs
    <2>8. CASE on_accept
      BY <2>7, <2>8 DEF on_accept, search_vars, history_vars
    <2>9. ASSUME NEW s \in Slot, on_read(s)
          PROVE  TypeOK'
      BY <2>7, <2>9 DEF on_read, handle_request, search_vars, history_vars
    <2>10. ASSUME NEW s \in Slot, on_write(s) \/ close(s)
           PROVE  TypeOK'
      BY <2>7, <2>10 DEF on_write, close, search_vars, history_vars
    <2>11. Answers \/ Fails => connection' \in {"none", "open", "broken"} /\ trouble' \in BOOLEAN
      BY DEF Answers, Fails
    <2>12. CASE get_urls_list_by_words
      <3>1. /\ matched' = {} /\ request' = request /\ request # {} /\ request \in Request
            /\ UNCHANGED net_vars /\ quiet' = TRUE /\ place' \in {"table", "count"}
            /\ complete_then' = {u \in Url : Tables!HasAll(u, request)}
            /\ seen_then' = {u \in Url : Tables!HasAny(u, request)}
            /\ Answers \/ Fails
        BY <2>12, SearchAssumption DEF get_urls_list_by_words, Searching, Tied
      <3>2. (complete_then \subseteq seen_then)'
        BY <3>1 DEF Tables!HasAll, Tables!HasAny
      <3> QED
        BY <2>11, <3>1, <3>2 DEF net_vars
    <2>13. CASE count_url_words
      <3>1. /\ matched' \in {matched, matched \cup {url}} /\ url \in uncounted
            /\ UNCHANGED <<request, listed, complete_then, seen_then, quiet>>
            /\ UNCHANGED net_vars /\ place' \in {"table", "count"}
            /\ Answers \/ Fails
        BY <2>13 DEF count_url_words, Counted, Searching, Tied, url
      <3> QED
        BY <2>11, <3>1 DEF net_vars
    <2>14. CASE get_words_urls_table
      <3>1. /\ UNCHANGED <<request, listed, matched, uncounted, complete_then, seen_then, quiet>>
            /\ UNCHANGED net_vars /\ place' = "respond"
            /\ Answers \/ Fails
        BY <2>14 DEF get_words_urls_table, Searching
      <3> QED
        BY <2>11, <3>1 DEF net_vars
    <2>15. CASE send_response
      BY <2>15 DEF send_response, forget
    <2>16. CASE UNCHANGED vars
      BY <2>16 DEF vars, net_vars, search_vars, history_vars
    <2> QED
      BY <2>2, <2>3, <2>4, <2>5, <2>6, <2>8, <2>9, <2>10, <2>12, <2>13, <2>14, <2>15, <2>16
      DEF Next, Thread, Handler, Search
  <1> QED
    BY <1>1, <1>2, TiedTheorem, PTL DEF Spec
-----------------------------------------------------------------------------
(* The addresses a search should show.                                     *)
Exact == {u \in Url \ Quoted : Tables!HasAll(u, request)}

ShowsExact ==
    /\ Shown \subseteq Exact
    /\ Len(final_array) \in {Cardinality(Exact), search_results}
    /\ \A i, j \in DOMAIN final_array : i < j => Total(final_array[i]) >= Total(final_array[j])
    /\ \A u \in Exact \ Shown, shown \in Shown : Total(u) =< Total(shown)

(* As long as nothing was written, the locals of a search are about the    *)
(* tables as they are: matched is what of Exact has been counted.          *)
QuietTied ==
    quiet /\ ~ trouble =>
        /\ place \in {"count", "table"} =>
              /\ listed = {u \in Url : Tables!HasAny(u, request)}
              /\ matched = Exact \cap (listed \ uncounted)
              /\ place = "table" => uncounted = {}
        /\ place = "respond" => ShowsExact

LEMMA ExactIsListed ==
    ASSUME request # {}, NEW u \in Exact
    PROVE  Tables!HasAny(u, request)
  BY DEF Exact, Tables!HasAll, Tables!HasAny

(* A step that leaves the tables and the request leaves what a search      *)
(* should show and the sums it sorts by.                                   *)
LEMMA TotalKept ==
    ASSUME UNCHANGED <<index, request>>, NEW u
    PROVE  Total(u)' = Total(u)
  BY DEF Total, MapThenSumSet, MapThenFoldSet

LEMMA ExactKept ==
    ASSUME UNCHANGED <<index, request>>
    PROVE  /\ Exact' = Exact
           /\ \A u : Tables!HasAny(u, request)' <=> Tables!HasAny(u, request)
  BY DEF Exact, Tables!HasAll, Tables!HasAny, Tables!WordsAt

LEMMA QuietRest ==
    ASSUME QuietTied,
           UNCHANGED <<index, search_results, search_vars, quiet, trouble>>,
           place' = place \/ place' \in {"idle", "ended"}
    PROVE  QuietTied'
  <1>1. UNCHANGED <<request, listed, matched, uncounted, final_array>>
    BY DEF search_vars
  <1>2. Exact' = Exact /\ \A u : Tables!HasAny(u, request)' <=> Tables!HasAny(u, request)
    BY <1>1, ExactKept
  <1>3. \A u : Total(u)' = Total(u)
    BY <1>1, TotalKept
  <1>4. Shown' = Shown
    BY <1>1 DEF Shown
  <1>5. ShowsExact => ShowsExact'
    BY <1>1, <1>2, <1>3, <1>4 DEF ShowsExact
  <1> QED
    BY <1>1, <1>2, <1>5 DEF QuietTied

LEMMA QuietCount == ASSUME Tied, QuietTied, count_url_words PROVE QuietTied'
  <1> SUFFICES ASSUME quiet', ~ trouble' PROVE QuietTied'
    BY DEF QuietTied
  <1>1. /\ place = "count" /\ quiet
        /\ UNCHANGED <<index, request, listed>>
        /\ uncounted' = uncounted \ {url} /\ uncounted \subseteq listed
        /\ place' = IF uncounted' = {} THEN "table" ELSE "count"
    BY DEF count_url_words, Counted, Searching, Tied
  <1>2. /\ url \in uncounted /\ ~ trouble /\ url \in Url
        /\ matched' = IF url \in Exact THEN matched \cup {url} ELSE matched
    BY CountsRight DEF Exact, Tied
  <1>3. Exact' = Exact /\ \A u : Tables!HasAny(u, request)' <=> Tables!HasAny(u, request)
    BY <1>1, ExactKept
  <1>4. /\ listed = {u \in Url : Tables!HasAny(u, request)}
        /\ matched = Exact \cap (listed \ uncounted)
    BY <1>1, <1>2 DEF QuietTied
  <1>5. matched' = Exact \cap (listed \ uncounted')
    BY <1>1, <1>2, <1>4
  <1> QED
    BY <1>1, <1>3, <1>4, <1>5 DEF QuietTied

(* The array is Exact, sorted; what the limit cuts off comes last.         *)
LEMMA QuietTable == ASSUME Tied, QuietTied, get_words_urls_table PROVE QuietTied'
  <1> SUFFICES ASSUME quiet', ~ trouble' PROVE QuietTied'
    BY DEF QuietTied
  <1>1. /\ place = "table" /\ place' = "respond" /\ quiet /\ ~ trouble
        /\ UNCHANGED <<index, search_results, request>>
        /\ \E order \in Sorted(ranked) :
              final_array' = SubSeq(order, 1, results_num(Len(order)))
    BY DEF get_words_urls_table, Searching, Answers, Fails
  <1>2. search_results \in Int /\ request # {}
    BY <1>1, SearchAssumption DEF Tied, Busy
  <1>3. ranked = Exact
    <2>1. /\ listed = {u \in Url : Tables!HasAny(u, request)}
          /\ matched = Exact \cap listed
      BY <1>1 DEF QuietTied
    <2>2. \A u \in Exact : u \in Url /\ Tables!HasAny(u, request)
      BY <1>2, ExactIsListed DEF Exact
    <2> QED
      BY <2>1, <2>2 DEF ranked
  <1>4. PICK order \in Sorted(ranked) : final_array' = SubSeq(order, 1, results_num(Len(order)))
    BY <1>1
  <1>5. /\ order \in Seq(Url) /\ Len(order) = Cardinality(Exact)
        /\ {order[i] : i \in 1 .. Len(order)} = Exact
    <2>1. Exact \subseteq Url /\ IsFiniteSet(Exact)
      BY SearchAssumption, FS_Subset DEF Exact
    <2> QED
      BY <1>3, <1>4, <2>1, SortedHasAll
  <1> DEFINE n == results_num(Len(order))
  <1>6. /\ DOMAIN final_array' = 1 .. n /\ Len(final_array') = n
        /\ n \in 0 .. Len(order) /\ Len(order) \in Nat
        /\ \A i \in 1 .. n : final_array'[i] = order[i]
        /\ n = Len(order) \/ n = search_results
    BY <1>2, <1>4, <1>5, LimitedArray
  <1> HIDE DEF n
  <1>7. \A i, j \in 1 .. Len(order) : i < j => Total(order[i]) >= Total(order[j])
    <2>1. DOMAIN order = 1 .. Len(order)
      BY <1>5
    <2> QED
      BY <1>4, <2>1 DEF Sorted
  <1>8. /\ Exact' = Exact
        /\ \A u : Total(u)' = Total(u)
    BY <1>1, ExactKept, TotalKept
  <1>9. Shown' = {order[i] : i \in 1 .. n} /\ Shown' \subseteq Exact
    BY <1>5, <1>6 DEF Shown
  <1>10. \A i, j \in 1 .. n : i < j => Total(order[i]) >= Total(order[j])
    BY <1>6, <1>7
  <1>11. ASSUME NEW u \in Exact \ Shown', NEW shown \in Shown'
         PROVE  Total(u) =< Total(shown)
    <2>1. PICK k \in 1 .. Len(order) : u = order[k]
      BY <1>5
    <2>2. PICK i \in 1 .. n : shown = order[i]
      BY <1>9
    <2>3. i \in 1 .. Len(order) /\ i < k
      BY <1>6, <1>9, <2>1, <2>2
    <2> QED
      BY <1>7, <2>1, <2>2, <2>3
  <1>12. ShowsExact'
    BY <1>1, <1>5, <1>6, <1>8, <1>9, <1>10, <1>11 DEF ShowsExact
  <1> QED
    BY <1>1, <1>12 DEF QuietTied

(* While the spider writes nothing, a search shows exactly the addresses   *)
(* with all the words, the best first (server_interface.cpp:170-240).      *)
THEOREM ExactTheorem == Spec => []QuietSearchIsExact
  <1>1. Init => QuietTied
    BY DEF Init, QuietTied
  <1>2. ASSUME Tied, QuietTied, [Next]_vars
        PROVE  QuietTied'
    <2> USE <1>2
    <2>1. CASE UNCHANGED vars
      BY <2>1, QuietRest DEF vars, history_vars
    <2>2. CASE main \/ run_returns \/ Connect \/ \E s \in Slot : Receive(s) \/ Lose(s) \/ Sent(s)
      BY <2>2, QuietRest DEF main, run_returns, Connect, Receive, Lose, Sent, Completes, history_vars
    <2>3. CASE on_accept \/ \E s \in Slot : on_write(s) \/ close(s)
      BY <2>3, QuietRest DEF on_accept, on_write, close, Runs, history_vars
    <2>4. ASSUME NEW s \in Slot, on_read(s)
          PROVE  QuietTied'
      <3>1. place = "idle" /\ place' \in {"idle", "list"}
        BY <2>4 DEF on_read, Runs, handle_request
      <3> QED
        BY <3>1 DEF QuietTied
    <2>5. CASE Store
      BY <2>5 DEF Store, QuietTied, Busy
    <2>6. CASE get_urls_list_by_words
      <3> SUFFICES ASSUME ~ trouble' PROVE QuietTied'
        BY DEF QuietTied
      <3>1. /\ place = "list" /\ UNCHANGED <<index, request, matched>>
            /\ listed' = {u \in Url : Tables!HasAny(u, request)} /\ uncounted' = listed'
            /\ place' = IF uncounted' = {} THEN "table" ELSE "count"
        BY <2>6 DEF get_urls_list_by_words, Searching, Answers, Fails
      <3>2. matched' = {}
        BY <3>1 DEF Tied
      <3>3. \A u : Tables!HasAny(u, request)' <=> Tables!HasAny(u, request)
        BY <3>1, ExactKept
      <3> QED
        BY <3>1, <3>2, <3>3 DEF QuietTied
    <2>7. CASE count_url_words \/ get_words_urls_table
      BY <2>7, QuietCount, QuietTable
    <2>8. CASE send_response
      BY <2>8 DEF send_response, QuietTied
    <2> QED
      BY <2>1, <2>2, <2>3, <2>4, <2>5, <2>6, <2>7, <2>8 DEF Next, Thread, Handler, Search
  <1>3. QuietTied => QuietSearchIsExact
    BY DEF QuietTied, ShowsExact, Exact, QuietSearchIsExact
  <1> QED
    BY <1>1, <1>2, <1>3, TiedTheorem, PTL DEF Spec
===============================================================================
