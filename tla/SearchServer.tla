--------------------------- MODULE SearchServer ----------------------------
(***************************************************************************)
(* The search server: listener and session (server.hpp), handle_request    *)
(* and get_post_request_result_string (server_interface), the queries of   *)
(* its Data_base, and its main, beside a spider that goes on writing the   *)
(* tables (Index, which Indexer implements).                               *)
(*                                                                         *)
(* One thread runs the io_context: handlers run one at a time, in the      *)
(* order their operations complete (handlers), and a search keeps the      *)
(* thread from its first query to its answer.  A query is a transaction of *)
(* its own, so the spider may write between two queries of a search.       *)
(*                                                                         *)
(* A client appears only as the slot its connection takes; HEAD requests,  *)
(* unknown methods and bad targets are replies without a search.           *)
(*                                                                         *)
(* close_leaks, count_any, count_stale, results_signed, forget_some and    *)
(* send_nothing are mistakes that the properties must catch: the mutants   *)
(* of PROJECT.json.                                                        *)
(***************************************************************************)
EXTENDS Integers, Sequences, FiniteSets, FiniteSetsExt

CONSTANTS
    Url, Word, Row,  \* see Index
    Request,         \* the sets of words a client may ask for
    Quoted,          \* addresses with an apostrophe
    Limit,           \* settings of search_results
    Slot,            \* bound: connections at a time
    acceptor         \* stands for the listener's handler

ASSUME SearchAssumption ==
    /\ Row \subseteq Url \X Word \X (Nat \ {0})
    /\ \A request \in Request : IsFiniteSet(request) /\ request # {}
    /\ IsFiniteSet(Url)
    /\ Quoted \subseteq Url
    /\ Limit \subseteq Int
    /\ acceptor \notin Slot

VARIABLES
    index,           \* the spider's tables
    search_results,  \* the setting
    connection,      \* connection_ptr: "none" (nullptr), "open" or "broken"
    listener,        \* the accept operation
    session,         \* per slot, the session's operation
    handlers,        \* the handlers ready to run, oldest first
    place,           \* where the thread is
    request,         \* words_set
    listed,          \* the keys that the first query put in map_urls_list
    matched,         \* those among them whose multiplier became 0
    uncounted,       \* those whose words are still to be counted
    final_array,     \* what is shown, best first
    complete_then,   \* history: addresses with all the words at the first query
    seen_then,       \* history: addresses with any of them
    quiet,           \* history: the spider has written nothing since
    trouble          \* history: a query of this search failed

search_vars == <<request, listed, matched, uncounted, final_array>>
history_vars == <<complete_then, seen_then, quiet, trouble>>
net_vars == <<listener, session, handlers>>
vars == <<index, search_results, connection, net_vars, place, search_vars, history_vars>>

Tables == INSTANCE Index

Busy == {"list", "count", "table", "respond"}

TypeOK ==
    /\ Tables!TypeOK
    /\ search_results \in Limit
    /\ connection \in {"none", "open", "broken"}
    /\ listener \in {"new", "accepting", "accepted", "refused", "stopped"}
    /\ session \in [Slot -> {"none", "reading", "request", "over", "serving", "writing", "written"}]
    /\ handlers \in Seq(Slot \cup {acceptor})
    /\ place \in Busy \cup {"start", "idle", "ended"}
    /\ request \in Request \cup {{}}
    /\ uncounted \subseteq listed /\ listed \subseteq Url /\ matched \subseteq listed
    /\ final_array \in Seq(Url)
    /\ complete_then \subseteq seen_then /\ seen_then \subseteq Url
    /\ quiet \in BOOLEAN
    /\ trouble \in BOOLEAN

Init ==
    /\ Tables!Init
    /\ search_results \in Limit
    /\ connection = "none"
    /\ listener = "new"
    /\ session = [s \in Slot |-> "none"]
    /\ handlers = <<>>
    /\ place = "start"
    /\ request = {} /\ listed = {} /\ matched = {} /\ uncounted = {} /\ final_array = <<>>
    /\ complete_then = {} /\ seen_then = {} /\ quiet = TRUE /\ trouble = FALSE
-----------------------------------------------------------------------------
(* Whatever start_db says, the server goes on: with no connection, or one  *)
(* that is of no use.                                                      *)
start_db == connection' \in {"none", "open", "broken"}

(* A listener that could not open, bind or listen starts its accept all    *)
(* the same, and that fails at once.                                       *)
listen ==
    /\ \/ listener' = "accepting" /\ UNCHANGED handlers
       \/ listener' = "refused" /\ handlers' = <<acceptor>>
    /\ UNCHANGED session

(* A bad address or port ends main after the database was started.         *)
main ==
    /\ place = "start"
    /\ start_db
    /\ \/ place' = "ended" /\ UNCHANGED net_vars
       \/ place' = "idle" /\ listen
    /\ UNCHANGED <<index, search_results, search_vars, history_vars>>

(* ioc.run() returns when no operation is left.                            *)
run_returns ==
    /\ place = "idle"
    /\ listener = "stopped"
    /\ \A s \in Slot : session[s] = "none"
    /\ place' = "ended"
    /\ UNCHANGED <<index, search_results, connection, net_vars, search_vars, history_vars>>
-----------------------------------------------------------------------------
(***************************************************************************)
(* What the operations come to.  A completed operation posts its handler.  *)
(***************************************************************************)
Completes(who) ==
    /\ handlers' = Append(handlers, who)
    /\ UNCHANGED <<index, search_results, connection, place, search_vars, history_vars>>

Connect ==
    /\ listener = "accepting"
    /\ listener' \in IF \E s \in Slot : session[s] = "none" THEN {"accepted", "refused"}
                                                            ELSE {"refused"}
    /\ Completes(acceptor)
    /\ UNCHANGED session

(* A request arrives, or the client hangs up, the 30 seconds of            *)
(* expires_after pass or the connection breaks.                            *)
Receive(s) ==
    /\ session[s] = "reading"
    /\ session' = [session EXCEPT ![s] = "request"]
    /\ Completes(s)
    /\ UNCHANGED listener

Lose(s) ==
    /\ session[s] \in {"reading", "writing"}
    /\ session' = [session EXCEPT ![s] = "over"]
    /\ Completes(s)
    /\ UNCHANGED listener

Sent(s) ==
    /\ session[s] = "writing"
    /\ session' = [session EXCEPT ![s] = "written"]
    /\ Completes(s)
    /\ UNCHANGED listener

(* The spider stores a number.                                             *)
Store ==
    /\ Tables!Next
    /\ quiet' = (place \notin Busy)
    /\ UNCHANGED <<search_results, connection, net_vars, place, search_vars,
                   complete_then, seen_then, trouble>>
-----------------------------------------------------------------------------
(* The thread takes the handler that has waited longest.                   *)
Runs(who) ==
    /\ place = "idle"
    /\ handlers # <<>>
    /\ Head(handlers) = who
    /\ handlers' = Tail(handlers)
    /\ UNCHANGED <<index, search_results, connection>>

(* The session of the new connection reads, and the listener accepts on.   *)
(* After an error it accepts no more.                                      *)
on_accept ==
    /\ Runs(acceptor)
    /\ \/ /\ listener = "refused" /\ listener' = "stopped"
          /\ UNCHANGED session
       \/ /\ listener = "accepted" /\ listener' = "accepting"
          /\ \E s \in Slot :
                session[s] = "none" /\ session' = [session EXCEPT ![s] = "reading"]
    /\ UNCHANGED <<place, search_vars, history_vars>>

(* GET and POST are searches, from place "list" on, and a body that is not *)
(* the form's is a request for words that are nowhere.                     *)
handle_request(s) ==
    \/ /\ session' = [session EXCEPT ![s] = "serving"]
       /\ place' = "list"
       /\ request' \in Request
       /\ UNCHANGED <<listed, matched, uncounted, final_array>>
    \/ /\ session' = [session EXCEPT ![s] = "writing"]
       /\ UNCHANGED <<place, search_vars>>

on_read(s) ==
    /\ Runs(s)
    /\ session[s] = "request"
    /\ handle_request(s)
    /\ UNCHANGED <<listener, history_vars>>

(* keep_alive is the request's.                                            *)
on_write(s) ==
    /\ Runs(s)
    /\ session[s] = "written"
    /\ \E keep_alive \in BOOLEAN :
          session' = [session EXCEPT ![s] = IF keep_alive THEN "reading" ELSE "none"]
    /\ UNCHANGED <<listener, place, search_vars, history_vars>>

close_leaks(s) ==
    /\ Runs(s)
    /\ session[s] = "over"
    /\ UNCHANGED <<listener, session, place, search_vars, history_vars>>

(* do_close, or fail: no operation follows and the session is destroyed.   *)
close(s) ==
    /\ Runs(s)
    /\ session[s] = "over"
    /\ session' = [session EXCEPT ![s] = "none"]
    /\ UNCHANGED <<listener, place, search_vars, history_vars>>
-----------------------------------------------------------------------------
(***************************************************************************)
(* The search.  A query that fails is caught, and yields nothing or 0.     *)
(***************************************************************************)
Answers == connection = "open" /\ UNCHANGED <<connection, trouble>>
Fails ==
    /\ connection' \in IF connection = "none" THEN {"none"} ELSE {connection, "broken"}
    /\ trouble' = TRUE

Searching(from) ==
    /\ place = from
    /\ UNCHANGED <<index, search_results, net_vars, request>>

(* The addresses with one of the words, all with multiplier -1.            *)
get_urls_list_by_words ==
    /\ Searching("list")
    /\ \/ Answers /\ listed' = {u \in Url : Tables!HasAny(u, request)}
       \/ Fails /\ listed' = {}
    /\ uncounted' = listed'
    /\ complete_then' = {u \in Url : Tables!HasAll(u, request)}
    /\ seen_then' = {u \in Url : Tables!HasAny(u, request)}
    /\ quiet' = TRUE
    /\ place' = IF uncounted' = {} THEN "table" ELSE "count"
    /\ UNCHANGED <<matched, final_array>>

(* The loop over map_urls_list is at this address: a map has some order.   *)
url == CHOOSE u \in uncounted : TRUE

Counted(found) ==
    /\ matched' = IF Cardinality(found) = Cardinality(request) THEN matched \cup {url} ELSE matched
    /\ uncounted' = uncounted \ {url}
    /\ place' = IF uncounted' = {} THEN "table" ELSE "count"
    /\ UNCHANGED <<listed, final_array, complete_then, seen_then, quiet>>

count_any ==
    /\ Searching("count")
    /\ \/ Answers /\ url \notin Quoted /\ Counted(request)
       \/ Answers /\ url \in Quoted /\ Counted({})
       \/ Fails /\ Counted({})

count_stale ==
    /\ Searching("count")
    /\ \/ Answers /\ url \notin Quoted /\ Counted(IF quiet THEN Tables!WordsAt(url, request) ELSE {})
       \/ Answers /\ url \in Quoted /\ Counted({})
       \/ Fails /\ Counted({})

(* The address is put into the query as it is, unlike the words: an        *)
(* apostrophe in it breaks the query, and the count is 0.                  *)
count_url_words ==
    /\ Searching("count")
    /\ \/ Answers /\ url \notin Quoted /\ Counted(Tables!WordsAt(url, request))
       \/ Answers /\ url \in Quoted /\ Counted({})
       \/ Fails /\ Counted({})

Total(u) == MapThenSumSet(LAMBDA w : index[u][w], request \cap Word)

(* sort by urls_vector_cmp: any order among equals.                        *)
Sorted(urls) ==
    {order \in [1 .. Cardinality(urls) -> urls] :
        \A i, j \in DOMAIN order : i < j =>
            order[i] # order[j] /\ Total(order[i]) >= Total(order[j])}

results_signed(found) ==
    IF search_results > found THEN found ELSE IF search_results < 0 THEN 0 ELSE search_results

(* search_results is compared as an unsigned number: a negative one is no  *)
(* limit.                                                                  *)
results_num(found) ==
    IF search_results < 0 \/ search_results > found THEN found ELSE search_results

(* The addresses whose multiplier is not -1 when their rows are added.     *)
(* One that the first query did not return gets 0 from map's operator [].  *)
ranked == {u \in Url : u \in matched \cup (Url \ listed) /\ Tables!HasAny(u, request)}

get_words_urls_table ==
    /\ Searching("table")
    /\ \/ /\ Answers
          /\ \E order \in Sorted(ranked) :
                final_array' = SubSeq(order, 1, results_num(Len(order)))
       \/ Fails /\ final_array' = <<>>
    /\ place' = "respond"
    /\ UNCHANGED <<listed, matched, uncounted, complete_then, seen_then, quiet>>

forget_some ==
    /\ request' = {} /\ listed' = {} /\ uncounted' = {} /\ final_array' = <<>>
    /\ complete_then' = {} /\ seen_then' = {} /\ quiet' = TRUE /\ trouble' = FALSE
    /\ UNCHANGED matched

(* The locals of the search are gone.                                      *)
forget ==
    /\ request' = {} /\ listed' = {} /\ matched' = {} /\ uncounted' = {} /\ final_array' = <<>>
    /\ complete_then' = {} /\ seen_then' = {} /\ quiet' = TRUE /\ trouble' = FALSE

send_nothing ==
    /\ place = "respond"
    /\ place' = "idle"
    /\ forget
    /\ UNCHANGED <<index, search_results, connection, net_vars>>

send_response ==
    /\ place = "respond"
    /\ place' = "idle"
    /\ \E s \in Slot : session[s] = "serving" /\ session' = [session EXCEPT ![s] = "writing"]
    /\ forget
    /\ UNCHANGED <<index, search_results, connection, listener, handlers>>

Handler ==
    \/ on_accept
    \/ \E s \in Slot : on_read(s) \/ on_write(s) \/ close(s)

Search == get_urls_list_by_words \/ count_url_words \/ get_words_urls_table \/ send_response

Thread == Handler \/ Search \/ run_returns

Next ==
    \/ main
    \/ Thread
    \/ Connect
    \/ \E s \in Slot : Receive(s) \/ Lose(s) \/ Sent(s)
    \/ Store

Spec == Init /\ [][Next]_vars

(* main and the thread go on, and every read and write is over after 30    *)
(* seconds; nothing is assumed of the accept, the clients or the spider.   *)
FairSpec ==
    /\ Spec
    /\ WF_vars(main) /\ WF_vars(Thread)
    /\ \A s \in Slot : WF_vars(Lose(s))
-----------------------------------------------------------------------------
Shown == {final_array[i] : i \in DOMAIN final_array}

(***************************************************************************)
(* While the spider writes nothing, a search shows the addresses with all  *)
(* the words, and the limit keeps the best (server_interface.cpp:170-240). *)
(***************************************************************************)
QuietSearchIsExact ==
    place = "respond" /\ quiet /\ ~ trouble =>
        LET exact == {u \in Url \ Quoted : Tables!HasAll(u, request)}
        IN /\ Shown \subseteq exact
           /\ Len(final_array) \in {Cardinality(exact), search_results}
           /\ \A i, j \in DOMAIN final_array : i < j => Total(final_array[i]) >= Total(final_array[j])
           /\ \A u \in exact \ Shown, shown \in Shown : Total(u) =< Total(shown)

(***************************************************************************)
(* Whatever the spider writes meanwhile, an address that had all the words *)
(* when the search began is shown, unless the limit is reached: three      *)
(* queries that see three states of the tables lose no address.  The       *)
(* exception is an address with an apostrophe (data_base.cpp:181).         *)
(***************************************************************************)
CompletePagesAreFound ==
    place = "respond" /\ ~ trouble =>
        \/ complete_then \ Quoted \subseteq Shown
        \/ Len(final_array) = search_results

(***************************************************************************)
(* An address without some of the words is shown only if it had none of    *)
(* them when the search began: the one way is map's operator [] giving 0   *)
(* to an address that came later (server_interface.cpp:202).               *)
(***************************************************************************)
IncompleteOnlyIfLate ==
    place = "respond" /\ ~ trouble =>
        \A u \in Shown : Tables!HasAll(u, request) \/ u \notin seen_then

(***************************************************************************)
(* "addresses with fewer words take no part in what follows"               *)
(* (server_interface.cpp:183).                                             *)
(***************************************************************************)
OnlyCompletePages ==
    place = "respond" /\ ~ trouble => \A u \in Shown : Tables!HasAll(u, request)

(***************************************************************************)
(* A request that was received is answered: no query, client or accept     *)
(* that takes its time keeps it from the thread (server.hpp:83-113).       *)
(***************************************************************************)
RequestsAreAnswered == \A s \in Slot : session[s] = "request" ~> session[s] = "writing"

(***************************************************************************)
(* After a failed accept the server takes no connection any more, and when *)
(* the clients it still has fall silent it ends (server.hpp:230-234,       *)
(* diploma_thesis_2.cpp:91): it does not stay, deaf.                       *)
(***************************************************************************)
DeafServerEnds ==
    <>[](\A s \in Slot : session[s] # "request") => (listener = "stopped" ~> place = "ended")
=============================================================================
