------------------------------- MODULE Spider -------------------------------
(***************************************************************************)
(* The spider (spider.hpp, spider.cpp): the main thread that builds the    *)
(* pool of work threads, releases them, and joins them; and the work       *)
(* threads, which take addresses from the shared queue, fetch the page,    *)
(* index it and queue the addresses it leads to, until they conclude that  *)
(* nothing is left.                                                        *)
(*                                                                         *)
(* An action is what a thread does between two points where another thread *)
(* can interfere: one locked region, or one read or write of a variable    *)
(* that is shared without a lock (start_work, in_work,                     *)
(* total_pages_processed).  A race on one of these is an interleaving of   *)
(* such reads and writes, each of which is a single machine access.        *)
(*                                                                         *)
(* Definitions that no action uses (DeleteEarly, PassGate, CheckFlagsOnly, *)
(* ScanIdleFlags, CountEveryTry, LinksOfAny) are mistakes that the         *)
(* properties must catch: the mutants of PROJECT.json.                     *)
(***************************************************************************)
EXTENDS Integers, Sequences, FiniteSets

CONSTANTS
    Url,          \* every address the web mentions
    start_url,    \* URLs.start_url of spider.ini
    Webs,         \* the webs the crawl may meet, see Answer
    max_depth,    \* Search_settings.search_depth, stored unsigned
    cores,        \* what std::thread::hardware_concurrency() returns
    max_threads,  \* Process_settings.max_threads
    UIntSize      \* how many values an unsigned int has: 2^32 in the code

(* What scanning an address comes to.  Every address is scanned at most    *)
(* once, so one answer per address covers every outcome of the network.    *)
(*   "ok"       200: urls are the links found                              *)
(*   "redirect" 301: urls is the one new location                          *)
(*   "refused"  forbidden or unknown host type, another status, a failure  *)
(*   "silent"   https and the host name cannot be set: session_ssl::run    *)
(*              returns without starting anything, nobody fulfils the      *)
(*              promise, and future.get() never returns                    *)
(*   "throws"   an exception that no caller catches, such as a regex_error *)
(* words tells how storing the words of the page ends: they are "stored";  *)
(* there are "none", or the database does not accept the address; or it    *)
(* "throws", from the one query of add_url_words_to_database that runs     *)
(* outside a try block (get_word_url_exist).                               *)
Answer == [status : {"ok", "redirect", "refused", "silent", "throws"},
           urls : SUBSET Url, words : {"stored", "none", "throws"}]

ASSUME SpiderAssumption ==
    /\ start_url \in Url
    /\ Webs \subseteq [Url -> Answer]
    /\ max_depth \in Nat
    /\ cores \in Nat
    /\ max_threads \in Int
    /\ UIntSize \in Nat \ {0}

(* An unsigned int that is stored in an int.                               *)
ToInt(n) == IF 2 * n < UIntSize THEN n ELSE n - UIntSize

(* cores - 1 and the comparison are unsigned, the result is an int.        *)
cores_num ==
    LET others == (cores - 1) % UIntSize
        wanted == max_threads % UIntSize
    IN  ToInt(IF others < wanted THEN others ELSE wanted)

(* The indices of th_vector; none if cores_num is not positive.            *)
Worker == 0 .. cores_num - 1

VARIABLES
    urls_queue, list_of_urls, sleepers,  \* pool_queue: see TasksQueue
    web,          \* the answer every address gives
    main,         \* where the main thread is
    th_count,     \* th_vector.size()
    joined,       \* how many of its threads the destructor has joined
    start_work,   \* the flag the work threads wait for
    gate,         \* the work threads blocked on start_threads
    pc,           \* where each work thread is
    task,         \* the task each work thread holds in process_next_task
    found,        \* its new_urls_set: what is still to be pushed
    in_work,      \* th_vector[i].in_work
    seen,         \* how many in_work flags task_generator_finished has read
    counter,      \* the value being incremented, between read and write
    total_pages_processed,
    data_base,    \* "none", "open", "failed", "deleted"
    indexed,      \* the addresses whose words are in the database
    depth_of,     \* history: the depth an address was queued at, 0 before
    finished      \* history: the addresses process_next_task is done with

Queue == INSTANCE TasksQueue WITH Thread <- Worker

queue_vars == <<urls_queue, list_of_urls, sleepers>>
main_vars == <<main, th_count, joined, start_work>>
flag_vars == <<in_work, seen>>
count_vars == <<counter, total_pages_processed>>
base_vars == <<data_base, indexed>>
history_vars == <<depth_of, finished>>
vars == <<queue_vars, web, main_vars, gate, pc, task, found, flag_vars,
          count_vars, base_vars, history_vars>>

(* A thread that holds no task; real tasks have a depth of at least 1.     *)
NoTask == [url |-> start_url, url_depth |-> 0]
-----------------------------------------------------------------------------
(* The places a work thread can be in.                                     *)
(*   gate      about to take threads_start_mutex and test start_work       *)
(*   block     has tested it, found it false, and still holds the mutex    *)
(*   check     at not_empty() in task_generator_finished                   *)
(*   scan      reading the in_work flags there                             *)
(*   try       at is_empty() in sq_pop                                     *)
(*   pop       at the second locked region of sq_pop                       *)
(*   popped    holds a task, in_work not yet set                           *)
(*   fetch     in work_function                                            *)
(*   hung      in future.get(), which will never return                    *)
(*   index     in add_url_words_to_database                                *)
(*   push      pushing the addresses found                                 *)
(*   count     at ++total_pages_processed; counted: read but not written   *)
(*   clear     about to clear in_work                                      *)
(*   exited    out of work()                                               *)
Place == {"none", "gate", "block", "check", "scan", "try", "pop", "popped",
          "fetch", "hung", "index", "push", "count", "counted", "clear",
          "exited"}

Holding == {"popped", "fetch", "hung", "index", "push", "count", "counted",
            "clear"}
Flagged == Holding \ {"popped"}
Started == Place \ {"none", "gate", "block"}

TypeOK ==
    /\ Queue!TypeOK
    /\ web \in [Url -> Answer]
    /\ main \in {"start_db", "create", "submit", "flag", "notify", "join",
                 "end", "aborted"}
    /\ th_count \in Nat
    /\ joined \in Nat
    /\ start_work \in BOOLEAN
    /\ gate \in SUBSET Worker
    /\ pc \in [Worker -> Place]
    /\ task \in [Worker -> Queue!url_item]
    /\ found \in [Worker -> SUBSET Url]
    /\ in_work \in [Worker -> BOOLEAN]
    /\ seen \in [Worker -> Nat]
    /\ counter \in [Worker -> Nat]
    /\ total_pages_processed \in Nat
    /\ data_base \in {"none", "open", "failed", "deleted"}
    /\ indexed \in SUBSET Url
    /\ depth_of \in [Url -> Nat]
    /\ finished \in SUBSET Url

Init ==
    /\ Queue!Init
    /\ web \in Webs
    /\ main = "start_db"
    /\ th_count = 0
    /\ joined = 0
    /\ start_work = FALSE
    /\ gate = {}
    /\ pc = [w \in Worker |-> "none"]
    /\ task = [w \in Worker |-> NoTask]
    /\ found = [w \in Worker |-> {}]
    /\ in_work = [w \in Worker |-> FALSE]
    /\ seen = [w \in Worker |-> 0]
    /\ counter = [w \in Worker |-> 0]
    /\ total_pages_processed = 0
    /\ data_base = "none"
    /\ indexed = {}
    /\ depth_of = [u \in Url |-> 0]
    /\ finished = {}
-----------------------------------------------------------------------------
(***************************************************************************)
(* The main thread: start_spider, start_work_threads and, when main()      *)
(* returns, the destructor of the spider.                                  *)
(***************************************************************************)
StartDatabase ==
    /\ main = "start_db"
    /\ \/ data_base' = "open" /\ main' = "create"
       \/ data_base' = "failed" /\ main' = "join"
    /\ UNCHANGED <<queue_vars, web, th_count, joined, start_work, gate, pc, task,
                   found, flag_vars, count_vars, indexed, history_vars>>

(* The new thread runs work() at once, before the next one is created.     *)
CreateThread ==
    /\ main = "create"
    /\ th_count < cores_num
    /\ pc' = [pc EXCEPT ![th_count] = "gate"]
    /\ th_count' = th_count + 1
    /\ UNCHANGED <<queue_vars, web, main, joined, start_work, gate, task, found,
                   flag_vars, count_vars, base_vars, history_vars>>

AllCreated ==
    /\ main = "create"
    /\ th_count >= cores_num
    /\ main' = "submit"
    /\ UNCHANGED <<queue_vars, web, th_count, joined, start_work, gate, pc, task,
                   found, flag_vars, count_vars, base_vars, history_vars>>

SubmitStartUrl ==
    /\ main = "submit"
    /\ Queue!sq_push([url |-> start_url, url_depth |-> 1])
    /\ depth_of' = [depth_of EXCEPT ![start_url] = 1]
    /\ main' = "flag"
    /\ UNCHANGED <<web, th_count, joined, start_work, gate, pc, task, found,
                   flag_vars, count_vars, base_vars, finished>>

(* The flag is written, and then notified, without threads_start_mutex.    *)
SetStartWork ==
    /\ main = "flag"
    /\ start_work' = TRUE
    /\ main' = "notify"
    /\ UNCHANGED <<queue_vars, web, th_count, joined, gate, pc, task, found,
                   flag_vars, count_vars, base_vars, history_vars>>

NotifyStart ==
    /\ main = "notify"
    /\ gate' = {}
    /\ main' = "join"
    /\ UNCHANGED <<queue_vars, web, th_count, joined, start_work, pc, task, found,
                   flag_vars, count_vars, base_vars, history_vars>>

(* ~Spider: the threads are joined in the order of th_vector ...           *)
JoinThread ==
    /\ main = "join"
    /\ joined < th_count
    /\ pc[joined] = "exited"
    /\ joined' = joined + 1
    /\ UNCHANGED <<queue_vars, web, main, th_count, start_work, gate, pc, task,
                   found, flag_vars, count_vars, base_vars, history_vars>>

DeleteEarly ==
    /\ main = "join"
    /\ data_base' = "deleted"
    /\ main' = "end"
    /\ UNCHANGED <<queue_vars, web, th_count, joined, start_work, gate, pc, task,
                   found, flag_vars, count_vars, indexed, history_vars>>

(* ... and only then is the database connection deleted.                   *)
DeleteDatabase ==
    /\ main = "join"
    /\ joined = th_count
    /\ data_base' = "deleted"
    /\ main' = "end"
    /\ UNCHANGED <<queue_vars, web, th_count, joined, start_work, gate, pc, task,
                   found, flag_vars, count_vars, indexed, history_vars>>

MainStep ==
    \/ StartDatabase \/ CreateThread \/ AllCreated \/ SubmitStartUrl
    \/ SetStartWork \/ NotifyStart \/ JoinThread \/ DeleteDatabase
-----------------------------------------------------------------------------
(***************************************************************************)
(* A work thread waits for start_work.  Work threads exclude each other    *)
(* here by threads_start_mutex; the main thread does not take it.          *)
(***************************************************************************)
Goto(w, place) == pc' = [pc EXCEPT ![w] = place]

PassGate(w) ==
    /\ pc[w] = "gate"
    /\ Goto(w, "check")
    /\ UNCHANGED <<queue_vars, web, main_vars, gate, task, found, flag_vars,
                   count_vars, base_vars, history_vars>>

GateTest(w) ==
    /\ pc[w] = "gate"
    /\ w \notin gate
    /\ \A v \in Worker : pc[v] # "block"
    /\ Goto(w, IF start_work THEN "check" ELSE "block")
    /\ UNCHANGED <<queue_vars, web, main_vars, gate, task, found, flag_vars,
                   count_vars, base_vars, history_vars>>

(* The mutex is released and the thread blocks on start_threads.           *)
GateBlock(w) ==
    /\ pc[w] = "block"
    /\ gate' = gate \cup {w}
    /\ Goto(w, "gate")
    /\ UNCHANGED <<queue_vars, web, main_vars, task, found, flag_vars,
                   count_vars, base_vars, history_vars>>

CheckFlagsOnly(w) ==
    /\ pc[w] = "check"
    /\ Goto(w, "scan")
    /\ UNCHANGED <<queue_vars, web, main_vars, gate, task, found, flag_vars,
                   count_vars, base_vars, history_vars>>

(* task_generator_finished: first the queue, under its lock ...            *)
CheckQueue(w) ==
    /\ pc[w] = "check"
    /\ Goto(w, IF Queue!is_empty THEN "scan" ELSE "try")
    /\ UNCHANGED <<queue_vars, web, main_vars, gate, task, found, flag_vars,
                   count_vars, base_vars, history_vars>>

ScanIdleFlags(w) ==
    /\ pc[w] = "scan"
    /\ \/ /\ seen[w] < th_count
          /\ ~ in_work[seen[w]]
          /\ Goto(w, "try")
          /\ seen' = [seen EXCEPT ![w] = 0]
       \/ /\ seen[w] < th_count
          /\ in_work[seen[w]]
          /\ seen' = [seen EXCEPT ![w] = @ + 1]
          /\ UNCHANGED pc
    /\ UNCHANGED <<queue_vars, web, main_vars, gate, task, found, in_work,
                   count_vars, base_vars, history_vars>>

(* ... then the in_work flags one after the other, under none.             *)
ScanFlags(w) ==
    /\ pc[w] = "scan"
    /\ \/ /\ seen[w] = th_count
          /\ Goto(w, "exited")
          /\ seen' = [seen EXCEPT ![w] = 0]
       \/ /\ seen[w] < th_count
          /\ in_work[seen[w]]
          /\ Goto(w, "try")
          /\ seen' = [seen EXCEPT ![w] = 0]
       \/ /\ seen[w] < th_count
          /\ ~ in_work[seen[w]]
          /\ seen' = [seen EXCEPT ![w] = @ + 1]
          /\ UNCHANGED pc
    /\ UNCHANGED <<queue_vars, web, main_vars, gate, task, found, in_work,
                   count_vars, base_vars, history_vars>>

CountEveryTry(w) ==
    /\ pc[w] = "try"
    /\ Goto(w, IF Queue!is_empty THEN "check" ELSE "pop")
    /\ total_pages_processed' = total_pages_processed + 1
    /\ UNCHANGED <<queue_vars, web, main_vars, gate, task, found, flag_vars,
                   counter, base_vars, history_vars>>

(* sq_pop's first region: an empty queue sends the thread to sleep for     *)
(* empty_sleep_for_time and then back to the loop in work().               *)
TryPop(w) ==
    /\ pc[w] = "try"
    /\ \/ /\ Queue!is_empty
          /\ Goto(w, "check")
          /\ in_work' = [in_work EXCEPT ![w] = FALSE]
       \/ /\ ~ Queue!is_empty
          /\ Goto(w, "pop")
          /\ UNCHANGED in_work
    /\ UNCHANGED <<queue_vars, web, main_vars, gate, task, found, seen,
                   count_vars, base_vars, history_vars>>

PopWait(w) ==
    /\ pc[w] = "pop"
    /\ Queue!sq_pop_wait(w)
    /\ UNCHANGED <<web, main_vars, gate, pc, task, found, flag_vars,
                   count_vars, base_vars, history_vars>>

PopTake(w) ==
    /\ pc[w] = "pop"
    /\ Queue!sq_pop_take(w)
    /\ task' = [task EXCEPT ![w] = Head(urls_queue)]
    /\ Goto(w, "popped")
    /\ UNCHANGED <<web, main_vars, gate, found, flag_vars, count_vars,
                   base_vars, history_vars>>

SetInWork(w) ==
    /\ pc[w] = "popped"
    /\ in_work' = [in_work EXCEPT ![w] = TRUE]
    /\ Goto(w, "fetch")
    /\ UNCHANGED <<queue_vars, web, main_vars, gate, task, found, seen,
                   count_vars, base_vars, history_vars>>

(* work_function: fetch the page and, if it is one, collect its links.     *)
(* max_depth - 1 is unsigned; only the links of a page are held to it, the *)
(* target of a redirection is not.                                         *)
MayExpand(d) == d <= (max_depth - 1) % UIntSize

LinksOfAny(w) == web[task[w].url].urls

Links(w) ==
    LET answer == web[task[w].url]
    IN  IF answer.status = "redirect" \/ MayExpand(task[w].url_depth)
        THEN answer.urls ELSE {}

FetchPage(w) ==
    /\ pc[w] = "fetch"
    /\ web[task[w].url].status \in {"ok", "redirect"}
    /\ found' = [found EXCEPT ![w] = Links(w)]
    /\ Goto(w, "index")
    /\ UNCHANGED <<queue_vars, web, main_vars, gate, task, flag_vars,
                   count_vars, base_vars, history_vars>>

FetchNothing(w) ==
    /\ pc[w] = "fetch"
    /\ \/ web[task[w].url].status = "refused" /\ Goto(w, "count")
       \/ web[task[w].url].status = "silent" /\ Goto(w, "hung")
    /\ UNCHANGED <<queue_vars, web, main_vars, gate, task, found, flag_vars,
                   count_vars, base_vars, history_vars>>

(* add_url_words_to_database, under data_base_mutex: a redirection has no  *)
(* words, and without words nothing is written.                            *)
AddWords(w) ==
    LET answer == web[task[w].url] IN
    /\ pc[w] = "index"
    /\ answer.status = "ok" => answer.words # "throws"
    /\ indexed' = IF answer.status = "ok" /\ answer.words = "stored"
                  THEN indexed \cup {task[w].url} ELSE indexed
    /\ Goto(w, IF found[w] = {} THEN "count" ELSE "push")
    /\ UNCHANGED <<queue_vars, web, main_vars, gate, task, found, flag_vars,
                   count_vars, data_base, history_vars>>

(* An exception that leaves work() ends the process (std::terminate).      *)
Throw(w) ==
    LET answer == web[task[w].url] IN
    /\ \/ pc[w] = "fetch" /\ answer.status = "throws"
       \/ pc[w] = "index" /\ answer.status = "ok" /\ answer.words = "throws"
    /\ main' = "aborted"
    /\ UNCHANGED <<queue_vars, web, th_count, joined, start_work, gate, pc, task,
                   found, flag_vars, count_vars, base_vars, history_vars>>

(* The addresses found are pushed one by one, in the order of a std::set   *)
(* of strings: any order here.                                             *)
PushFound(w) ==
    /\ pc[w] = "push"
    /\ \E u \in found[w] :
          LET item == [url |-> u, url_depth |-> task[w].url_depth + 1] IN
          /\ Queue!sq_push(item)
          /\ depth_of' = IF u \in list_of_urls THEN depth_of
                         ELSE [depth_of EXCEPT ![u] = item.url_depth]
          /\ found' = [found EXCEPT ![w] = @ \ {u}]
          /\ Goto(w, IF found[w] = {u} THEN "count" ELSE "push")
    /\ UNCHANGED <<web, main_vars, gate, task, flag_vars, count_vars, base_vars,
                   finished>>

(* total_pages_processed++ on a plain int: a read, then a write.           *)
CountRead(w) ==
    /\ pc[w] = "count"
    /\ counter' = [counter EXCEPT ![w] = total_pages_processed]
    /\ Goto(w, "counted")
    /\ UNCHANGED <<queue_vars, web, main_vars, gate, task, found, flag_vars,
                   total_pages_processed, base_vars, history_vars>>

CountWrite(w) ==
    /\ pc[w] = "counted"
    /\ total_pages_processed' = counter[w] + 1
    /\ counter' = [counter EXCEPT ![w] = 0]
    /\ Goto(w, "clear")
    /\ UNCHANGED <<queue_vars, web, main_vars, gate, task, found, flag_vars,
                   base_vars, history_vars>>

(* The end of process_next_task; task is a local variable of it.           *)
ClearInWork(w) ==
    /\ pc[w] = "clear"
    /\ in_work' = [in_work EXCEPT ![w] = FALSE]
    /\ task' = [task EXCEPT ![w] = NoTask]
    /\ finished' = finished \cup {task[w].url}
    /\ Goto(w, "check")
    /\ UNCHANGED <<queue_vars, web, main_vars, gate, found, seen, count_vars,
                   base_vars, depth_of>>

(* A condition variable may wake a thread that nobody notified.            *)
SpuriousWakeup(w) ==
    /\ \/ w \in gate /\ gate' = gate \ {w} /\ UNCHANGED queue_vars
       \/ Queue!spurious_wakeup(w) /\ UNCHANGED gate
    /\ UNCHANGED <<web, main_vars, pc, task, found, flag_vars, count_vars,
                   base_vars, history_vars>>

WorkerStep(w) ==
    \/ GateTest(w) \/ GateBlock(w) \/ CheckQueue(w) \/ ScanFlags(w)
    \/ TryPop(w) \/ PopWait(w) \/ PopTake(w) \/ SetInWork(w)
    \/ FetchPage(w) \/ FetchNothing(w) \/ AddWords(w) \/ Throw(w)
    \/ PushFound(w) \/ CountRead(w) \/ CountWrite(w) \/ ClearInWork(w)
-----------------------------------------------------------------------------
Running == main # "aborted"

Next ==
    /\ Running
    /\ \/ MainStep
       \/ \E w \in Worker : WorkerStep(w) \/ SpuriousWakeup(w)

Spec == Init /\ [][Next]_vars

(* Every thread that can take a step takes one: the operating system runs  *)
(* every runnable thread, sleep_for ends, a fetch ends with the timeouts   *)
(* of the session and the resolver, and a mutex is held for a bounded time *)
(* by each of finitely many threads.  A spurious wakeup may never come.    *)
FairSpec ==
    /\ Spec
    /\ WF_vars(Running /\ MainStep)
    /\ \A w \in Worker : WF_vars(Running /\ WorkerStep(w))
=============================================================================
