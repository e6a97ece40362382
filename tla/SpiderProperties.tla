-------------------------- MODULE SpiderProperties --------------------------
(***************************************************************************)
(* What the spider gets right, and what its comments and messages claim of *)
(* it that it does not.  SpiderProofs proves the safety part for every     *)
(* value of the constants; MCSpider checks all of it on small webs.        *)
(***************************************************************************)
EXTENDS Spider

(* The addresses a page at u leads to, if the network yields one.          *)
Yields(u) == web[u].status \in {"ok", "redirect"}
Leads(u) == IF Yields(u) THEN web[u].urls ELSE {}

(* Whether scanning u queues what it leads to, given its depth.            *)
ExpandsAt(u, depth) ==
    \/ web[u].status = "redirect"
    \/ web[u].status = "ok" /\ MayExpand(depth)
Expands(u) == ExpandsAt(u, depth_of[u])

UrlsOf(queue) == {queue[i].url : i \in DOMAIN queue}
Queued == UrlsOf(urls_queue)
InHand == {task[w].url : w \in {v \in Worker : pc[v] \in Holding}}
Working == \E w \in Worker : pc[w] \in Started
AllExited == Worker # {} /\ \A w \in Worker : pc[w] = "exited"
-----------------------------------------------------------------------------
(* The stage of an address follows from where its task is: in the queue,   *)
(* in the hands of a work thread, or done.                                 *)
StageOf(u) == CASE u \in Queued -> "waiting"
                [] u \in InHand -> "active"
                [] u \in finished -> "finished"
                [] OTHER -> "unseen"
stage == [u \in Url |-> StageOf(u)]
leads == [u \in Url |-> Leads(u)]

F == INSTANCE Frontier WITH Address <- Url, Seed <- start_url

(* The pool crawls as Frontier promises, however its threads interleave:   *)
(* no address is scanned twice or goes back to the queue, none is scanned  *)
(* that no page being scanned led to (sq_push, sq_pop, process_next_task). *)
ImplementsFrontier == F!Spec

(* A work thread stays blocked in sq_pop only while nothing is queued,     *)
(* although sq_pop's first look at the queue is stale by then.             *)
SleepersSeeEmptyQueue == Queue!NoLostWakeup

(* Once every work thread has left work(), nothing was left behind:        *)
(* nothing is queued, every listed address was scanned, and every link of  *)
(* an expanded page was listed.  task_generator_finished reads the in_work *)
(* flags one by one and without a lock, and a thread that has just taken a *)
(* task has not set its flag yet, so threads do leave too early: but never *)
(* the last one.                                                           *)
CrawlComplete ==
    AllExited =>
        /\ urls_queue = <<>>
        /\ start_url \in finished
        /\ finished = list_of_urls
        /\ \A u \in finished : Expands(u) => Leads(u) \subseteq list_of_urls

(* The depth an address is queued at is the length of a path of links from *)
(* start_url, every page on which was allowed to be expanded; only a       *)
(* redirection leads deeper than max_depth (work_function, sq_push).       *)
DepthOnPath ==
    /\ start_url \in list_of_urls => depth_of[start_url] = 1
    /\ \A u \in list_of_urls \ {start_url} :
          \E v \in list_of_urls :
             /\ u \in Leads(v)
             /\ Expands(v)
             /\ depth_of[u] = depth_of[v] + 1

(* While the connection is missing or deleted no work thread can use it:   *)
(* none is created without it, and ~Spider joins all of them before the    *)
(* delete.                                                                 *)
NoUseAfterDelete ==
    data_base # "open" => \A w \in Worker : pc[w] \in {"none", "exited"}

(* th_vector, which work threads index and iterate over without a lock,    *)
(* does not grow once one of them is past the start gate.                  *)
VectorGrowsAlone == [][th_count' # th_count => ~ Working]_vars

(* The unsynchronised total_pages_processed++ can lose a page but never    *)
(* invents one.                                                            *)
CounterNeverOver ==
    total_pages_processed <=
        Cardinality(finished) + Cardinality({w \in Worker : pc[w] = "clear"})

(* Once a work thread has started, the crawl comes to rest with nothing    *)
(* queued or in hand, unless the process is terminated or a fetch never    *)
(* returns: no schedule lets the threads leave work behind or starve it.   *)
Drains ==
    Working ~> \/ main = "aborted"
               \/ \E w \in Worker : pc[w] = "hung"
               \/ Queued = {} /\ InHand = {}
-----------------------------------------------------------------------------
(* One work thread alone.  within[n] is the set of addresses that a        *)
(* breadth-first search of the web reaches up to depth n.                  *)
within[n \in 0 .. Cardinality(Url)] ==
    IF n = 0 THEN {}
    ELSE {start_url} \cup within[n - 1]
         \cup UNION {web[u].urls : u \in {v \in within[n - 1] : ExpandsAt(v, n - 1)}}

(* A single work thread searches breadth-first: no address is queued at a  *)
(* depth other than its distance, and at the end every address within      *)
(* max_depth was scanned.  (Two threads may queue an address too deep, and *)
(* then not expand it; sq_push ignores the shorter path that comes later.) *)
BreadthFirst ==
    Worker = {0} =>
        /\ \A u \in list_of_urls : u \in within[depth_of[u]] \ within[depth_of[u] - 1]
        /\ AllExited => finished = within[Cardinality(Url)]

(* A single work thread that has started ends the program: it cannot be    *)
(* overtaken between is_empty() and the wait in sq_pop, so it never blocks *)
(* there.                                                                  *)
SoleWorkerFinishes ==
    Working /\ Worker = {0} ~> \/ main \in {"end", "aborted"}
                               \/ pc[0] = "hung"
-----------------------------------------------------------------------------
(* spider.hpp: start_work_threads is to create and to start the work       *)
(* threads.  start_work is set and notified without threads_start_mutex,   *)
(* so a thread can find it false, and then block after the notification.   *)
WorkersStart ==
    main = "join" ~> \/ \A w \in Worker : pc[w] \in Started \cup {"none"}
                     \/ main = "aborted"

(* tasks_queue.hpp: empty_sleep_for_time is the timeout of a thread that   *)
(* has nothing to do.  The wait on data_cond has none: a thread that was   *)
(* overtaken between is_empty() and the wait can be blocked for ever, and  *)
(* ~Spider with it.                                                        *)
IdleWaitIsBounded ==
    \A w \in Worker : w \in sleepers ~> w \notin sleepers

(* get_queue_state: "urls already have been processed".  Two increments    *)
(* can overlap, and one is lost.                                           *)
ProcessedIsExact ==
    main = "end" => total_pages_processed = Cardinality(finished)
=============================================================================
