----------------------------- MODULE TasksQueue -----------------------------
(***************************************************************************)
(* The queue of addresses the spider's threads share (tasks_queue.hpp,     *)
(* tasks_queue.cpp).  Every operation holds queue_mutex for the whole of   *)
(* its access to the data, so each locked region is one action here; the   *)
(* one place where a thread gives the lock up in the middle is the wait on *)
(* data_cond inside sq_pop.                                                *)
(*                                                                         *)
(* sq_pop is two locked regions, not one: is_empty() locks and unlocks,    *)
(* and only then is the lock taken again for the wait and the pop.  What   *)
(* the first region saw may be stale in the second.                        *)
(*                                                                         *)
(* The threads that call these operations are in module Spider.            *)
(***************************************************************************)
EXTENDS Naturals, Sequences

CONSTANTS Url,      \* the addresses
          Thread    \* the threads that may pop

VARIABLES urls_queue,    \* the addresses to scan, in order of arrival
          list_of_urls,  \* every address ever pushed
          sleepers       \* the threads blocked on data_cond

url_item == [url : Url, url_depth : Nat]

TypeOK ==
    /\ urls_queue \in Seq(url_item)
    /\ list_of_urls \in SUBSET Url
    /\ sleepers \in SUBSET Thread

Init ==
    /\ urls_queue = <<>>
    /\ list_of_urls = {}
    /\ sleepers = {}

(* not_empty(), is_empty(): the queue's state under the lock; the caller   *)
(* acts on the answer after the lock is released.                          *)
is_empty == urls_queue = <<>>

(* Mistakes in the operations below that the properties must catch: the    *)
(* mutants of PROJECT.json.                                                *)
insert_twice(item) ==
    /\ list_of_urls' = list_of_urls \cup {item.url}
    /\ urls_queue' = Append(urls_queue, item)

insert_item(item) ==
    /\ list_of_urls' = list_of_urls \cup {item}
    /\ urls_queue' = Append(urls_queue, item)

insert_front(item) ==
    \/ /\ item.url \notin list_of_urls
       /\ list_of_urls' = list_of_urls \cup {item.url}
       /\ urls_queue' = <<item>> \o urls_queue
    \/ item.url \in list_of_urls /\ UNCHANGED <<urls_queue, list_of_urls>>

(* An address already listed is dropped, whatever its depth.               *)
insert(item) ==
    \/ /\ item.url \notin list_of_urls
       /\ list_of_urls' = list_of_urls \cup {item.url}
       /\ urls_queue' = Append(urls_queue, item)
    \/ item.url \in list_of_urls /\ UNCHANGED <<urls_queue, list_of_urls>>

(* Another mistake: the waiting threads are not notified.                  *)
push_silently(item) == insert(item) /\ UNCHANGED sleepers

(* sq_push: notify_all runs whether or not the address was new.            *)
sq_push(item) == insert(item) /\ sleepers' = {}

(* sq_pop, second region, predicate false: the lock is released and the    *)
(* thread blocks, in one step, because the wait holds queue_mutex and so   *)
(* does every notify_all.                                                  *)
sq_pop_wait(t) ==
    /\ t \notin sleepers
    /\ is_empty
    /\ sleepers' = sleepers \cup {t}
    /\ UNCHANGED <<urls_queue, list_of_urls>>

(* sq_pop, second region, predicate true: the oldest address is taken.     *)
(* The "else" branch that would sleep and return true without a task is    *)
(* unreachable, the wait having just established the opposite.             *)
sq_pop_take(t) ==
    /\ t \notin sleepers
    /\ ~ is_empty
    /\ urls_queue' = Tail(urls_queue)
    /\ UNCHANGED <<list_of_urls, sleepers>>

(* A condition variable may wake a thread nobody notified; the wait then   *)
(* evaluates its predicate again.                                          *)
spurious_wakeup(t) ==
    /\ t \in sleepers
    /\ sleepers' = sleepers \ {t}
    /\ UNCHANGED <<urls_queue, list_of_urls>>
-----------------------------------------------------------------------------
(* No wakeup is lost in data_cond: a thread only stays blocked while there *)
(* is nothing to pop, because sq_push notifies under the lock the waiter   *)
(* tested its predicate under.                                             *)
NoLostWakeup == sleepers # {} => is_empty
=============================================================================
