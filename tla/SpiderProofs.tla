---------------------------- MODULE SpiderProofs ----------------------------
(***************************************************************************)
(* Proofs of the safety properties of the spider's pool of work threads,   *)
(* for every web, every number of work threads and every depth.            *)
(***************************************************************************)
EXTENDS SpiderProperties, TLAPS, FiniteSetTheorems, Induction

(* The unsigned arithmetic of start_work_threads yields an int.            *)
LEMMA CoresNumType == cores_num \in Int
<1>1. /\ (cores - 1) % UIntSize \in Int
      /\ max_threads % UIntSize \in Int
  BY SpiderAssumption
<1>2. QED
  BY <1>1, SpiderAssumption DEF cores_num, ToInt

LEMMA WorkerType == Worker \subseteq Nat
BY CoresNumType DEF Worker

(* What sq_push leaves in the queue is still a sequence of items.          *)
LEMMA PushType ==
    ASSUME Queue!TypeOK, NEW item \in Queue!url_item, Queue!sq_push(item)
    PROVE  Queue!TypeOK'
<1>1. item.url \in Url
  BY DEF Queue!url_item
<1>2. Append(urls_queue, item) \in Seq(Queue!url_item)
  BY DEF Queue!TypeOK
<1>3. QED
  BY <1>1, <1>2 DEF Queue!TypeOK, Queue!sq_push, Queue!insert

(* Type correctness of every variable: what the queue stores are items,    *)
(* what a thread holds is one, the counters and depths never get negative. *)
THEOREM TypeCorrect == Spec => []TypeOK
<1>1. Init => TypeOK
  <2> SUFFICES ASSUME Init PROVE TypeOK
    OBVIOUS
  <2> USE SpiderAssumption DEF Init
  <2>1. Queue!TypeOK
    BY DEF Queue!Init, Queue!TypeOK
  <2>2. /\ pc \in [Worker -> Place]
        /\ task \in [Worker -> Queue!url_item]
    BY DEF Place, NoTask, Queue!url_item
  <2>3. QED
    BY <2>1, <2>2 DEF TypeOK
<1>2. ASSUME TypeOK, [Next]_vars
      PROVE  TypeOK'
  <2> USE <1>2, SpiderAssumption, WorkerType
      DEF TypeOK, Queue!TypeOK, Goto, Place,
          queue_vars, main_vars, flag_vars, count_vars, base_vars, history_vars
  <2>1. CASE StartDatabase
    BY <2>1 DEF StartDatabase
  <2>2. CASE CreateThread
    <3>1. pc' \in [Worker -> Place]
      BY <2>2 DEF CreateThread
    <3>2. th_count' \in Nat
      BY <2>2 DEF CreateThread
    <3>3. QED
      BY <2>2, <3>1, <3>2 DEF CreateThread
  <2>3. CASE AllCreated
    BY <2>3 DEF AllCreated
  <2>4. CASE SubmitStartUrl
    <3>1. [url |-> start_url, url_depth |-> 1] \in Queue!url_item
      BY DEF Queue!url_item
    <3>2. Queue!TypeOK'
      BY <2>4, <3>1, PushType DEF SubmitStartUrl
    <3>3. QED
      BY <2>4, <3>2 DEF SubmitStartUrl
  <2>5. CASE SetStartWork
    BY <2>5 DEF SetStartWork
  <2>6. CASE NotifyStart
    BY <2>6 DEF NotifyStart
  <2>7. CASE JoinThread
    BY <2>7 DEF JoinThread
  <2>8. CASE DeleteDatabase
    BY <2>8 DEF DeleteDatabase
  <2>9. ASSUME NEW w \in Worker, WorkerStep(w)
        PROVE  TypeOK'
    <3>1. CASE GateTest(w)
      BY <3>1 DEF GateTest
    <3>2. CASE GateBlock(w)
      BY <3>2 DEF GateBlock
    <3>3. CASE CheckQueue(w)
      BY <3>3 DEF CheckQueue
    <3>4. CASE ScanFlags(w)
      <4>1. \E n \in {0, seen[w] + 1} : seen' = [seen EXCEPT ![w] = n]
        BY <3>4 DEF ScanFlags
      <4>2. seen' \in [Worker -> Nat]
        BY <4>1
      <4>3. pc' \in [Worker -> Place]
        BY <3>4 DEF ScanFlags
      <4>4. QED
        BY <3>4, <4>2, <4>3 DEF ScanFlags
    <3>5. CASE TryPop(w)
      BY <3>5 DEF TryPop
    <3>6. CASE PopWait(w)
      BY <3>6 DEF PopWait, Queue!sq_pop_wait
    <3>7. CASE PopTake(w)
      <4>1. urls_queue # <<>>
        BY <3>7 DEF PopTake, Queue!sq_pop_take, Queue!is_empty
      <4>2. Head(urls_queue) \in Queue!url_item /\ Queue!TypeOK'
        BY <3>7, <4>1 DEF PopTake, Queue!sq_pop_take
      <4>3. QED
        BY <3>7, <4>2 DEF PopTake
    <3>8. CASE SetInWork(w)
      BY <3>8 DEF SetInWork
    <3>9. CASE FetchPage(w)
      BY <3>9 DEF FetchPage, Links, Answer, Queue!url_item
    <3>10. CASE FetchNothing(w)
      BY <3>10 DEF FetchNothing
    <3>11. CASE AddWords(w)
      BY <3>11 DEF AddWords, Queue!url_item
    <3>12. CASE Throw(w)
      BY <3>12 DEF Throw
    <3>13. CASE PushFound(w)
      <4>1. PICK u \in found[w] :
               LET item == [url |-> u, url_depth |-> task[w].url_depth + 1] IN
               /\ Queue!sq_push(item)
               /\ depth_of' = IF u \in list_of_urls THEN depth_of
                              ELSE [depth_of EXCEPT ![u] = item.url_depth]
               /\ found' = [found EXCEPT ![w] = @ \ {u}]
               /\ Goto(w, IF found[w] = {u} THEN "count" ELSE "push")
        BY <3>13 DEF PushFound
      <4>2. u \in Url /\ task[w].url_depth + 1 \in Nat
        BY DEF Queue!url_item
      <4>3. [url |-> u, url_depth |-> task[w].url_depth + 1] \in Queue!url_item
        BY <4>2 DEF Queue!url_item
      <4>4. Queue!TypeOK'
        BY <4>1, <4>3, PushType
      <4>5. /\ depth_of' \in [Url -> Nat]
            /\ found' \in [Worker -> SUBSET Url]
            /\ pc' \in [Worker -> Place]
        BY <4>1, <4>2
      <4>6. QED
        BY <3>13, <4>4, <4>5 DEF PushFound
    <3>14. CASE CountRead(w)
      BY <3>14 DEF CountRead
    <3>15. CASE CountWrite(w)
      <4>1. counter[w] + 1 \in Nat
        OBVIOUS
      <4>2. QED
        BY <3>15, <4>1 DEF CountWrite
    <3>16. CASE ClearInWork(w)
      BY <3>16 DEF ClearInWork, NoTask, Queue!url_item
    <3>17. QED
      BY <2>9, <3>1, <3>2, <3>3, <3>4, <3>5, <3>6, <3>7, <3>8, <3>9, <3>10,
         <3>11, <3>12, <3>13, <3>14, <3>15, <3>16 DEF WorkerStep
  <2>10. ASSUME NEW w \in Worker, SpuriousWakeup(w)
         PROVE  TypeOK'
    BY <2>10 DEF SpuriousWakeup, Queue!spurious_wakeup
  <2>11. CASE UNCHANGED vars
    BY <2>11 DEF vars
  <2>12. QED
    BY <2>1, <2>2, <2>3, <2>4, <2>5, <2>6, <2>7, <2>8, <2>9, <2>10, <2>11
    DEF Next, MainStep
<1>3. QED
  BY <1>1, <1>2, PTL DEF Spec
-----------------------------------------------------------------------------
(* No action of the main thread or of another thread breaks what sq_pop    *)
(* relies on: a thread blocks on data_cond only while the queue is empty.  *)
THEOREM SleepersCorrect == Spec => []SleepersSeeEmptyQueue
<1> USE DEF SleepersSeeEmptyQueue, Queue!NoLostWakeup, Queue!is_empty
<1>1. Init => SleepersSeeEmptyQueue
  BY DEF Init, Queue!Init
<1>2. ASSUME SleepersSeeEmptyQueue, [Next]_vars
      PROVE  SleepersSeeEmptyQueue'
  <2>1. CASE UNCHANGED queue_vars
    BY <1>2, <2>1 DEF queue_vars
  <2>2. ASSUME NEW item, Queue!sq_push(item)
        PROVE  SleepersSeeEmptyQueue'
    BY <2>2 DEF Queue!sq_push
  <2>3. ASSUME NEW w \in Worker, PopWait(w) \/ PopTake(w) \/ SpuriousWakeup(w)
        PROVE  SleepersSeeEmptyQueue'
    BY <1>2, <2>3 DEF PopWait, PopTake, SpuriousWakeup, Queue!sq_pop_wait,
       Queue!sq_pop_take, Queue!spurious_wakeup, queue_vars
  <2>4. CASE MainStep /\ ~ SubmitStartUrl
    <3>1. UNCHANGED queue_vars
      BY <2>4 DEF MainStep, StartDatabase, CreateThread, AllCreated, SetStartWork,
         NotifyStart, JoinThread, DeleteDatabase
    <3>2. QED
      BY <3>1, <2>1
  <2>5. ASSUME NEW w \in Worker, WorkerStep(w),
               ~ PopWait(w), ~ PopTake(w), ~ PushFound(w)
        PROVE  SleepersSeeEmptyQueue'
    <3>1. UNCHANGED queue_vars
      BY <2>5 DEF WorkerStep, GateTest, GateBlock, CheckQueue, ScanFlags, TryPop,
         SetInWork, FetchPage, FetchNothing, AddWords, Throw, CountRead,
         CountWrite, ClearInWork
    <3>2. QED
      BY <3>1, <2>1
  <2>6. CASE SubmitStartUrl
    BY <2>6, <2>2 DEF SubmitStartUrl
  <2>7. ASSUME NEW w \in Worker, PushFound(w)
        PROVE  SleepersSeeEmptyQueue'
    BY <2>7, <2>2 DEF PushFound
  <2>8. CASE UNCHANGED vars
    BY <2>8, <2>1 DEF vars
  <2>9. QED
    BY <1>2, <2>3, <2>4, <2>5, <2>6, <2>7, <2>8 DEF Next
<1>3. QED
  BY <1>1, <1>2, PTL DEF Spec
-----------------------------------------------------------------------------
(* The life of the pool: which work threads exist, when they run, and what *)
(* becomes of the database connection meanwhile.                           *)
Lifecycle ==
    /\ main = "start_db" => th_count = 0 /\ data_base = "none"
    /\ main \in {"create", "submit", "flag", "notify", "aborted"} => data_base = "open"
    /\ main = "join" => data_base \in {"open", "failed"}
    /\ main = "end" => joined = th_count
    /\ data_base = "failed" => th_count = 0
    /\ start_work => main \in {"notify", "join", "end", "aborted"}
    /\ main = "notify" => start_work
    /\ joined <= th_count
    /\ \A w \in Worker : /\ w < th_count <=> pc[w] # "none"
                         /\ w < joined => pc[w] = "exited"
                         /\ ~ start_work => pc[w] \in {"none", "gate", "block"}

(* What every step of a work thread leaves alone.                          *)
LEMMA WorkerMoves ==
    ASSUME TypeOK, NEW w \in Worker, WorkerStep(w)
    PROVE  /\ UNCHANGED <<th_count, joined, start_work, data_base, web>>
           /\ pc[w] \notin {"none", "exited"}
           /\ \/ main' = "aborted" /\ pc' = pc /\ pc[w] \notin {"gate", "block"}
              \/ /\ main' = main
                 /\ \E p \in Place \ {"none"} :
                       /\ pc' = [pc EXCEPT ![w] = p]
                       /\ ~ start_work /\ pc[w] \in {"gate", "block"}
                            => p \in {"gate", "block"}
<1> USE DEF TypeOK, Place, Goto, main_vars, base_vars
<1>1. CASE GateTest(w)
  BY <1>1 DEF GateTest
<1>2. CASE GateBlock(w)
  BY <1>2 DEF GateBlock
<1>3. CASE CheckQueue(w) \/ ScanFlags(w) \/ TryPop(w)
  BY <1>3 DEF CheckQueue, ScanFlags, TryPop
<1>4. CASE PopWait(w) \/ PopTake(w) \/ SetInWork(w)
  BY <1>4 DEF PopWait, PopTake, SetInWork
<1>5. CASE FetchPage(w) \/ FetchNothing(w) \/ AddWords(w)
  BY <1>5 DEF FetchPage, FetchNothing, AddWords
<1>6. CASE Throw(w)
  BY <1>6 DEF Throw
<1>7. CASE PushFound(w)
  BY <1>7 DEF PushFound
<1>8. CASE CountRead(w) \/ CountWrite(w) \/ ClearInWork(w)
  BY <1>8 DEF CountRead, CountWrite, ClearInWork
<1>9. QED
  BY <1>1, <1>2, <1>3, <1>4, <1>5, <1>6, <1>7, <1>8 DEF WorkerStep

LEMMA LifecycleInv == Spec => []Lifecycle
<1>1. Init => Lifecycle
  BY WorkerType DEF Init, Lifecycle
<1>2. ASSUME TypeOK, Lifecycle, [Next]_vars
      PROVE  Lifecycle'
  <2> USE <1>2, WorkerType
      DEF TypeOK, Lifecycle, main_vars, base_vars
  <2>1. CASE StartDatabase
    BY <2>1 DEF StartDatabase
  <2>2. CASE CreateThread
    <3>1. th_count \in Worker
      BY <2>2, CoresNumType DEF CreateThread, Worker
    <3>2. QED
      BY <2>2, <3>1 DEF CreateThread
  <2>3. CASE AllCreated \/ SubmitStartUrl \/ SetStartWork \/ NotifyStart
    BY <2>3 DEF AllCreated, SubmitStartUrl, SetStartWork, NotifyStart
  <2>4. CASE JoinThread
    BY <2>4 DEF JoinThread
  <2>5. CASE DeleteDatabase
    BY <2>5 DEF DeleteDatabase
  <2>6. ASSUME NEW w \in Worker, WorkerStep(w)
        PROVE  Lifecycle'
    <3>1. CASE main' = "aborted" /\ pc' = pc /\ pc[w] \notin {"gate", "block"}
      <4>1. start_work /\ th_count # 0 /\ joined # th_count
        BY <2>6, <3>1, WorkerMoves
      <4>2. data_base = "open"
        BY <4>1
      <4>3. UNCHANGED <<th_count, joined, start_work, data_base, pc>>
        BY <2>6, <3>1, WorkerMoves
      <4>4. QED
        BY <3>1, <4>1, <4>2, <4>3
    <3>2. ASSUME main' = main,
                 NEW p \in Place \ {"none"},
                 pc' = [pc EXCEPT ![w] = p],
                 ~ start_work /\ pc[w] \in {"gate", "block"} => p \in {"gate", "block"}
          PROVE  Lifecycle'
      BY <2>6, <3>2, WorkerMoves
    <3>3. QED
      BY <2>6, <3>1, <3>2, WorkerMoves
  <2>7. CASE UNCHANGED vars \/ \E w \in Worker : SpuriousWakeup(w)
    BY <2>7 DEF vars, SpuriousWakeup
  <2>8. QED
    BY <2>1, <2>2, <2>3, <2>4, <2>5, <2>6, <2>7 DEF Next, MainStep
<1>3. QED
  BY <1>1, <1>2, TypeCorrect, PTL DEF Spec

(* No work thread can reach the database connection unless it is open.     *)
THEOREM ConnectionOutlivesThreads == Spec => []NoUseAfterDelete
<1>1. TypeOK /\ Lifecycle => NoUseAfterDelete
  BY WorkerType DEF TypeOK, Lifecycle, NoUseAfterDelete
<1>2. QED
  BY <1>1, TypeCorrect, LifecycleInv, PTL

(* th_vector is complete before the first thread is past the start gate.   *)
THEOREM VectorCompleteBeforeWork == Spec => VectorGrowsAlone
<1>1. TypeOK /\ Lifecycle /\ [Next]_vars => [th_count' # th_count => ~ Working]_vars
  <2>1. SUFFICES ASSUME TypeOK, Lifecycle, Next, th_count' # th_count
                 PROVE  ~ Working
    BY DEF vars, main_vars
  <2>2. main = "create"
    BY <2>1, WorkerMoves
    DEF Next, MainStep, StartDatabase, CreateThread, AllCreated, SubmitStartUrl,
        SetStartWork, NotifyStart, JoinThread, DeleteDatabase, SpuriousWakeup,
        main_vars
  <2>3. QED
    BY <2>1, <2>2 DEF Lifecycle, Working, Started
<1>2. QED
  BY <1>1, TypeCorrect, LifecycleInv, PTL DEF Spec, VectorGrowsAlone

-----------------------------------------------------------------------------
(* The crawl itself: an address is always in exactly one place, no link is *)
(* lost, and the last work thread to leave leaves nothing behind; and the  *)
(* page counter, which work threads increment without a lock, never counts *)
(* a page that was not processed.                                          *)

(* Every listed address is queued, in the hands of one work thread, or     *)
(* finished, and only one of these.                                        *)
Whereabouts ==
    /\ list_of_urls = Queued \cup InHand \cup finished
    /\ Queued \cap InHand = {}
    /\ Queued \cap finished = {}
    /\ InHand \cap finished = {}
    /\ \A i, j \in DOMAIN urls_queue : urls_queue[i].url = urls_queue[j].url => i = j
    /\ \A v, w \in Worker : pc[v] \in Holding /\ pc[w] \in Holding
                            /\ task[v].url = task[w].url => v = w

(* An item carries the depth that its address was first queued at.         *)
DepthCarried ==
    /\ \A i \in DOMAIN urls_queue :
          urls_queue[i].url_depth = depth_of[urls_queue[i].url]
    /\ \A w \in Worker : pc[w] \in Holding =>
          task[w].url_depth = depth_of[task[w].url]

(* No thread runs before start_url is listed, and nothing is before it.    *)
StartFirst ==
    /\ main \in {"start_db", "create", "submit"} => list_of_urls = {}
    /\ main = "flag" \/ start_work => start_url \in list_of_urls

(* While something is queued, some work thread has yet to look for it: one *)
(* that could still fill the queue goes back to it before it leaves.       *)
NotLast ==
    urls_queue # <<>> /\ Worker # {} =>
        \E w \in Worker : pc[w] \notin {"scan", "exited"}

(* The links of u are listed, if scanning u was to list them.              *)
Kept(u) == Expands(u) => Leads(u) \subseteq list_of_urls

(* What a thread has still to push, it may push; and what it has pushed,   *)
(* with what is left to push, is all there was.                            *)
PushesAll(w) ==
    /\ pc[w] \in {"index", "push"} =>
          /\ found[w] \subseteq Leads(task[w].url)
          /\ found[w] # {} => Expands(task[w].url)
          /\ Expands(task[w].url) =>
                Leads(task[w].url) \subseteq found[w] \cup list_of_urls
    /\ pc[w] \in {"count", "counted", "clear"} => Kept(task[w].url)

LinksKept ==
    /\ \A w \in Worker : PushesAll(w)
    /\ \A u \in finished : Kept(u)
-----------------------------------------------------------------------------
(* What sq_push and sq_pop do to the addresses that are queued.            *)
LEMMA NoUrls ==
    ASSUME NEW S, NEW q \in Seq(S), UrlsOf(q) = {}
    PROVE  q = <<>>
<1>1. \A i \in DOMAIN q : q[i].url \in UrlsOf(q)
  BY DEF UrlsOf
<1>2. DOMAIN q = 1 .. Len(q) /\ Len(q) \in Nat
  OBVIOUS
<1>3. Len(q) = 0
  <2>1. 1 \notin DOMAIN q
    BY <1>1
  <2>2. QED
    BY <1>2, <2>1
<1>4. QED
  BY <1>3

LEMMA AppendUrls ==
    ASSUME NEW S, NEW q \in Seq(S), NEW item \in S
    PROVE  UrlsOf(Append(q, item)) = UrlsOf(q) \cup {item.url}
<1> DEFINE r == Append(q, item)
<1>1. /\ DOMAIN r = DOMAIN q \cup {Len(q) + 1}
      /\ \A i \in DOMAIN q : r[i] = q[i]
      /\ r[Len(q) + 1] = item
  OBVIOUS
<1> HIDE DEF r
<1>2. QED
  BY <1>1 DEF UrlsOf, r

LEMMA TailUrls ==
    ASSUME NEW S, NEW q \in Seq(S), q # <<>>,
           \A i, j \in DOMAIN q : q[i].url = q[j].url => i = j
    PROVE  /\ UrlsOf(Tail(q)) = UrlsOf(q) \ {Head(q).url}
           /\ Head(q).url \in UrlsOf(q)
           /\ \A i, j \in DOMAIN Tail(q) : Tail(q)[i].url = Tail(q)[j].url => i = j
<1> DEFINE r == Tail(q)
<1>1. /\ DOMAIN q = 1 .. Len(q) /\ Len(q) \in Nat \ {0}
      /\ DOMAIN r = 1 .. Len(q) - 1
      /\ \A i \in DOMAIN r : r[i] = q[i + 1]
      /\ Head(q) = q[1]
  OBVIOUS
<1> HIDE DEF r
<1>2. Head(q).url \in UrlsOf(q)
  BY <1>1 DEF UrlsOf
<1>3. UrlsOf(r) \subseteq UrlsOf(q) \ {Head(q).url}
  <2> SUFFICES ASSUME NEW i \in DOMAIN r
               PROVE  r[i].url \in UrlsOf(q) \ {Head(q).url}
    BY DEF UrlsOf
  <2>1. i + 1 \in DOMAIN q /\ i + 1 # 1 /\ 1 \in DOMAIN q
    BY <1>1
  <2>2. QED
    BY <1>1, <2>1 DEF UrlsOf
<1>4. UrlsOf(q) \ {Head(q).url} \subseteq UrlsOf(r)
  <2> SUFFICES ASSUME NEW i \in DOMAIN q, q[i].url # Head(q).url
               PROVE  q[i].url \in UrlsOf(r)
    BY DEF UrlsOf
  <2>1. i - 1 \in DOMAIN r /\ r[i - 1] = q[i]
    BY <1>1
  <2>2. QED
    BY <2>1 DEF UrlsOf
<1>5. ASSUME NEW i \in DOMAIN r, NEW j \in DOMAIN r, r[i].url = r[j].url
      PROVE  i = j
  <2>1. i + 1 \in DOMAIN q /\ j + 1 \in DOMAIN q
    BY <1>1
  <2>2. i + 1 = j + 1
    BY <1>1, <1>5, <2>1
  <2>3. QED
    BY <1>1, <2>2
<1>6. QED
  BY <1>2, <1>3, <1>4, <1>5 DEF r

(* The steps that move no address: of the main thread, all but one; of a   *)
(* work thread, all but taking a task, pushing a link and finishing.       *)
Moves(w) == PopTake(w) \/ PushFound(w) \/ ClearInWork(w)

Still ==
    /\ UNCHANGED <<urls_queue, list_of_urls, web, task, depth_of, finished>>
    /\ \A w \in Worker : pc'[w] \in Holding <=> pc[w] \in Holding

LEMMA OtherStepsAreStill ==
    ASSUME TypeOK, Lifecycle, [Next]_vars, ~ SubmitStartUrl,
           \A w \in Worker : ~ Moves(w)
    PROVE  Still
<1> USE DEF TypeOK, Still, Holding, Goto, queue_vars, main_vars, history_vars
<1>1. CASE MainStep
  <2>1. CASE CreateThread
    BY <2>1, WorkerType DEF CreateThread, Lifecycle
  <2>2. QED
    BY <1>1, <2>1 DEF MainStep, StartDatabase, AllCreated, SetStartWork, NotifyStart,
       JoinThread, DeleteDatabase
<1>2. ASSUME NEW w \in Worker, WorkerStep(w)
      PROVE  Still
  <2>1. CASE GateTest(w) \/ GateBlock(w) \/ CheckQueue(w) \/ TryPop(w) \/ ScanFlags(w)
    BY <2>1 DEF GateTest, GateBlock, CheckQueue, TryPop, ScanFlags
  <2>2. CASE PopWait(w)
    BY <2>2 DEF PopWait, Queue!sq_pop_wait
  <2>3. CASE SetInWork(w) \/ FetchPage(w) \/ FetchNothing(w) \/ AddWords(w)
    BY <2>3 DEF SetInWork, FetchPage, FetchNothing, AddWords
  <2>4. CASE Throw(w) \/ CountRead(w) \/ CountWrite(w)
    BY <2>4 DEF Throw, CountRead, CountWrite
  <2>5. QED
    BY <1>2, <2>1, <2>2, <2>3, <2>4 DEF WorkerStep, Moves
<1>3. ASSUME NEW w \in Worker, SpuriousWakeup(w)
      PROVE  Still
  BY <1>3 DEF SpuriousWakeup, Queue!spurious_wakeup
<1>4. CASE UNCHANGED vars
  BY <1>4 DEF vars
<1>5. QED
  BY <1>1, <1>2, <1>3, <1>4 DEF Next

(* Pushing one link either changes nothing but found, or lists an address. *)
LEMMA PushOne ==
    ASSUME TypeOK, NEW w \in Worker, PushFound(w)
    PROVE  /\ UNCHANGED <<web, task, finished, main, start_work>>
           /\ pc[w] = "push"
           /\ \E u \in found[w] :
                 /\ u \in Url
                 /\ found' = [found EXCEPT ![w] = @ \ {u}]
                 /\ pc' = [pc EXCEPT ![w] = IF found[w] = {u} THEN "count" ELSE "push"]
                 /\ \/ /\ u \in list_of_urls
                       /\ UNCHANGED <<urls_queue, list_of_urls, depth_of>>
                    \/ /\ u \notin list_of_urls
                       /\ list_of_urls' = list_of_urls \cup {u}
                       /\ depth_of' = [depth_of EXCEPT ![u] = task[w].url_depth + 1]
                       /\ \E item \in Queue!url_item :
                             /\ item.url = u
                             /\ item.url_depth = task[w].url_depth + 1
                             /\ urls_queue' = Append(urls_queue, item)
<1>1. PICK u \in found[w] :
         LET item == [url |-> u, url_depth |-> task[w].url_depth + 1] IN
         /\ Queue!sq_push(item)
         /\ depth_of' = IF u \in list_of_urls THEN depth_of
                        ELSE [depth_of EXCEPT ![u] = item.url_depth]
         /\ found' = [found EXCEPT ![w] = @ \ {u}]
         /\ Goto(w, IF found[w] = {u} THEN "count" ELSE "push")
  BY DEF PushFound
<1> DEFINE item == [url |-> u, url_depth |-> task[w].url_depth + 1]
<1>2. u \in Url /\ task[w].url_depth + 1 \in Nat
  BY DEF TypeOK, Queue!TypeOK, Queue!url_item
<1>3. item \in Queue!url_item /\ item.url = u /\ item.url_depth = task[w].url_depth + 1
  BY <1>2 DEF Queue!url_item
<1>4. \/ u \in list_of_urls /\ UNCHANGED <<urls_queue, list_of_urls>>
      \/ /\ u \notin list_of_urls
         /\ list_of_urls' = list_of_urls \cup {u}
         /\ urls_queue' = Append(urls_queue, item)
  BY <1>1 DEF Queue!sq_push, Queue!insert
<1>5. /\ UNCHANGED <<web, task, finished, main, start_work>>
      /\ pc[w] = "push"
  BY DEF PushFound, main_vars
<1> HIDE DEF item
<1>6. depth_of' = IF u \in list_of_urls THEN depth_of
                  ELSE [depth_of EXCEPT ![u] = task[w].url_depth + 1]
  BY <1>1
<1>7. /\ found' = [found EXCEPT ![w] = @ \ {u}]
      /\ pc' = [pc EXCEPT ![w] = IF found[w] = {u} THEN "count" ELSE "push"]
  BY <1>1 DEF Goto
<1>8. QED
  BY <1>2, <1>3, <1>4, <1>5, <1>6, <1>7
-----------------------------------------------------------------------------
LEMMA StartFirstInv == Spec => []StartFirst
<1>1. Init => StartFirst
  BY DEF Init, Queue!Init, StartFirst
<1>2. ASSUME TypeOK, Lifecycle, StartFirst, [Next]_vars
      PROVE  StartFirst'
  <2> USE <1>2 DEF StartFirst
  <2>1. CASE SubmitStartUrl
    <3>1. start_url \in list_of_urls'
      BY <2>1 DEF SubmitStartUrl, Queue!sq_push, Queue!insert
    <3>2. QED
      BY <2>1, <3>1 DEF SubmitStartUrl
  <2>2. ASSUME NEW w \in Worker, PushFound(w)
        PROVE  StartFirst'
    <3>1. start_work /\ main \notin {"start_db", "create", "submit"}
      BY <2>2, PushOne DEF Lifecycle
    <3>2. QED
      BY <2>2, <3>1, PushOne
  <2>3. ASSUME NEW w \in Worker, ~ PushFound(w), WorkerStep(w)
        PROVE  StartFirst'
    <3>1. list_of_urls' = list_of_urls
      BY <2>3 DEF WorkerStep, GateTest, GateBlock, CheckQueue, ScanFlags, TryPop,
         PopWait, PopTake, SetInWork, FetchPage, FetchNothing, AddWords, Throw,
         CountRead, CountWrite, ClearInWork, Queue!sq_pop_wait, Queue!sq_pop_take,
         queue_vars
    <3>2. QED
      BY <2>3, <3>1, WorkerMoves
  <2>4. CASE MainStep /\ ~ SubmitStartUrl
    BY <2>4 DEF MainStep, StartDatabase, CreateThread, AllCreated, SetStartWork,
       NotifyStart, JoinThread, DeleteDatabase, queue_vars
  <2>5. CASE UNCHANGED vars \/ \E w \in Worker : SpuriousWakeup(w)
    BY <2>5 DEF vars, SpuriousWakeup, Queue!spurious_wakeup, queue_vars, main_vars
  <2>6. QED
    BY <2>1, <2>2, <2>3, <2>4, <2>5 DEF Next
<1>3. QED
  BY <1>1, <1>2, TypeCorrect, LifecycleInv, PTL DEF Spec

(* How the steps that do move an address move it.                          *)
LEMMA SubmitMoves ==
    ASSUME TypeOK, StartFirst, Whereabouts, SubmitStartUrl
    PROVE  /\ list_of_urls = {} /\ Queued = {} /\ InHand = {} /\ finished = {}
           /\ list_of_urls' = {start_url} /\ Queued' = {start_url}
           /\ InHand' = {} /\ finished' = {}
           /\ DOMAIN urls_queue' = {1}
           /\ UNCHANGED <<pc, task, web>>
<1> DEFINE item == [url |-> start_url, url_depth |-> 1]
<1>1. list_of_urls = {} /\ Queued = {} /\ InHand = {} /\ finished = {}
  BY DEF SubmitStartUrl, StartFirst, Whereabouts
<1>2. item \in Queue!url_item /\ item.url = start_url
  BY SpiderAssumption DEF Queue!url_item
<1>3. urls_queue = <<>> /\ urls_queue \in Seq(Queue!url_item)
  <2>1. urls_queue \in Seq(Queue!url_item)
    BY DEF TypeOK, Queue!TypeOK
  <2>2. QED
    BY <1>1, <2>1, NoUrls DEF Queued
<1>4. /\ list_of_urls' = {start_url}
      /\ urls_queue' = Append(urls_queue, item)
      /\ UNCHANGED <<pc, task, web, finished>>
  BY <1>1 DEF SubmitStartUrl, Queue!sq_push, Queue!insert
<1> HIDE DEF item
<1>5. DOMAIN urls_queue' = {1} /\ urls_queue'[1] = item
  BY <1>2, <1>3, <1>4
<1>6. Queued' = {start_url}
  BY <1>2, <1>5 DEF Queued, UrlsOf
<1>7. InHand' = {}
  BY <1>1, <1>4 DEF InHand
<1>8. QED
  BY <1>1, <1>4, <1>5, <1>6, <1>7

LEMMA TakeMoves ==
    ASSUME TypeOK, Whereabouts, NEW w \in Worker, PopTake(w)
    PROVE  /\ UNCHANGED <<list_of_urls, finished, web>>
           /\ \A i, j \in DOMAIN urls_queue' :
                 urls_queue'[i].url = urls_queue'[j].url => i = j
           /\ \A v \in Worker \ {w} : task'[v] = task[v] /\ pc'[v] = pc[v]
           /\ pc'[w] = "popped"
           /\ task'[w].url \in Queued
           /\ Queued' = Queued \ {task'[w].url}
           /\ InHand' = InHand \cup {task'[w].url}
<1> DEFINE u == Head(urls_queue).url
<1>1. /\ urls_queue # <<>> /\ urls_queue \in Seq(Queue!url_item)
      /\ urls_queue' = Tail(urls_queue)
      /\ UNCHANGED <<list_of_urls, finished, web>>
      /\ task' = [task EXCEPT ![w] = Head(urls_queue)]
      /\ pc' = [pc EXCEPT ![w] = "popped"]
      /\ pc[w] = "pop"
  BY DEF PopTake, Queue!sq_pop_take, Queue!is_empty, TypeOK, Queue!TypeOK, Goto,
     history_vars
<1>2. \A i, j \in DOMAIN urls_queue : urls_queue[i].url = urls_queue[j].url => i = j
  BY DEF Whereabouts
<1>3. /\ Queued' = Queued \ {u}
      /\ u \in Queued
      /\ \A i, j \in DOMAIN urls_queue' :
            urls_queue'[i].url = urls_queue'[j].url => i = j
  BY <1>1, <1>2, TailUrls DEF Queued
<1>4. /\ \A v \in Worker \ {w} : task'[v] = task[v] /\ pc'[v] = pc[v]
      /\ task'[w].url = u /\ pc'[w] = "popped"
  BY <1>1 DEF TypeOK
<1> HIDE DEF u
<1>5. InHand' = InHand \cup {u}
  BY <1>1, <1>4 DEF InHand, Holding
<1>6. QED
  BY <1>1, <1>3, <1>4, <1>5

LEMMA PushMoves ==
    ASSUME TypeOK, Whereabouts, NEW w \in Worker, PushFound(w)
    PROVE  /\ UNCHANGED <<task, finished, web>>
           /\ \A v \in Worker : pc'[v] \in Holding <=> pc[v] \in Holding
           /\ InHand' = InHand
           /\ \/ UNCHANGED <<urls_queue, list_of_urls>> /\ Queued' = Queued
              \/ \E u \in found[w] :
                    /\ u \notin list_of_urls
                    /\ list_of_urls' = list_of_urls \cup {u}
                    /\ Queued' = Queued \cup {u}
                    /\ \A i, j \in DOMAIN urls_queue' :
                          urls_queue'[i].url = urls_queue'[j].url => i = j
<1>1. PICK u \in found[w] :
         /\ pc' = [pc EXCEPT ![w] = IF found[w] = {u} THEN "count" ELSE "push"]
         /\ \/ UNCHANGED <<urls_queue, list_of_urls>>
            \/ /\ u \notin list_of_urls
               /\ list_of_urls' = list_of_urls \cup {u}
               /\ \E item \in Queue!url_item :
                     item.url = u /\ urls_queue' = Append(urls_queue, item)
  BY PushOne
<1>2. UNCHANGED <<task, finished, web>> /\ pc[w] = "push"
  BY PushOne
<1>3. \A v \in Worker : pc'[v] \in Holding <=> pc[v] \in Holding
  BY <1>1, <1>2 DEF TypeOK, Holding
<1>4. InHand' = InHand
  BY <1>2, <1>3 DEF InHand
<1>5. CASE UNCHANGED <<urls_queue, list_of_urls>>
  BY <1>2, <1>3, <1>4, <1>5 DEF Queued
<1>6. ASSUME u \notin list_of_urls,
             list_of_urls' = list_of_urls \cup {u},
             NEW item \in Queue!url_item,
             item.url = u,
             urls_queue' = Append(urls_queue, item)
      PROVE  /\ Queued' = Queued \cup {u}
             /\ \A i, j \in DOMAIN urls_queue' :
                   urls_queue'[i].url = urls_queue'[j].url => i = j
  <2>1. urls_queue \in Seq(Queue!url_item)
    BY DEF TypeOK, Queue!TypeOK
  <2>2. Queued' = Queued \cup {u}
    BY <1>6, <2>1, AppendUrls DEF Queued
  <2>3. u \notin Queued
    BY <1>6 DEF Whereabouts
  <2>4. /\ DOMAIN urls_queue' = DOMAIN urls_queue \cup {Len(urls_queue) + 1}
        /\ \A i \in DOMAIN urls_queue : urls_queue'[i] = urls_queue[i]
        /\ urls_queue'[Len(urls_queue) + 1].url = u
    BY <1>6, <2>1
  <2>5. \A i \in DOMAIN urls_queue : urls_queue[i].url # u
    BY <2>3 DEF Queued, UrlsOf
  <2>6. QED
    BY <2>2, <2>4, <2>5 DEF Whereabouts
<1>7. QED
  BY <1>1, <1>2, <1>3, <1>4, <1>5, <1>6

LEMMA FinishMoves ==
    ASSUME TypeOK, Whereabouts, NEW w \in Worker, ClearInWork(w)
    PROVE  /\ UNCHANGED <<urls_queue, list_of_urls, web>>
           /\ \A v \in Worker \ {w} : task'[v] = task[v] /\ pc'[v] = pc[v]
           /\ pc'[w] = "check"
           /\ finished' = finished \cup {task[w].url}
           /\ task[w].url \in InHand
           /\ InHand' = InHand \ {task[w].url}
           /\ Queued' = Queued
<1> DEFINE u == task[w].url
<1>1. /\ UNCHANGED <<urls_queue, list_of_urls, web>>
      /\ finished' = finished \cup {u}
      /\ pc[w] = "clear" /\ pc'[w] = "check"
      /\ \A v \in Worker \ {w} : task'[v] = task[v] /\ pc'[v] = pc[v]
  BY DEF ClearInWork, TypeOK, Goto, queue_vars
<1>2. \A v \in Worker \ {w} : pc[v] \in Holding => task[v].url # u
  BY <1>1 DEF Whereabouts, Holding
<1>3. u \in InHand
  BY <1>1 DEF InHand, Holding
<1>4. \A v \in Worker : pc'[v] \in Holding <=> pc[v] \in Holding /\ v # w
  BY <1>1 DEF Holding
<1>5. InHand' = InHand \ {u}
  BY <1>1, <1>2, <1>4 DEF InHand
<1>6. QED
  BY <1>1, <1>3, <1>5 DEF Queued

(* Every listed address is in exactly one place, so none is scanned twice. *)
LEMMA WhereaboutsInv == Spec => []Whereabouts
<1>1. Init => Whereabouts
  BY DEF Init, Queue!Init, Whereabouts, Queued, UrlsOf, InHand, Holding
<1>2. ASSUME TypeOK, Lifecycle, StartFirst, Whereabouts, [Next]_vars
      PROVE  Whereabouts'
  <2> USE <1>2
  <2>1. CASE SubmitStartUrl
    <3>1. \A w \in Worker : pc'[w] \notin Holding
      BY <2>1, SubmitMoves DEF InHand
    <3>2. QED
      BY <2>1, <3>1, SubmitMoves DEF Whereabouts
  <2>2. ASSUME NEW w \in Worker, PopTake(w)
        PROVE  Whereabouts'
    <3>1. \A v \in Worker \ {w} : pc[v] \in Holding => task[v].url # task'[w].url
      BY <2>2, TakeMoves DEF Whereabouts, InHand
    <3>2. QED
      BY <2>2, <3>1, TakeMoves DEF Whereabouts
  <2>3. ASSUME NEW w \in Worker, PushFound(w)
        PROVE  Whereabouts'
    <3>1. CASE UNCHANGED <<urls_queue, list_of_urls>> /\ Queued' = Queued
      BY <2>3, <3>1, PushMoves DEF Whereabouts
    <3>2. ASSUME NEW u, u \notin list_of_urls,
                 list_of_urls' = list_of_urls \cup {u},
                 Queued' = Queued \cup {u},
                 \A i, j \in DOMAIN urls_queue' :
                    urls_queue'[i].url = urls_queue'[j].url => i = j
          PROVE  Whereabouts'
      BY <2>3, <3>2, PushMoves DEF Whereabouts
    <3>3. QED
      BY <2>3, <3>1, <3>2, PushMoves
  <2>4. ASSUME NEW w \in Worker, ClearInWork(w)
        PROVE  Whereabouts'
    BY <2>4, FinishMoves DEF Whereabouts, Holding
  <2>5. CASE Still
    BY <2>5 DEF Still, Whereabouts, Queued, InHand
  <2>6. QED
    BY <2>1, <2>2, <2>3, <2>4, <2>5, OtherStepsAreStill DEF Moves
<1>3. QED
  BY <1>1, <1>2, TypeCorrect, LifecycleInv, StartFirstInv, PTL DEF Spec
-----------------------------------------------------------------------------
LEMMA DepthCarriedInv == Spec => []DepthCarried
<1>1. Init => DepthCarried
  BY DEF Init, Queue!Init, DepthCarried, Holding
<1>2. ASSUME TypeOK, Lifecycle, StartFirst, Whereabouts, DepthCarried, [Next]_vars
      PROVE  DepthCarried'
  <2> USE <1>2
  <2>1. CASE SubmitStartUrl
    <3>1. list_of_urls = {} /\ Queued = {} /\ InHand = {}
      BY <2>1 DEF SubmitStartUrl, StartFirst, Whereabouts
    <3>2. urls_queue = <<>>
      BY <3>1, NoUrls DEF TypeOK, Queue!TypeOK, Queued
    <3>3. /\ urls_queue' = <<[url |-> start_url, url_depth |-> 1]>>
          /\ depth_of'[start_url] = 1
          /\ UNCHANGED <<pc, task>>
      BY <2>1, <3>1, <3>2, SpiderAssumption
      DEF SubmitStartUrl, Queue!sq_push, Queue!insert, TypeOK
    <3>4. \A w \in Worker : pc'[w] \notin Holding
      BY <3>1, <3>3 DEF InHand
    <3>5. QED
      BY <3>3, <3>4 DEF DepthCarried
  <2>2. ASSUME NEW w \in Worker, PopTake(w)
        PROVE  DepthCarried'
    <3>1. /\ urls_queue # <<>> /\ urls_queue \in Seq(Queue!url_item)
          /\ urls_queue' = Tail(urls_queue)
          /\ UNCHANGED depth_of
          /\ task'[w] = Head(urls_queue)
          /\ \A v \in Worker \ {w} : task'[v] = task[v] /\ pc'[v] = pc[v]
      BY <2>2 DEF PopTake, Queue!sq_pop_take, Queue!is_empty, TypeOK, Queue!TypeOK,
         Goto, history_vars
    <3>2. /\ 1 \in DOMAIN urls_queue /\ Head(urls_queue) = urls_queue[1]
          /\ \A i \in DOMAIN Tail(urls_queue) :
                i + 1 \in DOMAIN urls_queue /\ Tail(urls_queue)[i] = urls_queue[i + 1]
      BY <3>1
    <3>3. QED
      BY <3>1, <3>2 DEF DepthCarried
  <2>3. ASSUME NEW w \in Worker, PushFound(w)
        PROVE  DepthCarried'
    <3>1. UNCHANGED task /\ \A v \in Worker : pc'[v] \in Holding => pc[v] \in Holding
      BY <2>3, PushOne DEF TypeOK, Holding
    <3>2. CASE UNCHANGED <<urls_queue, depth_of>>
      BY <3>1, <3>2 DEF DepthCarried
    <3>3. ASSUME NEW u \in Url, u \notin list_of_urls,
                 depth_of' = [depth_of EXCEPT ![u] = task[w].url_depth + 1],
                 NEW item \in Queue!url_item,
                 item.url = u,
                 item.url_depth = task[w].url_depth + 1,
                 urls_queue' = Append(urls_queue, item)
          PROVE  DepthCarried'
      <4>1. /\ DOMAIN urls_queue' = DOMAIN urls_queue \cup {Len(urls_queue) + 1}
            /\ \A i \in DOMAIN urls_queue : urls_queue'[i] = urls_queue[i]
            /\ urls_queue'[Len(urls_queue) + 1] = item
        BY <3>3 DEF TypeOK, Queue!TypeOK
      <4>2. /\ \A i \in DOMAIN urls_queue : urls_queue[i].url # u
            /\ \A v \in Worker : pc[v] \in Holding => task[v].url # u
        BY <3>3 DEF Whereabouts, Queued, UrlsOf, InHand
      <4>3. depth_of'[u] = item.url_depth /\ \A x : x # u => depth_of'[x] = depth_of[x]
        BY <3>3 DEF TypeOK
      <4>4. \A i \in DOMAIN urls_queue' :
               urls_queue'[i].url_depth = depth_of'[urls_queue'[i].url]
        BY <3>3, <4>1, <4>2, <4>3 DEF DepthCarried
      <4>5. QED
        BY <3>1, <4>2, <4>3, <4>4 DEF DepthCarried
    <3>4. QED
      BY <2>3, <3>2, <3>3, PushOne
  <2>4. ASSUME NEW w \in Worker, ClearInWork(w)
        PROVE  DepthCarried'
    <3>1. /\ UNCHANGED <<urls_queue, depth_of>>
          /\ pc'[w] = "check"
          /\ \A v \in Worker \ {w} : task'[v] = task[v] /\ pc'[v] = pc[v]
      BY <2>4 DEF ClearInWork, TypeOK, Goto, queue_vars
    <3>2. QED
      BY <3>1 DEF DepthCarried, Holding
  <2>5. CASE Still
    BY <2>5 DEF Still, DepthCarried
  <2>6. QED
    BY <2>1, <2>2, <2>3, <2>4, <2>5, OtherStepsAreStill DEF Moves
<1>3. QED
  BY <1>1, <1>2, TypeCorrect, LifecycleInv, StartFirstInv, WhereaboutsInv, PTL DEF Spec

LEMMA NotLastInv == Spec => []NotLast
<1>1. Init => NotLast
  BY DEF Init, Queue!Init, NotLast
<1>2. ASSUME TypeOK, Lifecycle, NotLast, [Next]_vars
      PROVE  NotLast'
  <2> USE <1>2
  <2>1. CASE SubmitStartUrl
    <3>1. \A w \in Worker : pc'[w] \in {"none", "gate", "block"}
      BY <2>1 DEF SubmitStartUrl, Lifecycle
    <3>2. QED
      BY <3>1 DEF NotLast
  <2>2. CASE CreateThread
    BY <2>2 DEF CreateThread, NotLast, TypeOK, queue_vars
  <2>3. CASE MainStep /\ ~ SubmitStartUrl /\ ~ CreateThread
    BY <2>3 DEF MainStep, StartDatabase, AllCreated, SetStartWork, NotifyStart,
       JoinThread, DeleteDatabase, NotLast, queue_vars
  <2>4. ASSUME NEW w \in Worker, CheckQueue(w)
        PROVE  NotLast'
    BY <2>4 DEF CheckQueue, Queue!is_empty, Goto, NotLast, TypeOK, queue_vars
  <2>5. ASSUME NEW w \in Worker, ScanFlags(w)
        PROVE  NotLast'
    BY <2>5 DEF ScanFlags, Goto, NotLast, TypeOK, queue_vars
  <2>6. ASSUME NEW w \in Worker, ~ CheckQueue(w), ~ ScanFlags(w), WorkerStep(w)
        PROVE  NotLast'
    <3>1. pc'[w] \notin {"scan", "exited"}
      <4> USE DEF TypeOK, Goto
      <4>1. CASE PushFound(w)
        BY <4>1, PushOne
      <4>2. CASE GateTest(w) \/ GateBlock(w) \/ TryPop(w) \/ PopWait(w) \/ PopTake(w)
        BY <4>2 DEF GateTest, GateBlock, TryPop, PopWait, PopTake
      <4>3. CASE SetInWork(w) \/ FetchPage(w) \/ FetchNothing(w) \/ AddWords(w) \/ Throw(w)
        BY <4>3 DEF SetInWork, FetchPage, FetchNothing, AddWords, Throw
      <4>4. CASE CountRead(w) \/ CountWrite(w) \/ ClearInWork(w)
        BY <4>4 DEF CountRead, CountWrite, ClearInWork
      <4>5. QED
        BY <2>6, <4>1, <4>2, <4>3, <4>4 DEF WorkerStep
    <3>2. QED
      BY <3>1 DEF NotLast
  <2>7. CASE UNCHANGED vars \/ \E w \in Worker : SpuriousWakeup(w)
    BY <2>7 DEF vars, SpuriousWakeup, Queue!spurious_wakeup, NotLast, queue_vars
  <2>8. QED
    BY <2>1, <2>2, <2>3, <2>4, <2>5, <2>6, <2>7 DEF Next
<1>3. QED
  BY <1>1, <1>2, TypeCorrect, LifecycleInv, PTL DEF Spec
-----------------------------------------------------------------------------
(* A listed address keeps its depth, so whether it is expanded is settled. *)
LEMMA ListedIsSettled ==
    ASSUME TypeOK, Lifecycle, StartFirst, [Next]_vars
    PROVE  /\ list_of_urls \subseteq list_of_urls'
           /\ UNCHANGED web
           /\ \A u \in list_of_urls : depth_of'[u] = depth_of[u]
<1>1. CASE SubmitStartUrl
  BY <1>1 DEF SubmitStartUrl, StartFirst
<1>2. ASSUME NEW w \in Worker, PopTake(w) \/ ClearInWork(w)
      PROVE  UNCHANGED <<list_of_urls, web, depth_of>>
  BY <1>2 DEF PopTake, ClearInWork, Queue!sq_pop_take, queue_vars, history_vars
<1>3. ASSUME NEW w \in Worker, PushFound(w)
      PROVE  /\ list_of_urls \subseteq list_of_urls'
             /\ UNCHANGED web
             /\ \A u \in list_of_urls : depth_of'[u] = depth_of[u]
  <2>1. PICK u \in found[w] :
           \/ UNCHANGED <<list_of_urls, depth_of>>
           \/ /\ u \notin list_of_urls
              /\ list_of_urls' = list_of_urls \cup {u}
              /\ depth_of' = [depth_of EXCEPT ![u] = task[w].url_depth + 1]
    BY <1>3, PushOne
  <2>2. UNCHANGED web
    BY <1>3, PushOne
  <2>3. QED
    BY <2>1, <2>2 DEF TypeOK, Queue!TypeOK
<1>4. CASE Still
  BY <1>4 DEF Still
<1>5. QED
  BY <1>1, <1>2, <1>3, <1>4, OtherStepsAreStill DEF Moves

LEMMA SettledExpands ==
    ASSUME TypeOK, Lifecycle, StartFirst, [Next]_vars, NEW u \in list_of_urls
    PROVE  /\ u \in list_of_urls'
           /\ Leads(u)' = Leads(u)
           /\ Expands(u)' <=> Expands(u)
           /\ Kept(u) => Kept(u)'
BY ListedIsSettled DEF Leads, Yields, Expands, ExpandsAt, MayExpand, Kept

(* The steps of a thread that changes neither found nor its stage of work. *)
Scans(w) == FetchPage(w) \/ FetchNothing(w) \/ AddWords(w)

LEMMA OtherStepsKeepStage ==
    ASSUME TypeOK, Lifecycle, [Next]_vars,
           \A w \in Worker : ~ Moves(w) /\ ~ Scans(w)
    PROVE  /\ UNCHANGED found
           /\ \A w \in Worker :
                 /\ pc'[w] \in {"index", "push"} => pc[w] \in {"index", "push"}
                 /\ pc'[w] \in {"count", "counted", "clear"}
                      => pc[w] \in {"count", "counted", "clear"}
<1> USE DEF TypeOK, Goto
<1>1. CASE MainStep
  BY <1>1, WorkerType DEF MainStep, StartDatabase, CreateThread, AllCreated,
     SubmitStartUrl, SetStartWork, NotifyStart, JoinThread, DeleteDatabase
<1>2. ASSUME NEW w \in Worker, WorkerStep(w)
      PROVE  /\ UNCHANGED found
             /\ \A v \in Worker \ {w} : pc'[v] = pc[v]
             /\ pc'[w] \notin {"index", "push"}
             /\ pc'[w] \in {"count", "counted", "clear"}
                  => pc[w] \in {"count", "counted", "clear"}
             \/ UNCHANGED <<found, pc>>
  <2>1. CASE GateTest(w) \/ GateBlock(w) \/ CheckQueue(w) \/ TryPop(w)
    BY <2>1 DEF GateTest, GateBlock, CheckQueue, TryPop
  <2>2. CASE PopWait(w) \/ ScanFlags(w) \/ SetInWork(w)
    BY <2>2 DEF PopWait, ScanFlags, SetInWork
  <2>3. CASE Throw(w) \/ CountRead(w) \/ CountWrite(w)
    BY <2>3 DEF Throw, CountRead, CountWrite
  <2>4. QED
    BY <1>2, <2>1, <2>2, <2>3 DEF WorkerStep, Moves, Scans
<1>3. CASE UNCHANGED vars \/ \E w \in Worker : SpuriousWakeup(w)
  BY <1>3 DEF vars, SpuriousWakeup
<1>4. QED
  BY <1>1, <1>2, <1>3 DEF Next

LEMMA UnmovedThread ==
    ASSUME TypeOK, Lifecycle, StartFirst, Whereabouts, [Next]_vars,
           NEW w \in Worker, PushesAll(w),
           task'[w] = task[w], found'[w] = found[w],
           pc'[w] \in {"index", "push"} => pc[w] \in {"index", "push"},
           pc'[w] \in {"count", "counted", "clear"}
              => pc[w] \in {"count", "counted", "clear"}
    PROVE  PushesAll(w)'
<1>1. CASE pc'[w] \in {"index", "push", "count", "counted", "clear"}
  <2>1. task[w].url \in list_of_urls
    BY <1>1 DEF Whereabouts, InHand, Holding
  <2>2. PICK u \in list_of_urls : u = task[w].url
    BY <2>1
  <2>3. /\ list_of_urls \subseteq list_of_urls'
        /\ Leads(u)' = Leads(u)
        /\ Expands(u)' <=> Expands(u)
        /\ Kept(u) => Kept(u)'
    BY ListedIsSettled, SettledExpands
  <2>4. QED
    BY <2>2, <2>3 DEF PushesAll
<1>2. CASE pc'[w] \notin {"index", "push", "count", "counted", "clear"}
  BY <1>2 DEF PushesAll
<1>3. QED
  BY <1>1, <1>2

(* No link of an expanded page is ever lost on its way to the queue.       *)
LEMMA LinksKeptInv == Spec => []LinksKept
<1>1. Init => LinksKept
  BY DEF Init, LinksKept, PushesAll
<1>2. ASSUME TypeOK, Lifecycle, StartFirst, Whereabouts, DepthCarried, LinksKept,
             [Next]_vars
      PROVE  LinksKept'
  <2> USE <1>2
  <2>1. ASSUME NEW u \in finished
        PROVE  Kept(u)'
    BY SettledExpands DEF Whereabouts, LinksKept
  <2>2. SUFFICES /\ \A w \in Worker : PushesAll(w)'
                 /\ \A u \in finished' \ finished : Kept(u)'
    BY <2>1 DEF LinksKept
  <2>3. ASSUME NEW w \in Worker, PopTake(w)
        PROVE  /\ \A v \in Worker : PushesAll(v)'
               /\ finished' = finished
    <3>1. /\ UNCHANGED <<found, finished>>
          /\ pc'[w] = "popped"
          /\ \A v \in Worker \ {w} : task'[v] = task[v] /\ pc'[v] = pc[v]
      BY <2>3 DEF PopTake, TypeOK, Goto, history_vars
    <3>2. PushesAll(w)'
      BY <3>1 DEF PushesAll
    <3>3. \A v \in Worker \ {w} : PushesAll(v)'
      BY <3>1, UnmovedThread DEF LinksKept
    <3>4. QED
      BY <3>1, <3>2, <3>3
  <2>4. ASSUME NEW w \in Worker, Scans(w)
        PROVE  /\ \A v \in Worker : PushesAll(v)'
               /\ finished' = finished
    <3>1. /\ UNCHANGED <<task, finished, list_of_urls, depth_of, web>>
          /\ \A v \in Worker \ {w} : found'[v] = found[v] /\ pc'[v] = pc[v]
      BY <2>4 DEF Scans, FetchPage, FetchNothing, AddWords, TypeOK, Goto,
         queue_vars, history_vars
    <3>2. \A v \in Worker \ {w} : PushesAll(v)'
      BY <3>1, UnmovedThread DEF LinksKept
    <3>3. PushesAll(w)'
      <4> USE DEF PushesAll, Kept, Leads, Yields, Expands, ExpandsAt, MayExpand
      <4>1. CASE FetchPage(w)
        <5>1. /\ found'[w] = Links(w)
              /\ pc'[w] = "index" /\ pc[w] = "fetch"
              /\ web[task[w].url].status \in {"ok", "redirect"}
          BY <4>1 DEF FetchPage, TypeOK, Goto
        <5>2. task[w].url_depth = depth_of[task[w].url]
          BY <5>1 DEF DepthCarried, Holding
        <5>3. QED
          BY <3>1, <5>1, <5>2 DEF Links
      <4>2. CASE FetchNothing(w)
        <5>1. \/ pc'[w] = "count" /\ web[task[w].url].status = "refused"
              \/ pc'[w] = "hung"
          BY <4>2 DEF FetchNothing, TypeOK, Goto
        <5>2. QED
          BY <3>1, <5>1
      <4>3. CASE AddWords(w)
        <5>1. /\ found' = found
              /\ pc[w] = "index"
              /\ pc'[w] = IF found[w] = {} THEN "count" ELSE "push"
          BY <4>3 DEF AddWords, TypeOK, Goto
        <5>2. PushesAll(w)
          BY DEF LinksKept
        <5>3. QED
          BY <3>1, <5>1, <5>2
      <4>4. QED
        BY <2>4, <4>1, <4>2, <4>3 DEF Scans
    <3>4. QED
      BY <3>1, <3>2, <3>3
  <2>5. ASSUME NEW w \in Worker, PushFound(w)
        PROVE  /\ \A v \in Worker : PushesAll(v)'
               /\ finished' = finished
    <3>1. PICK x \in found[w] :
             /\ found' = [found EXCEPT ![w] = @ \ {x}]
             /\ pc' = [pc EXCEPT ![w] = IF found[w] = {x} THEN "count" ELSE "push"]
             /\ x \in list_of_urls'
      BY <2>5, PushOne
    <3>2. UNCHANGED <<task, finished>> /\ pc[w] = "push"
      BY <2>5, PushOne
    <3>3. /\ found'[w] = found[w] \ {x}
          /\ pc'[w] = IF found[w] = {x} THEN "count" ELSE "push"
          /\ \A v \in Worker \ {w} : found'[v] = found[v] /\ pc'[v] = pc[v]
      BY <3>1 DEF TypeOK
    <3>4. \A v \in Worker \ {w} : PushesAll(v)'
      BY <3>2, <3>3, UnmovedThread DEF LinksKept
    <3>5. PushesAll(w)'
      <4>1. task[w].url \in list_of_urls
        BY <3>2 DEF Whereabouts, InHand, Holding
      <4>2. PICK u \in list_of_urls : u = task[w].url
        BY <4>1
      <4>3. /\ list_of_urls \subseteq list_of_urls'
            /\ Leads(u)' = Leads(u)
            /\ Expands(u)' <=> Expands(u)
        BY ListedIsSettled, SettledExpands
      <4>4. /\ found[w] \subseteq Leads(u)
            /\ found[w] # {} => Expands(u)
            /\ Expands(u) => Leads(u) \subseteq found[w] \cup list_of_urls
        BY <3>2, <4>2 DEF LinksKept, PushesAll
      <4>5. /\ found'[w] \subseteq Leads(u)'
            /\ found'[w] # {} => Expands(u)'
            /\ Expands(u)' => Leads(u)' \subseteq found'[w] \cup list_of_urls'
        BY <3>1, <3>3, <4>3, <4>4
      <4>6. found[w] = {x} => Kept(u)'
        BY <3>3, <4>5 DEF Kept
      <4>7. QED
        BY <3>2, <3>3, <4>2, <4>5, <4>6 DEF PushesAll
    <3>6. QED
      BY <3>2, <3>4, <3>5
  <2>6. ASSUME NEW w \in Worker, ClearInWork(w)
        PROVE  /\ \A v \in Worker : PushesAll(v)'
               /\ \A u \in finished' \ finished : Kept(u)'
    <3>1. /\ UNCHANGED found
          /\ finished' = finished \cup {task[w].url}
          /\ pc[w] = "clear" /\ pc'[w] = "check"
          /\ \A v \in Worker \ {w} : task'[v] = task[v] /\ pc'[v] = pc[v]
      BY <2>6 DEF ClearInWork, TypeOK, Goto
    <3>2. PushesAll(w)'
      BY <3>1 DEF PushesAll
    <3>3. \A v \in Worker \ {w} : PushesAll(v)'
      BY <3>1, UnmovedThread DEF LinksKept
    <3>4. task[w].url \in list_of_urls /\ Kept(task[w].url)
      BY <3>1 DEF LinksKept, PushesAll, Whereabouts, InHand, Holding
    <3>5. \A u \in list_of_urls : Kept(u) => Kept(u)'
      BY SettledExpands
    <3>6. QED
      BY <3>1, <3>2, <3>3, <3>4, <3>5
  <2>7. ASSUME \A w \in Worker : ~ Moves(w) /\ ~ Scans(w)
        PROVE  /\ \A v \in Worker : PushesAll(v)'
               /\ finished' = finished
    <3>1. UNCHANGED <<task, finished>>
      BY <2>7, OtherStepsAreStill DEF Still, SubmitStartUrl, history_vars
    <3>2. QED
      BY <2>7, <3>1, OtherStepsKeepStage, UnmovedThread DEF LinksKept
  <2>8. QED
    BY <2>3, <2>4, <2>5, <2>6, <2>7 DEF Moves
<1>3. QED
  BY <1>1, <1>2, TypeCorrect, LifecycleInv, StartFirstInv, WhereaboutsInv,
     DepthCarriedInv, PTL DEF Spec

(* The queue depth of an address is the length of a path that the crawl    *)
(* may follow.                                                             *)
THEOREM DepthsArePaths == Spec => []DepthOnPath
<1>1. Init => DepthOnPath
  BY DEF Init, Queue!Init, DepthOnPath
<1>2. ASSUME TypeOK, Lifecycle, StartFirst, Whereabouts, DepthCarried, LinksKept,
             DepthOnPath, [Next]_vars
      PROVE  DepthOnPath'
  <2> USE <1>2
  <2> DEFINE LedTo(u, v) == /\ u \in Leads(v)
                            /\ Expands(v)
                            /\ depth_of[u] = depth_of[v] + 1
  <2>0. ASSUME NEW u \in list_of_urls, NEW v \in list_of_urls, LedTo(u, v)
        PROVE  LedTo(u, v)'
    BY <2>0, ListedIsSettled, SettledExpands
  <2>1. CASE SubmitStartUrl
    <3>1. list_of_urls' = {start_url} /\ depth_of'[start_url] = 1
      BY <2>1, SpiderAssumption
      DEF SubmitStartUrl, Queue!sq_push, Queue!insert, StartFirst, TypeOK
    <3>2. QED
      BY <3>1 DEF DepthOnPath
  <2>2. CASE list_of_urls' = list_of_urls
    BY <2>0, <2>2, ListedIsSettled, SpiderAssumption DEF DepthOnPath
  <2>3. ASSUME NEW w \in Worker, PushFound(w), list_of_urls' # list_of_urls
        PROVE  DepthOnPath'
    <3>1. PICK x \in found[w] :
             /\ x \in Url /\ x \notin list_of_urls
             /\ list_of_urls' = list_of_urls \cup {x}
             /\ depth_of' = [depth_of EXCEPT ![x] = task[w].url_depth + 1]
      BY <2>3, PushOne
    <3>2. depth_of'[x] = task[w].url_depth + 1
      BY <3>1 DEF TypeOK
    <3>3. pc[w] = "push"
      BY <2>3, PushOne
    <3>4. task[w].url \in list_of_urls /\ task[w].url_depth = depth_of[task[w].url]
      BY <3>3 DEF Whereabouts, InHand, Holding, DepthCarried
    <3>5. PICK v \in list_of_urls : v = task[w].url
      BY <3>4
    <3>6. x \in Leads(v) /\ Expands(v)
      BY <3>3, <3>5 DEF LinksKept, PushesAll
    <3>7. LedTo(x, v)'
      BY <3>2, <3>4, <3>5, <3>6, ListedIsSettled, SettledExpands
    <3>8. start_url \in list_of_urls /\ start_url # x
      BY <3>1, <3>3 DEF Lifecycle, StartFirst
    <3>9. depth_of'[start_url] = 1
      BY <3>8, ListedIsSettled DEF DepthOnPath
    <3>10. ASSUME NEW u \in list_of_urls' \ {start_url}
           PROVE  \E y \in list_of_urls' : LedTo(u, y)'
      <4>1. CASE u = x
        BY <3>1, <3>7, <4>1
      <4>2. CASE u # x
        <5>1. u \in list_of_urls
          BY <3>1, <4>2
        <5>2. PICK y \in list_of_urls : LedTo(u, y)
          BY <5>1 DEF DepthOnPath
        <5>3. LedTo(u, y)'
          BY <2>0, <5>1, <5>2
        <5>4. QED
          BY <3>1, <5>3
      <4>3. QED
        BY <4>1, <4>2
    <3>11. QED
      BY <3>9, <3>10 DEF DepthOnPath
  <2>4. CASE \A w \in Worker : ~ PushFound(w)
    <3>1. CASE Still
      BY <2>2, <3>1 DEF Still
    <3>2. ASSUME NEW w \in Worker, PopTake(w) \/ ClearInWork(w)
          PROVE  list_of_urls' = list_of_urls
      BY <3>2 DEF PopTake, ClearInWork, Queue!sq_pop_take, queue_vars
    <3>3. QED
      BY <2>1, <2>2, <2>4, <3>1, <3>2, OtherStepsAreStill DEF Moves
  <2>5. QED
    BY <2>2, <2>3, <2>4
<1>3. QED
  BY <1>1, <1>2, TypeCorrect, LifecycleInv, StartFirstInv, WhereaboutsInv,
     DepthCarriedInv, LinksKeptInv, PTL DEF Spec

(* When the last work thread has left, the crawl is complete.              *)
THEOREM LastOneLeavesNothing == Spec => []CrawlComplete
<1>1. ASSUME TypeOK, Lifecycle, StartFirst, Whereabouts, NotLast, LinksKept, AllExited
      PROVE  /\ urls_queue = <<>>
             /\ start_url \in finished
             /\ finished = list_of_urls
             /\ \A u \in finished : Expands(u) => Leads(u) \subseteq list_of_urls
  <2> USE <1>1
  <2>1. urls_queue = <<>>
    BY DEF NotLast, AllExited
  <2>2. Queued = {} /\ InHand = {}
    BY <2>1 DEF Queued, UrlsOf, InHand, AllExited, Holding
  <2>3. start_work
    BY DEF Lifecycle, AllExited
  <2>4. QED
    BY <2>1, <2>2, <2>3 DEF StartFirst, Whereabouts, LinksKept, Kept
<1>2. QED
  BY <1>1, TypeCorrect, LifecycleInv, StartFirstInv, WhereaboutsInv, NotLastInv,
     LinksKeptInv, PTL DEF CrawlComplete
-----------------------------------------------------------------------------
(* The pool implements Frontier.  The mapping reads the stage of an address *)
(* off the place it is in, which Whereabouts makes unique.                 *)
LEMMA StageCases ==
    ASSUME Whereabouts, NEW u \in Url
    PROVE  /\ stage[u] = "unseen" <=> u \notin list_of_urls
           /\ stage[u] = "waiting" <=> u \in Queued
           /\ stage[u] = "active" <=> u \in InHand
           /\ stage[u] = "finished" <=> u \in finished
BY DEF Whereabouts, stage, StageOf

LEMMA StageMoves ==
    ASSUME NEW a \in Url, NEW to, StageOf(a)' = to,
           \A u \in Url \ {a} : StageOf(u)' = StageOf(u)
    PROVE  stage' = [stage EXCEPT ![a] = to]
BY DEF stage

THEOREM PoolImplementsFrontier == Spec => ImplementsFrontier
<1>1. Init => F!Init
  BY SpiderAssumption
  DEF Init, Queue!Init, F!Init, stage, StageOf, Queued, UrlsOf, InHand, Holding,
      leads, Leads, Yields, Answer
<1>2. ASSUME TypeOK, Lifecycle, StartFirst, Whereabouts, Whereabouts', LinksKept,
             [Next]_vars
      PROVE  [F!Next]_(F!vars)
  <2> USE <1>2
  <2>1. web' = web => UNCHANGED leads
    BY DEF leads, Leads, Yields
  <2>2. CASE SubmitStartUrl
    <3>1. \A u \in Url : StageOf(u) = "unseen"
      BY <2>2, SubmitMoves DEF StageOf
    <3>2. /\ StageOf(start_url)' = "waiting"
          /\ \A u \in Url \ {start_url} : StageOf(u)' = "unseen"
      BY <2>2, SubmitMoves DEF StageOf
    <3>3. stage' = [stage EXCEPT ![start_url] = "waiting"]
      BY <3>1, <3>2, StageMoves, SpiderAssumption
    <3>4. \A u \in Url : stage[u] = "unseen"
      BY <3>1 DEF stage
    <3>5. F!Begin
      BY <2>1, <2>2, <3>3, <3>4, SubmitMoves, SpiderAssumption DEF F!Begin, F!Move
    <3>6. QED
      BY <3>5 DEF F!Next
  <2>3. ASSUME NEW w \in Worker, PopTake(w)
        PROVE  [F!Next]_(F!vars)
    <3>1. PICK a \in Url : a = task'[w].url
      BY <2>3, TakeMoves DEF Whereabouts, TypeOK, Queue!TypeOK
    <3>2. /\ StageOf(a) = "waiting" /\ StageOf(a)' = "active"
          /\ \A u \in Url \ {a} : StageOf(u)' = StageOf(u)
      BY <2>3, <3>1, TakeMoves DEF StageOf, Whereabouts
    <3>3. F!Claim(a)
      BY <2>1, <2>3, <3>2, TakeMoves, StageMoves DEF F!Claim, F!Move, stage
    <3>4. QED
      BY <3>3 DEF F!Next
  <2>4. ASSUME NEW w \in Worker, PushFound(w)
        PROVE  [F!Next]_(F!vars)
    <3>1. CASE UNCHANGED <<urls_queue, list_of_urls>> /\ Queued' = Queued
      <4>1. \A u \in Url : StageOf(u)' = StageOf(u)
        BY <2>4, <3>1, PushMoves DEF StageOf
      <4>2. QED
        BY <2>1, <2>4, <4>1, PushMoves DEF stage, F!vars
    <3>2. ASSUME NEW a \in found[w], a \notin list_of_urls, Queued' = Queued \cup {a}
          PROVE  [F!Next]_(F!vars)
      <4>1. a \in Url /\ pc[w] = "push" /\ task[w].url \in Url
        BY <2>4, PushOne DEF TypeOK, Queue!url_item
      <4>2. task[w].url \in InHand /\ a \in leads[task[w].url]
        BY <4>1 DEF InHand, Holding, LinksKept, PushesAll, leads
      <4>3. /\ StageOf(a) = "unseen" /\ StageOf(a)' = "waiting"
            /\ \A u \in Url \ {a} : StageOf(u)' = StageOf(u)
        BY <2>4, <3>2, PushMoves DEF StageOf, Whereabouts
      <4>4. F!Discover(a)
        <5>1. stage[task[w].url] = "active"
          BY <4>1, <4>2, StageCases
        <5>2. F!Move(a, "unseen", "waiting")
          BY <2>1, <2>4, <4>1, <4>3, PushMoves, StageMoves DEF F!Move, stage
        <5>3. QED
          BY <4>1, <4>2, <5>1, <5>2 DEF F!Discover
      <4>5. QED
        BY <4>1, <4>4 DEF F!Next
    <3>3. QED
      BY <2>4, <3>1, <3>2, PushMoves
  <2>5. ASSUME NEW w \in Worker, ClearInWork(w)
        PROVE  [F!Next]_(F!vars)
    <3>1. PICK a \in Url : a = task[w].url
      BY DEF TypeOK, Queue!url_item
    <3>2. /\ StageOf(a) = "active" /\ StageOf(a)' = "finished"
          /\ \A u \in Url \ {a} : StageOf(u)' = StageOf(u)
      BY <2>5, <3>1, FinishMoves DEF StageOf, Whereabouts
    <3>3. F!Finish(a)
      BY <2>1, <2>5, <3>2, FinishMoves, StageMoves DEF F!Finish, F!Move, stage
    <3>4. QED
      BY <3>3 DEF F!Next
  <2>6. CASE Still
    <3>1. UNCHANGED <<stage, leads>>
      BY <2>1, <2>6 DEF Still, stage, StageOf, Queued, InHand
    <3>2. QED
      BY <3>1 DEF F!vars
  <2>7. QED
    BY <2>2, <2>3, <2>4, <2>5, <2>6, OtherStepsAreStill DEF Moves
<1>3. QED
  BY <1>1, <1>2, TypeCorrect, LifecycleInv, StartFirstInv, WhereaboutsInv,
     LinksKeptInv, PTL DEF Spec, F!Spec, ImplementsFrontier

(* The pages finished, and the work threads that have counted theirs and   *)
(* are about to finish it: the most total_pages_processed may say.         *)
Clearing == {w \in Worker : pc[w] = "clear"}
Done == Cardinality(finished) + Cardinality(Clearing)

(* What a thread has read of the counter obeys the same bound, and goes on *)
(* obeying it because no step of another thread lowers the bound.          *)
Counted ==
    /\ IsFiniteSet(finished)
    /\ total_pages_processed <= Done
    /\ \A w \in Worker : pc[w] = "counted" => counter[w] <= Done

LEMMA DoneType ==
    ASSUME IsFiniteSet(finished)
    PROVE  /\ IsFiniteSet(Clearing)
           /\ Cardinality(Clearing) \in Nat /\ Cardinality(finished) \in Nat
<1>1. IsFiniteSet(Worker)
  BY CoresNumType, FS_Interval DEF Worker
<1>2. IsFiniteSet(Clearing)
  BY <1>1, FS_Subset DEF Clearing
<1>3. QED
  BY <1>2, FS_CardinalityType

(* A step that neither counts nor finishes a page.                         *)
CountsNothing ==
    /\ UNCHANGED <<finished, total_pages_processed, counter>>
    /\ \A w \in Worker : /\ pc'[w] = "clear" <=> pc[w] = "clear"
                         /\ pc'[w] = "counted" => pc[w] = "counted"

LEMMA OtherStepsCountNothing ==
    ASSUME TypeOK, Lifecycle, [Next]_vars,
           \A w \in Worker : ~ CountRead(w) /\ ~ CountWrite(w) /\ ~ ClearInWork(w)
    PROVE  CountsNothing
<1> USE DEF TypeOK, CountsNothing, Goto, main_vars, count_vars, history_vars
<1>1. CASE MainStep
  <2>1. CASE CreateThread
    BY <2>1, WorkerType DEF CreateThread, Lifecycle
  <2>2. QED
    BY <1>1, <2>1 DEF MainStep, StartDatabase, AllCreated, SubmitStartUrl,
       SetStartWork, NotifyStart, JoinThread, DeleteDatabase
<1>2. ASSUME NEW w \in Worker, WorkerStep(w)
      PROVE  CountsNothing
  <2>1. CASE GateTest(w) \/ GateBlock(w) \/ CheckQueue(w) \/ TryPop(w) \/ ScanFlags(w)
    BY <2>1 DEF GateTest, GateBlock, CheckQueue, TryPop, ScanFlags
  <2>2. CASE PopWait(w) \/ PopTake(w) \/ SetInWork(w)
    BY <2>2 DEF PopWait, PopTake, SetInWork
  <2>3. CASE FetchPage(w) \/ FetchNothing(w) \/ AddWords(w) \/ Throw(w)
    BY <2>3 DEF FetchPage, FetchNothing, AddWords, Throw
  <2>4. CASE PushFound(w)
    <3>1. \E p \in {"count", "push"} : pc' = [pc EXCEPT ![w] = p]
      BY <2>4, PushOne
    <3>2. QED
      BY <2>4, <3>1 DEF PushFound
  <2>5. QED
    BY <1>2, <2>1, <2>2, <2>3, <2>4 DEF WorkerStep
<1>3. ASSUME NEW w \in Worker, SpuriousWakeup(w)
      PROVE  CountsNothing
  BY <1>3 DEF SpuriousWakeup
<1>4. CASE UNCHANGED vars
  BY <1>4 DEF vars
<1>5. QED
  BY <1>1, <1>2, <1>3, <1>4 DEF Next

(* A page moves from the threads that are clearing to the finished ones:   *)
(* an address that is still in hand was not finished before.               *)
LEMMA FinishingKeepsDone ==
    ASSUME TypeOK, Whereabouts, IsFiniteSet(finished),
           NEW w \in Worker, ClearInWork(w)
    PROVE  IsFiniteSet(finished') /\ Done' = Done
<1>1. /\ finished' = finished \cup {task[w].url}
      /\ task[w].url \notin finished
  BY FinishMoves DEF Whereabouts
<1>2. IsFiniteSet(finished') /\ Cardinality(finished') = Cardinality(finished) + 1
  BY <1>1, FS_AddElement
<1>3. pc[w] = "clear" /\ pc' = [pc EXCEPT ![w] = "check"]
  BY DEF ClearInWork, Goto
<1>4. w \in Clearing /\ Clearing' = Clearing \ {w}
  BY <1>3 DEF TypeOK, Clearing
<1>5. Cardinality(Clearing') = Cardinality(Clearing) - 1
  BY <1>4, DoneType, FS_RemoveElement
<1>6. QED
  BY <1>2, <1>5, DoneType DEF Done

(* total_pages_processed++ loses pages when two threads read the same      *)
(* value, but never gets ahead of the pages processed.                     *)
THEOREM CounterLosesOnly == Spec => []CounterNeverOver
<1>1. Init => Counted
  <2> SUFFICES ASSUME Init PROVE Counted
    OBVIOUS
  <2>1. IsFiniteSet(finished)
    BY FS_EmptySet DEF Init
  <2>2. Done \in Nat
    BY <2>1, DoneType DEF Done
  <2>3. QED
    BY <2>1, <2>2 DEF Init, Counted
<1>2. ASSUME TypeOK, Lifecycle, Whereabouts, Counted, [Next]_vars
      PROVE  Counted'
  <2> USE <1>2
  <2>1. IsFiniteSet(finished) /\ Done \in Nat /\ total_pages_processed \in Nat
    BY DoneType DEF Counted, Done, TypeOK
  <2>2. ASSUME NEW w \in Worker, CountRead(w)
        PROVE  Counted'
    <3>1. /\ UNCHANGED <<finished, total_pages_processed>>
          /\ pc[w] = "count" /\ pc' = [pc EXCEPT ![w] = "counted"]
          /\ counter' = [counter EXCEPT ![w] = total_pages_processed]
      BY <2>2 DEF CountRead, Goto, history_vars
    <3>2. Clearing' = Clearing
      BY <3>1 DEF TypeOK, Clearing
    <3>3. Done' = Done
      BY <3>1, <3>2 DEF Done
    <3>4. QED
      BY <3>1, <3>3 DEF TypeOK, Counted
  <2>3. ASSUME NEW w \in Worker, CountWrite(w)
        PROVE  Counted'
    <3>1. /\ UNCHANGED finished
          /\ pc[w] = "counted" /\ pc' = [pc EXCEPT ![w] = "clear"]
          /\ total_pages_processed' = counter[w] + 1
          /\ counter' = [counter EXCEPT ![w] = 0]
      BY <2>3 DEF CountWrite, Goto, history_vars
    <3>2. w \notin Clearing /\ Clearing' = Clearing \cup {w}
      BY <3>1 DEF TypeOK, Clearing
    <3>3. Done' = Done + 1
      <4>1. Cardinality(Clearing') = Cardinality(Clearing) + 1
        BY <2>1, <3>2, DoneType, FS_AddElement
      <4>2. QED
        BY <2>1, <3>1, <4>1, DoneType DEF Done
    <3>4. /\ counter[w] \in Nat /\ counter[w] <= Done
          /\ \A v \in Worker : counter[v] \in Nat
      BY <3>1 DEF TypeOK, Counted
    <3>5. \A v \in Worker : pc'[v] = "counted" => /\ pc[v] = "counted"
                                                  /\ counter'[v] = counter[v]
      BY <3>1 DEF TypeOK
    <3>6. \A v \in Worker : pc'[v] = "counted" => counter'[v] <= Done'
      BY <2>1, <3>3, <3>4, <3>5 DEF Counted
    <3>7. total_pages_processed' <= Done'
      BY <2>1, <3>1, <3>3, <3>4
    <3>8. QED
      BY <3>1, <3>6, <3>7 DEF Counted
  <2>4. ASSUME NEW w \in Worker, ClearInWork(w)
        PROVE  Counted'
    <3>1. IsFiniteSet(finished') /\ Done' = Done
      BY <2>1, <2>4, FinishingKeepsDone
    <3>2. /\ UNCHANGED <<total_pages_processed, counter>>
          /\ \A v \in Worker : pc'[v] = "counted" => pc[v] = "counted"
      BY <2>4 DEF ClearInWork, Goto, TypeOK, count_vars
    <3>3. QED
      BY <3>1, <3>2 DEF Counted
  <2>5. CASE CountsNothing
    <3>1. Clearing' = Clearing
      BY <2>5 DEF CountsNothing, Clearing
    <3>2. Done' = Done
      BY <2>5, <3>1 DEF CountsNothing, Done
    <3>3. QED
      BY <2>5, <3>2 DEF CountsNothing, Counted
  <2>6. QED
    BY <2>2, <2>3, <2>4, <2>5, OtherStepsCountNothing
<1>3. Counted => CounterNeverOver
  BY DEF Counted, CounterNeverOver, Done, Clearing
<1>4. QED
  BY <1>1, <1>2, <1>3, TypeCorrect, LifecycleInv, WhereaboutsInv, PTL DEF Spec

-----------------------------------------------------------------------------
(* A work thread alone finds every address at its least distance from      *)
(* start_url: it takes the oldest item first, which is the shallowest, so  *)
(* all that is nearer is finished before what is further is listed.        *)

(* What the addresses of s are linked to, if they are at depth n.          *)
Deeper(s, n) ==
    {start_url} \cup s \cup UNION {web[u].urls : u \in {v \in s : ExpandsAt(v, n - 1)}}

(* The levels of BreadthFirst are those that go from each to the next.     *)
LEMMA WithinIterates ==
    ASSUME TypeOK, IsFiniteSet(Url)
    PROVE  LET N == Cardinality(Url)
           IN /\ N \in Nat
              /\ within \in [0 .. N -> SUBSET Url]
              /\ within[0] = {}
              /\ \A k \in 1 .. N : within[k] = Deeper(within[k - 1], k)
<1> DEFINE N == Cardinality(Url)
           Step == [p \in (SUBSET Url) \X (1 .. N) |-> Deeper(p[1], p[2])]
           Layers(f) == f = [n \in 0 .. N |->
                                IF n = 0 THEN {}
                                ELSE {start_url} \cup f[n - 1]
                                     \cup UNION {web[u].urls : u \in {v \in f[n - 1] : ExpandsAt(v, n - 1)}}]
<1>1. N \in Nat
  BY FS_CardinalityType
<1>2. ASSUME NEW s \in SUBSET Url, NEW n
      PROVE  Deeper(s, n) \in SUBSET Url
  BY SpiderAssumption DEF TypeOK, Answer, Deeper
<1>3. Step \in [(SUBSET Url) \X (1 .. N) -> SUBSET Url]
  BY <1>2
<1>4. \A s \in SUBSET Url, n \in 1 .. N : Step[<<s, n>>] = Deeper(s, n)
  OBVIOUS
<1>5. PICK f : Iterates(f, SUBSET Url, {}, N, Step)
  <2>1. {} \in SUBSET Url
    OBVIOUS
  <2> HIDE DEF Step, N
  <2>2. QED
    BY <1>1, <1>3, <2>1, Iteration
<1> HIDE DEF Step, N
<1>6. Layers(f)
  <2>1. f = [n \in 0 .. N |-> f[n]]
    BY <1>5 DEF Iterates
  <2>2. ASSUME NEW n \in 0 .. N
        PROVE  f[n] = IF n = 0 THEN {} ELSE Deeper(f[n - 1], n)
    <3>1. CASE n = 0
      BY <1>5, <3>1 DEF Iterates
    <3>2. CASE n # 0
      <4>1. n \in 1 .. N /\ n - 1 \in 0 .. N
        BY <1>1, <3>2
      <4>2. QED
        BY <1>4, <1>5, <3>2, <4>1 DEF Iterates
    <3>3. QED
      BY <3>1, <3>2
  <2>3. QED
    BY <2>1, <2>2, Zenon DEF Deeper
<1>7. Layers(within)
  <2>1. within = CHOOSE g : Layers(g)
    BY DEF within, N
  <2> HIDE DEF Layers
  <2>2. QED
    BY <1>6, <2>1
<1>8. /\ DOMAIN within = 0 .. N
      /\ within[0] = {}
      /\ \A k \in 1 .. N : within[k] = Deeper(within[k - 1], k)
  <2>1. 0 \in 0 .. N /\ \A k \in 1 .. N : k \in 0 .. N /\ k # 0
    BY <1>1
  <2>2. QED
    BY <1>7, <2>1 DEF Deeper
<1>9. within \in [0 .. N -> SUBSET Url]
  <2> DEFINE S == {k \in 0 .. N : within[k] \in SUBSET Url}
  <2>1. 0 \in S
    BY <1>1, <1>8
  <2>2. ASSUME NEW k \in 0 .. N - 1, k \in S
        PROVE  k + 1 \in S
    <3>1. k + 1 \in 1 .. N /\ (k + 1) - 1 = k /\ k + 1 \in 0 .. N
      BY <1>1
    <3>2. within[k + 1] = Deeper(within[k], k + 1)
      BY <1>8, <3>1
    <3>3. QED
      BY <1>2, <2>2, <3>1, <3>2
  <2> HIDE DEF S
  <2>3. 0 .. N \subseteq S
    BY <1>1, <2>1, <2>2, RangeInduction
  <2>4. \A k \in 0 .. N : within[k] \in SUBSET Url
    BY <2>3 DEF S
  <2>5. within = [k \in 0 .. N |-> within[k]]
    BY <1>7
  <2> HIDE DEF Layers
  <2>6. QED
    BY <2>4, <2>5
<1>10. QED
  BY <1>1, <1>8, <1>9 DEF N

(* Oldest first is shallowest first: the depths in the queue do not fall,  *)
(* and differ by one at most, also from what is being scanned.             *)
Order ==
    /\ \A i, j \in DOMAIN urls_queue : i =< j =>
          /\ urls_queue[i].url_depth =< urls_queue[j].url_depth
          /\ urls_queue[j].url_depth =< urls_queue[i].url_depth + 1
    /\ \A w \in Worker : pc[w] \in Holding =>
          \A i \in DOMAIN urls_queue :
             /\ task[w].url_depth =< urls_queue[i].url_depth
             /\ urls_queue[i].url_depth =< task[w].url_depth + 1

(* An address is at its distance, which the addresses listed bound.        *)
Levels ==
    /\ list_of_urls # {} => start_url \in list_of_urls
    /\ \A u \in list_of_urls :
          /\ depth_of[u] \in 1 .. Cardinality(list_of_urls)
          /\ u \in within[depth_of[u]] \ within[depth_of[u] - 1]

(* The invariants of the crawl that these two need.                        *)
Facts == TypeOK /\ Lifecycle /\ StartFirst /\ Whereabouts /\ DepthCarried /\ LinksKept

(* No more addresses are listed than there are.                            *)
LEMMA ListedBound ==
    ASSUME TypeOK, IsFiniteSet(Url)
    PROVE  /\ IsFiniteSet(list_of_urls)
           /\ Cardinality(list_of_urls) \in Nat
           /\ Cardinality(list_of_urls) =< Cardinality(Url)
BY FS_Subset, FS_CardinalityType DEF TypeOK, Queue!TypeOK

(* An address within a distance is within every greater one.               *)
LEMMA WithinGrows ==
    ASSUME TypeOK, IsFiniteSet(Url), NEW k \in 0 .. Cardinality(Url), NEW j \in 0 .. k
    PROVE  within[j] \subseteq within[k]
<1> DEFINE N == Cardinality(Url)
           S == {i \in 0 .. N : j =< i => within[j] \subseteq within[i]}
<1>1. N \in Nat /\ \A i \in 1 .. N : within[i - 1] \subseteq within[i]
  BY WithinIterates DEF Deeper
<1> HIDE DEF N
<1>2. 0 \in S
  BY <1>1
<1>3. ASSUME NEW i \in 0 .. N - 1, i \in S
      PROVE  i + 1 \in S
  <2>1. i + 1 \in 1 .. N /\ (i + 1) - 1 = i /\ i + 1 \in 0 .. N
    BY <1>1
  <2>2. within[i] \subseteq within[i + 1]
    BY <1>1, <2>1
  <2>3. CASE j =< i
    BY <1>3, <2>1, <2>2, <2>3
  <2>4. CASE ~ j =< i
    <3>1. j =< i + 1 => j = i + 1
      BY <2>4
    <3>2. QED
      BY <2>1, <3>1
  <2>5. QED
    BY <2>3, <2>4
<1> HIDE DEF S
<1>4. 0 .. N \subseteq S
  BY <1>1, <1>2, <1>3, RangeInduction
<1>5. QED
  BY <1>4 DEF S, N

(* While the web stays, so do the levels.                                  *)
LEMMA WithinStays ==
    ASSUME UNCHANGED web
    PROVE  within' = within
BY DEF within, ExpandsAt, MayExpand

(* A page whose links are followed at a depth has them followed sooner.    *)
LEMMA ExpandsEarlier ==
    ASSUME NEW u, NEW d \in Nat, NEW k \in Nat, k =< d, ExpandsAt(u, d)
    PROVE  ExpandsAt(u, k)
<1>1. (max_depth - 1) % UIntSize \in Int
  BY SpiderAssumption
<1> DEFINE most == (max_depth - 1) % UIntSize
<1> HIDE DEF most
<1>2. d =< most => k =< most
  BY <1>1 DEF most
<1>3. QED
  BY <1>2 DEF ExpandsAt, MayExpand, most

(* If all that is shallower than d is finished, all within d is listed.    *)
LEMMA ShallowIsListed ==
    ASSUME TypeOK, IsFiniteSet(Url), Levels, LinksKept, start_url \in list_of_urls,
           NEW d \in 0 .. Cardinality(Url),
           \A u \in list_of_urls : depth_of[u] < d => u \in finished
    PROVE  within[d] \subseteq list_of_urls
<1> DEFINE N == Cardinality(Url)
           S == {k \in 0 .. d : within[k] \subseteq list_of_urls}
<1>1. N \in Nat /\ d \in Nat /\ within[0] = {}
  BY WithinIterates
<1>2. 0 \in S
  BY <1>1
<1>3. ASSUME NEW k \in 0 .. d - 1, k \in S
      PROVE  k + 1 \in S
  <2>1. k \in Nat /\ k + 1 \in 1 .. N /\ (k + 1) - 1 = k /\ k + 1 \in 0 .. d
    BY <1>1
  <2>2. within[k + 1] = Deeper(within[k], k + 1)
    BY <2>1, WithinIterates
  <2>3. ASSUME NEW y \in within[k], ExpandsAt(y, k)
        PROVE  web[y].urls \subseteq list_of_urls
    <3>1. y \in list_of_urls
      BY <1>3
    <3>2. depth_of[y] \in Nat /\ depth_of[y] >= 1 /\ depth_of[y] =< N /\ y \notin within[depth_of[y] - 1]
      <4>1. depth_of[y] \in 1 .. Cardinality(list_of_urls) /\ y \notin within[depth_of[y] - 1]
        BY <3>1 DEF Levels
      <4>2. Cardinality(list_of_urls) \in Nat /\ Cardinality(list_of_urls) =< N
        BY ListedBound
      <4> DEFINE c == Cardinality(list_of_urls)
      <4> HIDE DEF c, N
      <4>3. QED
        BY <1>1, <4>1, <4>2 DEF c
    <3>3. depth_of[y] =< k
      <4> SUFFICES ASSUME depth_of[y] > k PROVE FALSE
        BY <2>1, <3>2
      <4> DEFINE e == depth_of[y] - 1
      <4>1. e \in 0 .. N /\ k \in 0 .. e
        BY <1>1, <2>1, <3>2
      <4> HIDE DEF e
      <4>2. within[k] \subseteq within[e]
        BY <4>1, WithinGrows
      <4>3. QED
        BY <3>2, <4>2 DEF e
    <3>4. y \in finished
      BY <2>1, <3>1, <3>2, <3>3
    <3>5. Expands(y)
      BY <2>1, <2>3, <3>2, <3>3, ExpandsEarlier DEF Expands
    <3>6. Leads(y) \subseteq list_of_urls
      BY <3>4, <3>5 DEF LinksKept, Kept
    <3>7. QED
      BY <3>5, <3>6 DEF Leads, Yields, Expands, ExpandsAt
  <2>4. Deeper(within[k], k + 1) \subseteq list_of_urls
    BY <1>3, <2>1, <2>3 DEF Deeper
  <2>5. QED
    BY <2>1, <2>2, <2>4
<1> HIDE DEF S
<1>4. d \in S
  <2>1. 0 .. d \subseteq S
    BY <1>1, <1>2, <1>3, RangeInduction
  <2>2. QED
    BY <1>1, <2>1
<1>5. QED
  BY <1>4 DEF S

(* The pool has one work thread.                                           *)
Sole == Worker = {0}

(* Taking the oldest and adding last what is one deeper keeps the order.   *)
LEMMA OrderStep ==
    ASSUME Sole, Facts, Order, [Next]_vars
    PROVE  Order'
<1> USE DEF Facts
<1>1. CASE SubmitStartUrl
  <2>1. DOMAIN urls_queue' = {1} /\ \A w \in Worker : pc'[w] \notin Holding
    BY <1>1, SubmitMoves DEF InHand
  <2>2. urls_queue'[1].url_depth \in Nat
    <3>1. urls_queue = <<>>
      BY <1>1, SubmitMoves, NoUrls DEF TypeOK, Queue!TypeOK, Queued
    <3>2. urls_queue' = <<[url |-> start_url, url_depth |-> 1]>>
      BY <1>1, <3>1, SubmitMoves DEF SubmitStartUrl, Queue!sq_push, Queue!insert
    <3>3. QED
      BY <3>2
  <2>3. QED
    BY <2>1, <2>2 DEF Order
<1>2. ASSUME NEW w \in Worker, PushFound(w)
      PROVE  Order'
  <2>1. w = 0 /\ Worker = {0} /\ pc[w] = "push" /\ task' = task
    BY <1>2, PushOne DEF Sole
  <2>2. CASE UNCHANGED urls_queue
    BY <2>1, <2>2 DEF Order, Holding
  <2>3. CASE ~ UNCHANGED urls_queue
    <3>1. PICK item \in Queue!url_item :
                /\ item.url_depth = task[w].url_depth + 1
                /\ urls_queue' = Append(urls_queue, item)
      BY <1>2, <2>3, PushOne
    <3>2. urls_queue \in Seq(Queue!url_item) /\ task[w].url_depth \in Nat
      BY DEF TypeOK, Queue!TypeOK, Queue!url_item
    <3> DEFINE q == urls_queue
               d == task[w].url_depth
               r == Append(q, item)
               Items == Queue!url_item
    <3>3. /\ DOMAIN q = 1 .. Len(q) /\ Len(q) \in Nat
          /\ DOMAIN r = 1 .. Len(q) + 1 /\ r[Len(q) + 1] = item
          /\ \A i \in DOMAIN q : q[i].url_depth \in Nat /\ i \in Nat /\ r[i] = q[i]
      <4>1. \A e \in Items : e.url_depth \in Nat
        BY DEF Queue!url_item
      <4>2. q \in Seq(Items) /\ item \in Items
        BY <3>1, <3>2
      <4> HIDE DEF Items, q
      <4>3. /\ DOMAIN q = 1 .. Len(q) /\ Len(q) \in Nat
            /\ \A i \in DOMAIN q : q[i] \in Items /\ i \in Nat
        BY <4>2
      <4>4. /\ DOMAIN r = 1 .. Len(q) + 1 /\ r[Len(q) + 1] = item
            /\ \A i \in 1 .. Len(q) : r[i] = q[i]
        BY <4>2
      <4>5. QED
        BY <4>1, <4>3, <4>4
    <3>4. /\ \A i \in DOMAIN q : d =< q[i].url_depth /\ q[i].url_depth =< d + 1
          /\ \A i, j \in DOMAIN q : i =< j => q[i].url_depth =< q[j].url_depth
                                              /\ q[j].url_depth =< q[i].url_depth + 1
      BY <2>1 DEF Order, Holding
    <3> HIDE DEF q, d, r
    <3>5. \A i \in DOMAIN r : d =< r[i].url_depth /\ r[i].url_depth =< d + 1
      <4> SUFFICES ASSUME NEW i \in DOMAIN r PROVE d =< r[i].url_depth /\ r[i].url_depth =< d + 1
        OBVIOUS
      <4>1. CASE i = Len(q) + 1
        BY <3>1, <3>2, <3>3, <4>1 DEF d
      <4>2. CASE i # Len(q) + 1
        BY <3>3, <3>4, <4>2
      <4>3. QED
        BY <4>1, <4>2
    <3>6. ASSUME NEW i \in DOMAIN r, NEW j \in DOMAIN r, i =< j
          PROVE  r[i].url_depth =< r[j].url_depth /\ r[j].url_depth =< r[i].url_depth + 1
      <4>1. CASE j = Len(q) + 1
        <5>1. r[j].url_depth = d + 1 /\ d \in Nat
          BY <3>1, <3>2, <3>3, <4>1 DEF d
        <5>2. r[i].url_depth \in Nat
          BY <3>1, <3>3 DEF Queue!url_item
        <5>3. QED
          BY <3>5, <5>1, <5>2
      <4>2. CASE j # Len(q) + 1
        <5>1. i \in DOMAIN q /\ j \in DOMAIN q
          BY <3>3, <3>6, <4>2
        <5>2. QED
          BY <3>3, <3>4, <3>6, <5>1
      <4>3. QED
        BY <4>1, <4>2
    <3>7. urls_queue' = r
      BY <3>1 DEF r, q
    <3>8. QED
      BY <2>1, <3>5, <3>6, <3>7 DEF Order, d
  <2>4. QED
    BY <2>2, <2>3
<1>3. ASSUME NEW w \in Worker, PopTake(w)
      PROVE  Order'
  <2>1. w = 0 /\ Worker = {0}
    BY <1>3 DEF Sole
  <2> DEFINE q == urls_queue
             r == Tail(q)
  <2>2. /\ q # <<>> /\ q \in Seq(Queue!url_item)
        /\ urls_queue' = r /\ task'[w] = Head(q)
    BY <1>3 DEF PopTake, Queue!sq_pop_take, Queue!is_empty, TypeOK, Queue!TypeOK
  <2>3. /\ DOMAIN q = 1 .. Len(q) /\ Len(q) \in Nat \ {0}
        /\ DOMAIN r = 1 .. Len(q) - 1
        /\ \A i \in DOMAIN r : r[i] = q[i + 1]
        /\ Head(q) = q[1]
    BY <2>2
  <2>4. \A i, j \in DOMAIN q : i =< j => q[i].url_depth =< q[j].url_depth
                                         /\ q[j].url_depth =< q[i].url_depth + 1
    BY DEF Order
  <2> HIDE DEF q, r
  <2>5. ASSUME NEW i \in DOMAIN r
        PROVE  /\ Head(q).url_depth =< r[i].url_depth /\ r[i].url_depth =< Head(q).url_depth + 1
               /\ i + 1 \in DOMAIN q /\ r[i] = q[i + 1] /\ i \in Nat
    <3>1. 1 \in DOMAIN q /\ i + 1 \in DOMAIN q /\ 1 =< i + 1 /\ i \in Nat
      BY <2>3
    <3>2. QED
      BY <2>3, <2>4, <3>1
  <2>6. ASSUME NEW i \in DOMAIN r, NEW j \in DOMAIN r, i =< j
        PROVE  r[i].url_depth =< r[j].url_depth /\ r[j].url_depth =< r[i].url_depth + 1
    <3>1. i + 1 =< j + 1
      BY <2>5, <2>6
    <3>2. QED
      BY <2>4, <2>5, <3>1
  <2>7. QED
    BY <2>1, <2>2, <2>5, <2>6 DEF Order
<1>4. ASSUME NEW w \in Worker, ClearInWork(w)
      PROVE  Order'
  BY <1>4, FinishMoves DEF Sole, Order, Holding
<1>5. CASE Still
  BY <1>5 DEF Still, Order
<1>6. QED
  BY <1>1, <1>2, <1>3, <1>4, <1>5, OtherStepsAreStill DEF Moves

(* An address that a thread lists, being alone, is one further than what   *)
(* it scans: all that is not further is listed already.                    *)
LEMMA NewIsFurther ==
    ASSUME Sole, IsFiniteSet(Url), Facts, Order, Levels, NEW w \in Worker, PushFound(w),
           NEW u \in found[w], u \notin list_of_urls
    PROVE  LET d == task[w].url_depth
           IN /\ d \in 1 .. Cardinality(list_of_urls)
              /\ d + 1 \in 1 .. Cardinality(Url)
              /\ u \in Url
              /\ u \in within[d + 1] \ within[d]
<1> USE DEF Facts
<1> DEFINE d == task[w].url_depth
           v == task[w].url
           N == Cardinality(Url)
           c == Cardinality(list_of_urls)
<1>1. w = 0 /\ Worker = {0} /\ pc[w] = "push"
  BY PushOne DEF Sole
<1>2. /\ v \in InHand /\ v \in list_of_urls /\ d = depth_of[v]
  BY <1>1 DEF InHand, Holding, Whereabouts, DepthCarried
<1>3. u \in Leads(v) /\ Expands(v)
  BY <1>1 DEF LinksKept, PushesAll
<1>4. u \in web[v].urls /\ ExpandsAt(v, d)
  BY <1>2, <1>3 DEF Leads, Yields, Expands
<1>5. d \in 1 .. c /\ v \in within[d]
  BY <1>2 DEF Levels
<1>6. u \in Url
  BY <1>4 DEF TypeOK, Answer, Queue!TypeOK, Queue!url_item
<1>7. c \in Nat /\ N \in Nat /\ c + 1 =< N
  <2>1. list_of_urls \cup {u} \subseteq Url
    BY <1>6 DEF TypeOK, Queue!TypeOK
  <2>2. IsFiniteSet(list_of_urls) /\ c \in Nat
    BY ListedBound
  <2>3. Cardinality(list_of_urls \cup {u}) = c + 1
    BY <2>2, FS_AddElement
  <2>4. Cardinality(list_of_urls \cup {u}) =< N /\ N \in Nat
    BY <2>1, FS_Subset, FS_CardinalityType
  <2>5. QED
    BY <2>2, <2>3, <2>4
<1> HIDE DEF d, v, N, c
<1>8. d \in Nat /\ d + 1 \in 1 .. N /\ d \in 0 .. N /\ (d + 1) - 1 = d
  BY <1>5, <1>7
<1>9. u \in within[d + 1]
  <2>1. within[d + 1] = Deeper(within[d], d + 1)
    BY <1>8, WithinIterates DEF N
  <2>2. QED
    BY <1>4, <1>5, <1>8, <2>1 DEF Deeper
<1>10. ASSUME NEW y \in list_of_urls, depth_of[y] < d
       PROVE  y \in finished
  <2>1. depth_of[y] \in Int
    BY DEF Levels
  <2>2. y \notin Queued
    <3> SUFFICES ASSUME NEW i \in DOMAIN urls_queue, urls_queue[i].url = y PROVE FALSE
      BY DEF Queued, UrlsOf
    <3>1. urls_queue[i].url_depth = depth_of[y]
      BY DEF DepthCarried
    <3>2. d =< urls_queue[i].url_depth
      BY <1>1 DEF Order, Holding, d
    <3>3. QED
      BY <1>8, <1>10, <2>1, <3>1, <3>2
  <2>3. y \notin InHand
    <3> SUFFICES ASSUME y \in InHand PROVE FALSE
      OBVIOUS
    <3>1. y = v
      BY <1>1 DEF InHand, v
    <3>2. QED
      BY <1>2, <1>8, <1>10, <3>1
  <2>4. QED
    BY <2>2, <2>3 DEF Whereabouts
<1>11. u \notin within[d]
  <2>1. start_url \in list_of_urls
    BY <1>2 DEF Levels
  <2>2. within[d] \subseteq list_of_urls
    BY <1>8, <1>10, <2>1, ShallowIsListed DEF N
  <2>3. QED
    BY <2>2
<1>12. QED
  BY <1>5, <1>6, <1>8, <1>9, <1>11 DEF d, c, N

(* Only submitting start_url and pushing a link list an address, each at   *)
(* its level.                                                              *)
LEMMA LevelsStep ==
    ASSUME Sole, IsFiniteSet(Url), Facts, Order, Levels, [Next]_vars
    PROVE  Levels'
<1> USE DEF Facts
<1>1. /\ list_of_urls \subseteq list_of_urls' /\ within' = within
      /\ \A u \in list_of_urls : depth_of'[u] = depth_of[u]
  BY ListedIsSettled, WithinStays
<1>2. CASE list_of_urls' = list_of_urls
  BY <1>1, <1>2 DEF Levels
<1>3. CASE SubmitStartUrl
  <2>1. list_of_urls' = {start_url}
    BY <1>3, SubmitMoves
  <2>2. depth_of'[start_url] = 1
    BY <1>3, SpiderAssumption DEF SubmitStartUrl, TypeOK
  <2>3. Cardinality({start_url}) = 1
    BY FS_Singleton
  <2>4. Cardinality(Url) \in Nat /\ 1 =< Cardinality(Url)
    BY <2>3, SpiderAssumption, FS_Subset, FS_CardinalityType, {start_url} \subseteq Url
  <2>5. within[0] = {} /\ within[1] = Deeper(within[0], 1)
    BY <2>4, WithinIterates
  <2>6. start_url \in within[1] \ within[1 - 1]
    BY <2>5 DEF Deeper
  <2>7. QED
    BY <1>1, <2>1, <2>2, <2>3, <2>6 DEF Levels
<1>4. ASSUME NEW w \in Worker, PushFound(w), list_of_urls' # list_of_urls
      PROVE  Levels'
  <2> DEFINE d == task[w].url_depth
             c == Cardinality(list_of_urls)
  <2>1. PICK u \in found[w] :
              /\ u \notin list_of_urls
              /\ list_of_urls' = list_of_urls \cup {u}
              /\ depth_of' = [depth_of EXCEPT ![u] = d + 1]
    BY <1>4, PushOne
  <2>2. /\ d \in 1 .. c /\ u \in Url
        /\ u \in within[d + 1] \ within[d]
    BY <1>4, <2>1, NewIsFurther
  <2>3. c \in Nat /\ Cardinality(list_of_urls') = c + 1
    BY <2>1, ListedBound, FS_AddElement
  <2>4. depth_of'[u] = d + 1
    BY <2>1, <2>2 DEF TypeOK
  <2> HIDE DEF d, c
  <2>5. (d + 1) - 1 = d /\ d + 1 \in 1 .. c + 1
    BY <2>2, <2>3
  <2>6. start_url \in list_of_urls
    <3>1. list_of_urls # {}
      <4>1. c # 0
        BY <2>2, <2>3
      <4>2. QED
        BY <4>1, FS_EmptySet DEF c
    <3>2. QED
      BY <3>1 DEF Levels
  <2>7. ASSUME NEW y \in list_of_urls'
        PROVE  /\ depth_of'[y] \in 1 .. c + 1
               /\ y \in within[depth_of'[y]] \ within[depth_of'[y] - 1]
    <3>1. CASE y = u
      BY <2>2, <2>4, <2>5, <3>1
    <3>2. CASE y \in list_of_urls
      <4>1. depth_of'[y] = depth_of[y] /\ depth_of[y] \in 1 .. c
            /\ y \in within[depth_of[y]] \ within[depth_of[y] - 1]
        BY <1>1, <3>2 DEF Levels, c
      <4>2. QED
        BY <2>3, <4>1
    <3>3. QED
      BY <2>1, <3>1, <3>2
  <2>8. QED
    BY <1>1, <2>3, <2>6, <2>7 DEF Levels
<1>5. ASSUME NEW w \in Worker, PopTake(w) \/ ClearInWork(w)
      PROVE  Levels'
  BY <1>2, <1>5 DEF PopTake, ClearInWork, Queue!sq_pop_take, queue_vars
<1>6. CASE Still
  BY <1>2, <1>6 DEF Still
<1>7. QED
  BY <1>2, <1>3, <1>4, <1>5, <1>6, OtherStepsAreStill DEF Moves

(* A work thread alone reaches every address on a shortest path: what it   *)
(* has listed at a depth is at that distance from start_url, and when it   *)
(* is done it has finished everything within the depth limit, however the  *)
(* pages link to each other.                                               *)
THEOREM SoleIsBreadthFirst == IsFiniteSet(Url) => (Spec => []BreadthFirst)
<1> SUFFICES ASSUME IsFiniteSet(Url) PROVE Spec => []BreadthFirst
  OBVIOUS
<1> DEFINE IInv == Sole => Order /\ Levels
<1>1. Init => IInv
  BY DEF Init, Queue!Init, Order, Levels, Holding
<1>2. Facts /\ IInv /\ [Next]_vars => IInv'
  BY OrderStep, LevelsStep DEF Sole, Worker, cores_num, ToInt
<1>3. ASSUME Facts, CrawlComplete, IInv
      PROVE  BreadthFirst
  <2> SUFFICES ASSUME Sole
               PROVE  /\ \A u \in list_of_urls : u \in within[depth_of[u]] \ within[depth_of[u] - 1]
                      /\ AllExited => finished = within[Cardinality(Url)]
    BY DEF BreadthFirst, Sole
  <2>1. Levels /\ TypeOK /\ LinksKept
    BY <1>3 DEF Facts
  <2>2. ASSUME AllExited
        PROVE  finished = within[Cardinality(Url)]
    <3>1. finished = list_of_urls /\ start_url \in list_of_urls
      BY <1>3, <2>2 DEF CrawlComplete
    <3> DEFINE N == Cardinality(Url)
               c == Cardinality(list_of_urls)
    <3>2. N \in 0 .. N /\ N \in Nat /\ c \in Nat /\ c =< N
      BY <2>1, ListedBound, WithinIterates
    <3>3. within[N] \subseteq list_of_urls
      BY <2>1, <3>1, <3>2, ShallowIsListed
    <3>4. ASSUME NEW u \in list_of_urls
          PROVE  u \in within[N]
      <4>1. depth_of[u] \in 1 .. c /\ u \in within[depth_of[u]]
        BY <2>1 DEF Levels
      <4> HIDE DEF N, c
      <4>2. depth_of[u] \in 0 .. N
        BY <3>2, <4>1
      <4>3. within[depth_of[u]] \subseteq within[N]
        BY <2>1, <3>2, <4>2, WithinGrows DEF N
      <4>4. QED
        BY <4>1, <4>3
    <3>5. QED
      BY <3>1, <3>3, <3>4
  <2>3. QED
    BY <2>1, <2>2 DEF Levels
<1>4. QED
  BY <1>1, <1>2, <1>3, TypeCorrect, LifecycleInv, StartFirstInv, WhereaboutsInv, DepthCarriedInv,
     LinksKeptInv, LastOneLeavesNothing, PTL DEF Spec, Facts
=============================================================================
