# A verification project for the spider and its search server

The repository holds two programs that share a PostgreSQL database: a **spider**
(`diploma_thesis/`) that crawls from a start address with a pool of threads and
stores which words occur on which page, and a **search server**
(`diploma_thesis_2/`) that answers queries over HTTP from what is stored. This
directory models them in TLA+, checks the models with TLC and proves theorems
about them with TLAPS.

## The system

| part | state | operations | talks to |
|---|---|---|---|
| `tasks_queue` | `urls_queue`, `list_of_urls`, `queue_mutex`, `data_cond` | `sq_push`, `sq_pop`, `is_empty`, `not_empty`, `get_queue_size` | called by every work thread and, once, by the main thread |
| `Spider` | `th_vector` (each thread with `in_work`, `thread_task`), `start_work`, `start_threads`, `total_pages_processed`, `data_base` | `start_spider`, `work`, `process_next_task`, `task_generator_finished`, `work_function`, `add_url_words_to_database`, `~Spider` | the queue, an HTTP session per page, the parser, the database |
| `session`, `session_ssl` | request, response, a promise | `run`, the chain `on_resolve` ... `on_read`, `fail`, `send_response` | the network; the promise `work_function` waits for |
| `html_parser` | word length limits | `get_urls_from_html`, `clear_tags`, `collect_words` and path helpers | called by `work_function`, pure |
| `Data_base` (spider) | one connection, `last_error` | `start_db`, `add_new_*`, `get_*_id`, `get_word_url_exist`, `*_word_url_pair` | PostgreSQL, under `data_base_mutex` |
| `ini_parser` (two near copies) | sections, variables, error flags | `fill_parser`, `check_parser`, `get_value`, copies and moves | read by both `main` functions |
| `listener`, `session` (server) | acceptor, one request at a time | `do_accept`/`on_accept`, `do_read`/`on_read`/`on_write`/`do_close` | one `io_context` thread |
| `server_interface`, `Data_base` (server) | none, one connection | `handle_request`, `get_post_request_result_string`, three queries | the same database, while the spider may be writing |

What makes each of them correct, and what is hard about it:

- **queue**: an address is queued at most once in the life of the program, and a
  blocked thread is woken when there is something to take. Hard, because `sq_pop` looks
  at the queue in one locked region and waits in another.
- **pool**: every reachable address within the depth limit is scanned once, the
  threads stop when nothing is left and not before, and nothing is freed while it
  is used. Hard, because the threads conclude that they are done from flags they
  read one by one without a lock, and because the start is signalled without the
  lock the waiters use.
- **HTTP sessions**: the promise gets exactly one value on every path, in bounded
  time. Hard, because every handler may fail, some of them after the value was reported.
- **database writer**: what is stored of a page is all of it, and under its own
  ids. Hard, because a page is some `4 * n + 2` transactions, each of which may fail
  alone, be committed without its answer, or be the last before the process ends; the
  next run goes on with whatever is there.
- **ini parser**: a name resolves to the value of its own section, and every object owns
  its maps alone. Hard, because the class deletes raw pointers and has
  five ways of copying them, and because there are two copies of it that have drifted apart.
- **search server**: an answer shows the pages that contain all the words, the best
  first, and every request is answered. Hard, because the answer is put together from
  several transactions between which the spider writes.
- **text**: the spider and the search server must write a word alike, and a link must lead where
  the page says. Hard, because each string function is a chain of searches and cuts
  that is right for the usual string.

`PROJECT.json` lists the hazards, each at its line and with the properties that
would catch it.

## What is modelled

`TasksQueue.tla` holds the operations of the queue, one operator per locked
region. `list_of_urls` and `urls_queue` have the names of the code; `sleepers` is
the set of threads blocked on `data_cond`. `notify_all` empties it; blocking is
one step with the test of the predicate, because both `sq_push` and the wait
hold `queue_mutex`. A spurious wakeup may happen at any time.

`Spider.tla` composes that queue with the main thread and the work threads.

| model | code |
|---|---|
| `main`: `start_db`, `create`, `submit`, `flag`, `notify`, `join`, `end` | `start_spider`, `start_work_threads`, `~Spider`, in order |
| `pc[w]`: `gate`, `block` | the wait on `start_threads` in `work`: test and wait are two steps, since the main thread does not take the mutex |
| `check`, `scan`, `seen[w]` | `task_generator_finished`: the queue, then one flag per step |
| `try`, `pop`, `popped` | the two locked regions of `sq_pop`, and the gap before `in_work` is set |
| `fetch`, `index`, `push` | `work_function`, `add_url_words_to_database`, the loop of `sq_push` |
| `count`, `counted`, `counter[w]` | the read and the write of `total_pages_processed++` |
| `clear` | `in_work = false` |
| `hung`, `aborted` | `future.get()` that never returns; `std::terminate` |
| `depth_of`, `finished` | history variables: the depth an address was queued at, the addresses scanned |

An action is what a thread does between two points where another one can interfere:
a locked region, or one access of a variable that is shared without a lock. A
data race is therefore an interleaving of single reads and writes. The
unsynchronised `bool`s and `int`s are each one machine access and every loop that
reads them contains a call the compiler cannot see through or a lock operation,
so this covers what a build does with them.

The network, the parser and the database are one *answer* per address
(`web`): links found, a redirection, a refusal, silence, or an exception; and
whether the words of the page could be stored. The constant `Webs` is the set of
webs the crawl may meet; since every address is scanned at most once, one answer
per address covers answers that change with time. `start_url`, `max_depth`,
`cores`, `max_threads` are the settings, and `UIntSize` the number of values of an
`unsigned int`, so that the wrapping subtractions `cores - 1` and `max_depth - 1`
are modelled at any width.

`HttpSession.tla` models one fetch: `session`, `session_ssl` and the lines of
`work_function` that run them, one action per handler (`run`, `on_resolve` ...
`on_shutdown`). `op` is the operation pending on the `io_context`, `promise` the
value of `promise_`, `caller` where `work_function` is. Time is counted in ticks
and `left` is what remains of the stream's deadline: `expires_after` sets it, `Tick`
takes from it, and an operation completes well only while something is left. A second
`set_value` is an exception that ends the process, and so may be the lookup of
a header that is not there (undefined behaviour: the process ends, or goes on
with some value). `Fetch.tla` is its abstract specification: one outcome,
`silent` only if the operation could not be started. The outcomes are the
statuses of an address in `Spider`, which is how the two modules compose.

`Frontier.tla` is the abstract specification of the pool: an address is *unseen*,
*waiting*, *active* or *finished*, only moves forward, and is discovered only
from a page that is active and leads to it. `SpiderProperties.tla` states the
properties and the refinement mapping (`StageOf`: in the queue, in the hands of a
thread, scanned). `MCSpider.tla` gives the small webs.

### The database: `Index`, `Indexer`

`Index.tla` is what the two programs share, as a search sees it: a number per
address and word that appears and changes, one at a time, and never goes away. It is
the abstract specification of the writer, and the environment of the search server.

`Indexer.tla` is the writer in detail: `Data_base` of the spider and
`add_url_words_to_database`. Work threads call the latter under `data_base_mutex`, so
there is one writer at a time, and its locals (`url`, `todo`, `url_id`, `word_id`) are
variables of the module.

| model | code |
|---|---|
| `connect_db`, `create_tables`, `create_templates` | `start_db`; a failure ends the program |
| `add_new_url`, `get_url_id` | one row of `documents`; -1 ends the indexing of the page |
| `add_new_word`, `get_word_id` | one row of `words`; -1 skips the word |
| `get_word_url_exist` | the query outside a `try`: a failure ends the process |
| `new_word_url_pair` | `insert` or `update` of `urls_words`, as the query before it said |
| `Good`, `InDoubt`, `Fails` | a statement is executed; stored with its answer lost; refused, or the connection is gone |
| `documents_seq`, `words_seq` | the sequences behind `serial`, which an insertion that is refused draws from too |
| `End`, `Restart` | the process ends anywhere; the next run has the same tables |

`page` and `flawed` are history: what an address was last indexed with, and
whether a statement failed meanwhile. `Throw` and `AddWords` of `Spider` are what this comes
to for a work thread.

### The search server: `SearchServer`

`SearchServer.tla` composes the listener, the sessions, the search and its three
queries with an instance of `Index` for the spider. There is one thread: a handler runs
when the thread is `idle`, in the order in which operations completed (`handlers`).
`session[s]` is the operation of a session (`reading`, `writing`) or what the handler that is ready
will find (`request`, `written`, `over`); `listener` likewise. `place` is where the thread is
in a search: `list`, `count`, `table` (a query each) and `respond`. Between any two of
these the spider may write (`Store`) and clients may come and go. `request`,
`listed`, `matched`, `uncounted` and `final_array` are `words_set`, `map_urls_list`
and `final_array` of the code. `complete_then`, `seen_then`, `quiet`, `trouble` are history:
what was stored when the search began, whether the spider wrote since, whether a query failed.
The HTTP layer is reduced to what decides about state: a request is a search (`GET`
too), or one with a body that is not the form's.

### The settings: `IniParser`

`IniParser.tla` has objects of the class and the maps they point to (`heap`), for either
copy of the class (`program`). Every special member function, `fill_parser` and whatever
follows the pointers is an action. A store that is deleted leaves `Dangling` pointers in the objects
that share it; using one is undefined and modelled as the status `corrupt`, a null pointer
as `crashed`, after which nothing more is said. `get_value`, `check_parser` and the
printing methods are operators, since they change nothing.

### Strings: `Text`, `IniText`, `ServerIniText`, `PageText`, `RequestText`

A string is a sequence of characters and each function an operator. `IniText` is the
spider's reading of a line and of a request "section.variable", by what each
string is made of; `ServerIniText` is the search server's copy, character
by character like its loops. `PageText` is how a link becomes an address and a text becomes
words, `RequestText` how a search becomes words. These are functions, so their properties are
about one string, compared with a definition of what it should be; `MCText`
grows strings piece by piece and tries each.

## The runs

| run | shows |
|---|---|
| `spider_pool` | 2 threads, 4 addresses, depth limit 3, 36 webs: `TypeOK`, `SleepersSeeEmptyQueue`, `CrawlComplete`, `DepthOnPath`, `NoUseAfterDelete`, `CounterNeverOver`, `VectorGrowsAlone`, `ImplementsFrontier`, `Drains` hold |
| `spider_crowd` | 3 threads, 3 addresses: `CrawlComplete`, `ImplementsFrontier` hold |
| `spider_alone` | 1 thread, 5 addresses, depth limit 4, and `cores = 0`, so that the pool's size comes out of the wrapped subtraction: `BreadthFirst`, `SoleWorkerFinishes` hold |
| `http_session` | one fetch over http and https, a deadline of 4 ticks, responses 200, 301, 404 with and without the header, html or not: `TypeOK`, `AnswerInTime`, `AbortsOnlyOnBrokenResponse`, `ImplementsFetch`, `ComesToAnOutcome` hold |
| `indexer` | 2 addresses, 3 words of which one is too long to store, 3 pages, ids up to 2: `TypeOK`, `CleanPageIsComplete`, `RowsAreOfTheirPage`, `ImplementsIndex`, `IndexingEnds` hold |
| `search_server` | 2 connections, 3 addresses of which one has an apostrophe, 2 words, 4 rows the spider may write, a limit of 1 or negative: `TypeOK`, `QuietSearchIsExact`, `CompletePagesAreFound`, `IncompleteOnlyIfLate`, `RequestsAreAnswered`, `DeafServerEnds` hold |
| `ini_parser` | 2 objects, 2 stores, at most 2 fills each from 5 files: `TypeOK`, `DamageOnlyByAssignment`, `ValueIsOfItsSection`, `MainCatchesAll`, `CopiesAreIndependent` hold |
| `text` | strings of at most 5 pieces: `Lines`, `Requests`, `Copies`, `Links`, `Words`, `Asked` hold |
| `spider_start` | `WorkersStart` is violated: lost notification at the start |
| `spider_idle` | `IdleWaitIsBounded` is violated: an idle thread blocks for ever |
| `spider_count` | `ProcessedIsExact` is violated: lost increment |
| `search_mixed` | `OnlyCompletePages` is violated: an address without some of the words is shown |

**Bounds.** In the spider, the session, the writer and the server the only bounds are the
sizes of the instances; no action is cut off. `MaxStores` and `MaxFills` of `IniParser` and
`MaxPieces` of `MCText` are bounds in guards.
Every counter of the spider is bounded by the program itself: each address is queued once.
Two threads are the fewest with which a thread is overtaken between its look at
the queue and its wait, and two flags are read at different moments; with three, one can
take an address while the second leaves on stale flags and the third is blocked.
The webs contain a cycle, a shared link, two paths of different lengths, a redirection beyond
the depth limit, a page that is not expanded, and each kind of failure. In
`spider_pool` the limit of 3 leaves `d` expanded or not depending on which path
the schedule takes to it. A session is a chain of at most six operations under at most
three deadlines; with four ticks to a deadline every operation can take part of one, all of it,
or miss it.


In `indexer`, three words over two ids make an id run out, a page shares a word with
another and loses one, and the long word is refused each time. In `search_server`, one address
needs two rows to be complete, so the spider can complete it, or begin it, between any two queries; two
addresses compete for a limit of one; two connections are the fewest with which one
waits while the other is served. Two objects of `ini_parser` are what every operation of the class
involves at most, and the files have sections that come back, a stray character, a variable
before any section, an invalid line, and one file cannot be opened. The alphabets of `text`
have every character the functions treat differently, and five pieces are enough for a name,
a separator, a value and two of them out of place; a link has also the schemes and `/a.`
as pieces, so that a last name may occur twice behind a scheme and a host.

**Deadlock** is not checked: the programs end, can be terminated by an exception, and can
come to a standstill in the ways the findings describe. That it does not stand
still with work left is `Drains`.

**Fairness** (`FairSpec`): the main thread and each work thread that can take a
step eventually does. The operating system runs every runnable thread; `sleep_for` ends; a fetch
ends by the session's 30 s deadlines and the resolver's own, except where the answer is
"silent"; and a mutex is held for a bounded time by finitely many threads, each
of which does a bounded amount of work under it. A spurious wakeup has no
fairness. In `HttpSession` some step that is possible is eventually taken: time passes, the resolver answers, and `ioc.run()`
runs the handlers that are ready; nothing else can happen in a fetch. In `Indexer` every statement returns, with an
answer or an error, as libpqxx does; nothing is assumed of the spider between two pages. In `SearchServer`
`main` and the thread of the `io_context` go on, and every read and write is over after its 30 s
(`expires_after`); nothing is assumed of clients, of the accept or of the spider. `RequestsAreAnswered`
holds although a client may always come, because handlers run in the order they became ready;
`DeafServerEnds` says only that the server ends when its clients fall silent, since a client
that keeps asking keeps it alive.
`Drains`, `SoleWorkerFinishes` and the two violated liveness properties
are stated under it; a counterexample to them is thus a schedule on which every thread
that can run does.

**Findings.** Four statements of the repository are violated by what the code does; each has
its run, and `PROJECT.json` quotes the line. The one about the search shows a page it should not, and never hides one
(`CompletePagesAreFound`, `IncompleteOnlyIfLate`). None of the three about the spider loses work of the crawl:
a thread that misses the start leaves the others to do it (`Drains`, `CrawlComplete`), but the
program does not end, because the destructor joins every thread.

## What is proved

The theorems of `SpiderProofs.tla` hold for every value of the constants that satisfies `SpiderAssumption`: any set of addresses and webs, any
number of threads, any depth limit and integer width. The assumption only gives
the constants their types (`start_url \in Url`, unsigned settings, a width of at
least one value). `SoleIsBreadthFirst` supposes besides that the addresses are finitely many: the
levels of `BreadthFirst` are counted up to their number.

| theorem | states | argument |
|---|---|---|
| `TypeCorrect` | `TypeOK` | per action |
| `SleepersCorrect` | `SleepersSeeEmptyQueue` | pushing empties the set of sleepers in the same locked region |
| `ConnectionOutlivesThreads` | `NoUseAfterDelete` | invariant `Lifecycle`: where the main thread is bounds which threads exist, and the joined ones have exited |
| `VectorCompleteBeforeWork` | `VectorGrowsAlone` | `Lifecycle` again: the flag is set after the last thread is created |
| `DepthsArePaths` | `DepthOnPath` | invariants `Whereabouts`, `DepthCarried`: an address is queued, in hand or finished exactly once, and its task carries its depth |
| `LastOneLeavesNothing` | `CrawlComplete` | see below |
| `PoolImplementsFrontier` | `ImplementsFrontier` | every action moves at most one address one stage, or none |
| `CounterLosesOnly` | `CounterNeverOver` | invariant `Counted`: what a thread has read of the counter obeys the counter's bound, and the bound, a sum of two cardinalities, never falls, because a page that is finished leaves the set of threads about to finish |
| `SoleIsBreadthFirst` | `BreadthFirst` | invariants `Order` and `Levels`, see below |
| `TypeCorrect` (`HttpSessionProofs`) | `HttpSession.TypeOK` | per action |
| `OneReportOnly` | `AbortsOnlyOnBrokenResponse` | invariant `Promised`: the promise is empty while an answer is to come, full afterwards, and `fail` is silent about the close |
| `TimeBounded` | `AnswerInTime` | invariant `Spent`: what is left of the deadlines and what has elapsed, by the pending operation |
| `SessionImplementsFetch` | `ImplementsFetch` | `Promised` again, per kind of step |

The last four are in `HttpSessionProofs.tla` and hold for every deadline and set
of status codes; they assume that the deadline is positive and that codes are natural numbers
(`SessionAssumption`).

The core of `LastOneLeavesNothing`: a thread that finds the queue empty and all
flags false may leave although another one holds an address it has just popped.
No invariant over the flags says that the crawl is over when *one* thread leaves, and none
holds. What is inductive is about the thread that remains: a thread with an
address in hand has not left, and will look at the queue again after its last
push (`NotLast`: while anything is queued, some started thread has not left). So the queue
is empty when the last one leaves. `LinksKept` adds that the links of a scanned
page were listed before it was finished.

`SoleIsBreadthFirst` is about a pool of one. The queue is in order of depth, and its depths differ by
one at most, also from that of the page in hand (`Order`): so when a page at depth `d` is in hand, all
that is listed at less than `d` is finished. By `LinksKept` the links of those are listed, and by
induction over the distance everything within `d` of `start_url` is (`ShallowIsListed`). An address that
is new is therefore at distance `d + 1` and no nearer (`Levels`). With two threads neither holds:
`DepthsArePaths` is what is left.

| theorem | states | argument |
|---|---|---|
| `TypeTheorem` (`IndexerProofs`), `RowsTheorem` | `Indexer.TypeOK`, `RowsAreOfTheirPage` | invariants `Ids` (ids are distinct and below the sequence, and a new one has no rows) and `Locals` (the ids in hand are those of the page and word) |
| `CompleteTheorem` | `CleanPageIsComplete` | `CInv`: of the page in hand, every word that is not on the list any more is stored or refused (`OnTheWay`) |
| `RefinementTheorem` | `ImplementsIndex` | each step changes no quantity or one, to a number greater than 0 |
| `FoundTheorem`, `LateTheorem` | `CompletePagesAreFound`, `IncompleteOnlyIfLate` | invariant `Tied`, see below |
| `TypeTheorem` (`SearchProofs`) | `SearchServer.TypeOK` | `Tied` for the locals of a search, per action for the rest |
| `ExactTheorem` | `QuietSearchIsExact` | invariant `QuietTied`: as long as nothing was written, `matched` is what has been counted of the exact answer; the array is a sorted enumeration of it, and the limit cuts its end |
| `DamageTheorem`, `IndependenceTheorem` | `IniParser.DamageOnlyByAssignment`, `CopiesAreIndependent` | invariant `Inv`: without an assignment each store has one owner; then a step reaches only the stores of the objects it names |
| `TypeCorrect` (`IniParserProofs`) | `IniParser.TypeOK` | invariant `Typed`: a number given to a section is an index of `variables` (`Sound`), by induction over the lines of a file |
| `ValuesTheorem` | `ValueIsOfItsSection` | invariants `Reached`, over lines, and `Remembered`, over steps: see below |
| `MainTheorem` | `MainCatchesAll` | `Remembered` and `Inv`: what an object filled once, or never, can be asked |
| `LinesTheorem`, `RequestsTheorem`, `CopiesTheorem` | `Lines`, `Requests`, `Copies` of `MCText` | invariants of the loops, see below |
| `WordsTheorem` | `Words` of `MCText` | a bijection between the matches that give a word and the places where it stands |
| `LinksTheorem` | `Links` of `MCText` | what `get_base_path` leaves of an address: the scheme and the host, see below |
| `AskedTheorem` | `Asked` of `MCText` | encoding, decoding and both ways to take words apart, a character at a time, see below |

These hold for any addresses, words, pages, requests, settings, objects and files; the assumptions
(`IndexerAssumption`, `SearchAssumption`, `IniAssumption`) give the constants their types, and
in `SearchServer` that a request and the set of addresses are finite.

`Tied` is what makes three queries on three states of the tables agree. The
numbers only appear, so an address that had all words when the search began has them whenever it is
counted and when the table is read (`StoreKeeps`); it was listed, so it is
counted, and counted right, so it is matched. An address in `matched` had all the words at
its count and keeps them. What the invariant does not give is that an address
that was not listed has all the words: that is the finding.

`Ids` carries the ids across the transactions: the id read for an address is still its id
when the pair is written, because rows are never deleted, and a row that exists is
of its pair alone, because an id is never drawn twice. `CleanPageIsComplete` then needs only that later
pages, other runs and crashes leave a finished page's rows alone.

Each inductive invariant was also checked by TLC on the instance of its run. The steps follow the same pattern: one named step per action that
moves anything (`TakeMoves`, `PushMoves`, `FinishMoves`, `SubmitMoves`), and
one lemma for the rest (`OtherStepsAreStill`).

`Reached` says what the maps hold after `n` good lines: sections are numbered in the order they
first appear, without a gap and each once; a variable is in the map of its section if and only if one of
the `n` lines names it there, with the value of the last such line; the current number is that of the
last section line. It is inductive over the lines, whichever of the five kinds the next one is. After a line
that is not good nothing changes. `Remembered` carries this through the class: whatever constructs, copies,
moves or swaps an object without an assignment hands on the values with the history of the files they came from, so an
object filled once has in its maps what its file says. A second fill appends to what is there, and
the property, like `main`, says nothing of it.

The theorems about strings (`TextProofs.tla`, `MCTextProofs.tla`) hold for texts of any length. `CopiesOf`, `LinesOf`,
`RequestsOf`, `WordsOf`, `LinksOf` and `AskedOf` state the properties for any alphabet that has the
characters the code searches for, and `LinesTheorem` and the others for the texts
that `MCText` writes, whatever `MaxPieces` is. The search server reads character by character, with a state in
`section_step`, `variable_step` and `request_step`: what is inductive over such a loop says where it is
in the text and what it has collected (`SectionRead`: the name so far has no blank, dot or bracket,
or there is a bracket at `e` with only blanks after it, or a comment after those; `VariableRead`,
`RequestRead` likewise). At the end of the text this is a statement about the whole line
(`Closes`, `Named`). The spider's copy uses `find` and `substr`, and is shown to ask the same; so
are the definitions of the grammar (`SectionLineIs`, `VariableLineIs`), and neither copy is compared with the
other directly. `FoundAsOften` is what `Words` rests on: the expression consumes the space before a word and not
the one after it, so no two matches begin at the same place and none is skipped.

`LinksOf` holds for every link and every page that has a scheme and the name of a host (`IsAddress`), in an alphabet
with the characters of the schemes (`WritesAddresses`); both pages of `MCText` are such
(`PagesAreAddresses`). Its invariant is `Collapsed`: what is made of the first characters has no two
slashes in a row, and up to the first slash, and that one too, it is a copy. So the host is read off
unchanged (`BaseKeepsHost`), unless the last name is cut out where
it occurs before; a link without a scheme becomes a path from the root or begins with "www."
(`RelativeLink`), and on the base of a page a path from the root stays there (`BaseLeadsThere`). The attempt to prove it
corrected the property: of `http://a/a.a/a.` the code cuts the `/a.` behind the host
and asks for the host `aa`, which five single characters behind a scheme were too short to show.
The case is now an exception of the property (`LeadsAway` says in the proof that there is none), and `text` has a piece for it.

`AskedOf` holds in every alphabet whose signs the browser sends as they are (`CanBeTyped`), hyphen and comma excluded
from the text as in the property. `ReceiveStep` is the induction: what `Tabs` has made of the codes sent for the first
characters is what `Received` says of each of them. `SameText` then has both programs at the same string of lower-case words
and spaces, and `SameWords` compares the expression of the spider, which takes the
space before a word along, with the stream of the server, which skips it.

**Induction.** The library's induction theorems take the proposition as an operator, which
cannot be applied here. `Induction.tla` proves induction over the naturals for a *set*, from
the existence of a least element (`WFMin`), and from it that the recursion behind `FoldLeft` has a
solution (`FoldIterates`), that its values for one element more at a time are a run of the step
(`FoldRuns`), and that one step after another can be taken (`Iteration`). The lines
of a file (`LinesFold`), the levels of `BreadthFirst` (`WithinIterates`) and the loops over the characters of
a string (`SectionFold` and the others) rest on these.

`IniAssumption` says besides the types that the lines of a file are a sequence and that the requests of
`main` have the form "section.variable", as the literals in both programs do.

Only model-checked: liveness (`Drains`, `SoleWorkerFinishes`, `ComesToAnOutcome`, `IndexingEnds`,
`RequestsAreAnswered`, `DeafServerEnds`), which the prover cannot do. Every invariant and every action property that a
passing run checks is stated by a theorem.

## What is not modelled, and the plan

- **Status messages** (`get_queue_state`, `get_threads_state`): they read `list_of_urls` and `thread_task`
  without a lock, and print. Nothing they read comes back into the crawl.
- **The regular expressions** that find tags, links and the body in a page, and line breaks
  in it: the text between the tags and the address between the quotes are the
  inputs of `PageText`.
- **The HTTP responses of the search server** (`index.html` filled with the result, error
  pages, MIME types): they depend on the result alone.
- **SQL** beyond what its statements do to the rows; the width of `quantity`.
- **A second spider on the same database**: the program takes no measure
  for it.
- The certificates (`root_certificates.hpp`, data), the build files, console output.

Next: the composition of `Spider` with `Indexer` in one module, where now the outcome `words of the page could be stored`
stands for it.
