---------------------------- MODULE HttpSession ----------------------------
(***************************************************************************)
(* Fetching one page: session (http_client_async.hpp), session_ssl         *)
(* (http_client_async_ssl.hpp) and the lines of work_function around them. *)
(* The thread that runs the session owns its io_context, so handlers run   *)
(* one at a time; what interferes is the network, which may fail any       *)
(* operation or answer anything, and the deadline of the stream.           *)
(*                                                                         *)
(* An action is one handler with all it calls.  Time is a count of ticks;  *)
(* Timeout ticks are the 30 seconds of expires_after.  A deadline covers   *)
(* the operations started until it is set again, and the resolver has      *)
(* none.                                                                   *)
(*                                                                         *)
(* fail_always, fail_never, deadline_added, on_write_rearms and run_waits  *)
(* are mistakes that the properties must catch: the mutants of             *)
(* PROJECT.json.                                                           *)
(***************************************************************************)
EXTENDS Integers

CONSTANTS Timeout,  \* ticks that expires_after(30 s) allows
          Code      \* the HTTP status codes a server may answer with

ASSUME SessionAssumption == Timeout \in Nat \ {0} /\ Code \in SUBSET Nat

VARIABLES
    scheme,    \* "http" or "https": which of the two classes is used
    host_set,  \* whether SSL_set_tlsext_host_name accepts the host name
    op,        \* the asynchronous operation that is pending
    left,      \* ticks left of the stream's deadline
    elapsed,   \* history: ticks since the name was resolved
    res_,      \* the response read
    promise,   \* the value of promise_
    caller     \* where work_function is: "created", in "io" (ioc.run), in
               \* "get" (future.get), "returned"; or the process "aborted"

vars == <<scheme, host_set, op, left, elapsed, res_, promise, caller>>

(* header: the response has the header that is looked up for its code,     *)
(* Content-Type for 200 and Location for 301.                              *)
Response == [code : Code, header : BOOLEAN, html : BOOLEAN]
NoResponse == [code |-> -1]
Broken(res) == res.code \in {200, 301} /\ ~ res.header

Value == [code : Code \cup {0}, body : {"", "page"}, location : {"", "there", "garbage"}]
NoValue == [code |-> -1]
Twice == [code |-> -2]  \* set_value was called on a promise that had a value

Operation == {"none", "resolve", "connect", "handshake", "write", "read", "shutdown"}

TypeOK ==
    /\ scheme \in {"http", "https"}
    /\ host_set \in BOOLEAN
    /\ op \in Operation
    /\ left \in 0 .. Timeout
    /\ elapsed \in Nat
    /\ res_ \in Response \cup {NoResponse}
    /\ promise \in Value \cup {NoValue, Twice}
    /\ caller \in {"created", "io", "get", "returned", "aborted"}

Init ==
    /\ scheme \in {"http", "https"}
    /\ host_set \in BOOLEAN
    /\ op = "none"
    /\ left = 0
    /\ elapsed = 0
    /\ res_ = NoResponse
    /\ promise = NoValue
    /\ caller = "created"
-----------------------------------------------------------------------------
(* promise_.set_value: on a promise that has a value it throws.            *)
set_value(p, v) == IF p = NoValue THEN v ELSE Twice

FailedTo == [code |-> 0, body |-> "", location |-> ""]

fail_always(p, what) == set_value(p, FailedTo)

fail_never(p, what) == IF what = "shutdown" THEN set_value(p, FailedTo) ELSE p

(* fail: a failure to close is not reported.                               *)
fail(p, what) == IF what = "shutdown" THEN p ELSE set_value(p, FailedTo)

(* send_response: the values it may report.  A header that is missing is   *)
(* looked up all the same, and the end iterator dereferenced: the process  *)
(* may end, or go on with what it finds there.                             *)
Sent(res) ==
    [code : {res.code},
     body : IF res.code # 200 THEN {""}
            ELSE IF res.header THEN {IF res.html THEN "page" ELSE ""}
            ELSE {"", "page"},
     location : IF res.code # 301 THEN {""}
                ELSE {IF res.header THEN "there" ELSE "garbage"}]

(* A handler reports; an exception leaves ioc.run() and ends the process.  *)
Report(p) ==
    /\ promise' = p
    /\ caller' = IF p = Twice THEN "aborted" ELSE caller
    /\ op' = "none"

Crash == caller' = "aborted" /\ op' = "none" /\ UNCHANGED promise

deadline_added == left' = left + Timeout

(* The stream's deadline is set anew.                                      *)
expires_after == left' = Timeout

(* An operation of the stream completes well only before its deadline.     *)
Completes(what) == caller = "io" /\ op = what
Well(what) == Completes(what) /\ left > 0

Failure(what) ==
    /\ Completes(what)
    /\ Report(fail(promise, what))
    /\ UNCHANGED <<scheme, host_set, left, elapsed, res_>>
-----------------------------------------------------------------------------
(* session::run                                                            *)
run ==
    /\ caller = "created"
    /\ scheme = "http"
    /\ op' = "resolve"
    /\ caller' = "io"
    /\ UNCHANGED <<scheme, host_set, left, elapsed, res_, promise>>

(* session_ssl::run: returns without starting anything if the host name    *)
(* is refused, for example because it is empty.                            *)
run_ssl ==
    /\ caller = "created"
    /\ scheme = "https"
    /\ op' = IF host_set THEN "resolve" ELSE "none"
    /\ caller' = "io"
    /\ UNCHANGED <<scheme, host_set, left, elapsed, res_, promise>>

on_resolve ==
    \/ Failure("resolve")
    \/ /\ Completes("resolve")
       /\ expires_after
       /\ op' = "connect"
       /\ UNCHANGED <<scheme, host_set, elapsed, res_, promise, caller>>

(* session::on_connect                                                     *)
on_connect ==
    /\ scheme = "http"
    /\ \/ Failure("connect")
       \/ /\ Well("connect")
          /\ expires_after
          /\ op' = "write"
          /\ UNCHANGED <<scheme, host_set, elapsed, res_, promise, caller>>

(* session_ssl::on_connect: the handshake runs on the connect's deadline.  *)
on_connect_ssl ==
    /\ scheme = "https"
    /\ \/ Failure("connect")
       \/ /\ Well("connect")
          /\ op' = "handshake"
          /\ UNCHANGED <<scheme, host_set, left, elapsed, res_, promise, caller>>

on_handshake ==
    \/ Failure("handshake")
    \/ /\ Well("handshake")
       /\ expires_after
       /\ op' = "write"
       /\ UNCHANGED <<scheme, host_set, elapsed, res_, promise, caller>>

on_write_rearms ==
    \/ Failure("write")
    \/ /\ Well("write")
       /\ expires_after
       /\ op' = "read"
       /\ UNCHANGED <<scheme, host_set, elapsed, res_, promise, caller>>

(* The response is read on what is left of the request's deadline.         *)
on_write ==
    \/ Failure("write")
    \/ /\ Well("write")
       /\ op' = "read"
       /\ UNCHANGED <<scheme, host_set, left, elapsed, res_, promise, caller>>

(* session::on_read: the response is reported, then the socket is shut     *)
(* down, which may fail.                                                   *)
on_read ==
    /\ scheme = "http"
    /\ \/ Failure("read")
       \/ /\ Well("read")
          /\ \E res \in Response :
                /\ res_' = res
                /\ \/ \E v \in Sent(res), closed \in BOOLEAN :
                         LET reported == set_value(promise, v)
                         IN  Report(IF closed THEN reported
                                    ELSE fail(reported, "shutdown"))
                   \/ Broken(res) /\ Crash
          /\ UNCHANGED <<scheme, host_set, left, elapsed>>

(* session_ssl::on_read: ... and then the TLS shutdown is started.         *)
on_read_ssl ==
    /\ scheme = "https"
    /\ \/ Failure("read")
       \/ /\ Well("read")
          /\ \E res \in Response :
                /\ res_' = res
                /\ \/ /\ \E v \in Sent(res) : promise' = set_value(promise, v)
                      /\ caller' = IF promise' = Twice THEN "aborted" ELSE caller
                      /\ op' = "shutdown"
                      /\ expires_after
                   \/ Broken(res) /\ Crash /\ UNCHANGED left
          /\ UNCHANGED <<scheme, host_set, elapsed>>

(* A truncated stream is ignored; everything else, success included, goes  *)
(* to fail, which ignores it too.                                          *)
on_shutdown ==
    /\ Completes("shutdown")
    /\ \E truncated \in BOOLEAN :
          Report(IF truncated THEN promise ELSE fail(promise, "shutdown"))
    /\ UNCHANGED <<scheme, host_set, left, elapsed, res_>>
-----------------------------------------------------------------------------
Tick ==
    /\ caller = "io"
    /\ op \notin {"none", "resolve"}
    /\ left > 0
    /\ left' = left - 1
    /\ elapsed' = elapsed + 1
    /\ UNCHANGED <<scheme, host_set, op, res_, promise, caller>>

run_waits ==
    /\ caller = "io"
    /\ op = "none"
    /\ promise # NoValue
    /\ caller' = "get"
    /\ UNCHANGED <<scheme, host_set, op, left, elapsed, res_, promise>>

(* ioc.run() returns when nothing is pending.                              *)
run_returns ==
    /\ caller = "io"
    /\ op = "none"
    /\ caller' = "get"
    /\ UNCHANGED <<scheme, host_set, op, left, elapsed, res_, promise>>

(* future.get() waits for the value, whether or not anyone will set it.    *)
get ==
    /\ caller = "get"
    /\ promise # NoValue
    /\ caller' = "returned"
    /\ UNCHANGED <<scheme, host_set, op, left, elapsed, res_, promise>>

Handler ==
    \/ run \/ run_ssl \/ on_resolve \/ on_connect \/ on_connect_ssl
    \/ on_handshake \/ on_write \/ on_read \/ on_read_ssl \/ on_shutdown

Next == Handler \/ Tick \/ run_returns \/ get

Spec == Init /\ [][Next]_vars

(* Time passes, the resolver answers, and ioc.run() runs what is ready.    *)
FairSpec == Spec /\ WF_vars(Next)
-----------------------------------------------------------------------------
(* What work_function makes of the value.                                  *)
Meaning(code) == CASE code = 200 -> "ok"
                   [] code = 301 -> "redirect"
                   [] OTHER -> "refused"

outcome == CASE caller = "returned" -> Meaning(promise.code)
             [] caller = "aborted" -> "throws"
             [] caller = "get" /\ promise = NoValue -> "silent"
             [] OTHER -> "pending"

startable == scheme = "http" \/ host_set

FetchSpec == INSTANCE Fetch

(* Whatever the network does, a fetch that was started is answered or ends *)
(* the process, once; and future.get() blocks for ever only if session_ssl *)
(* refused to start.  These are the statuses that Spider gives an address. *)
ImplementsFetch == FetchSpec!Spec

(* Every fetch comes to an outcome: no handler leaves the io_context with  *)
(* something pending that no deadline ends.                                *)
ComesToAnOutcome == <>(outcome # "pending")

(* From the moment the name is resolved the value is there after two       *)
(* deadlines at the most, and the whole session over after three: the      *)
(* handshake shares the connect's, the response shares the request's.      *)
AnswerInTime ==
    /\ elapsed <= 3 * Timeout
    /\ promise = NoValue => elapsed <= 2 * Timeout

(* The process only ends in a session by a response that lacks the header  *)
(* it is read for: no path through the handlers sets the promise twice,    *)
(* though every one of them may fail after the response was reported.      *)
AbortsOnlyOnBrokenResponse ==
    caller = "aborted" => res_ # NoResponse /\ Broken(res_)
=============================================================================
