------------------------- MODULE HttpSessionProofs -------------------------
(***************************************************************************)
(* The safety properties of HttpSession for every deadline and every set   *)
(* of status codes.                                                        *)
(***************************************************************************)
EXTENDS HttpSession, TLAPS

LEMMA ValuesWiden ==
    ASSUME NEW codes \in SUBSET (Code \cup {0}),
           NEW bodies \in SUBSET {"", "page"},
           NEW locations \in SUBSET {"", "there", "garbage"}
    PROVE  [code : codes, body : bodies, location : locations] \subseteq Value
BY DEF Value

(* What a handler may report is a value, and never the marks -1 and -2.    *)
LEMMA ValueType ==
    /\ FailedTo \in Value
    /\ \A res \in Response : Sent(res) \subseteq Value
    /\ NoValue \notin Value /\ Twice \notin Value /\ NoValue # Twice
    /\ NoResponse \notin Response
<1>1. FailedTo \in Value
  BY DEF FailedTo, Value
<1>2. ASSUME NEW res \in Response
      PROVE  Sent(res) \subseteq Value
  <2>1. {res.code} \subseteq Code \cup {0}
    BY DEF Response
  <2> DEFINE bodies == IF res.code # 200 THEN {""}
                       ELSE IF res.header THEN {IF res.html THEN "page" ELSE ""}
                       ELSE {"", "page"}
             locations == IF res.code # 301 THEN {""}
                          ELSE {IF res.header THEN "there" ELSE "garbage"}
  <2>2. bodies \subseteq {"", "page"}
    OBVIOUS
  <2>3. locations \subseteq {"", "there", "garbage"}
    OBVIOUS
  <2>4. Sent(res) = [code : {res.code}, body : bodies, location : locations]
    BY DEF Sent
  <2> HIDE DEF bodies, locations
  <2>5. QED
    BY <2>1, <2>2, <2>3, <2>4, ValuesWiden
<1>3. \A v \in Value : v.code \in Nat
  <2>1. Code \cup {0} \subseteq Nat
    BY SessionAssumption
  <2>2. \A v \in Value : v.code \in Code \cup {0}
    BY DEF Value
  <2>3. QED
    BY <2>1, <2>2
<1>4. NoValue.code = -1 /\ Twice.code = -2
  BY DEF NoValue, Twice
<1>5. \A r \in Response : r.code \in Nat
  BY SessionAssumption DEF Response
<1>6. NoResponse.code = -1
  BY DEF NoResponse
<1>7. -1 \notin Nat /\ -2 \notin Nat /\ -1 # -2
  OBVIOUS
<1>8. QED
  BY <1>1, <1>2, <1>3, <1>4, <1>5, <1>6, <1>7

(* Reporting a value keeps the types.                                      *)
LEMMA ReportType ==
    ASSUME promise \in Value \cup {NoValue, Twice}, NEW v \in Value, NEW what
    PROVE  /\ set_value(promise, v) \in Value \cup {NoValue, Twice}
           /\ fail(promise, what) \in Value \cup {NoValue, Twice}
           /\ fail(set_value(promise, v), what) \in Value \cup {NoValue, Twice}
BY ValueType DEF set_value, fail

(* Every variable keeps its type.                                          *)
THEOREM TypeCorrect == Spec => []TypeOK
<1>1. Init => TypeOK
  BY SessionAssumption DEF Init, TypeOK, Operation
<1>2. ASSUME TypeOK, [Next]_vars
      PROVE  TypeOK'
  <2> USE <1>2, SessionAssumption DEF TypeOK, Operation, Completes, Well, expires_after
  <2>1. ASSUME NEW what, Failure(what)
        PROVE  TypeOK'
    <3>1. fail(promise, what) \in Value \cup {NoValue, Twice}
      BY ReportType, ValueType
    <3>2. QED
      BY <2>1, <3>1 DEF Failure, Report
  <2>2. CASE run \/ run_ssl
    BY <2>2 DEF run, run_ssl
  <2>3. CASE on_resolve \/ on_handshake \/ on_write
    BY <2>3, <2>1 DEF on_resolve, on_handshake, on_write
  <2>4. CASE on_connect \/ on_connect_ssl
    BY <2>4, <2>1 DEF on_connect, on_connect_ssl
  <2>5. CASE on_read
    <3>1. CASE Failure("read")
      BY <3>1, <2>1
    <3>2. ASSUME NEW res \in Response, NEW v \in Sent(res), NEW closed \in BOOLEAN,
                 res_' = res, UNCHANGED <<scheme, host_set, left, elapsed>>,
                 Report(IF closed THEN set_value(promise, v)
                        ELSE fail(set_value(promise, v), "shutdown"))
          PROVE  TypeOK'
      <4>1. v \in Value
        BY <3>2, ValueType
      <4>2. promise' \in Value \cup {NoValue, Twice}
        BY <3>2, <4>1, ReportType DEF Report
      <4>3. QED
        BY <3>2, <4>2 DEF Report
    <3>3. ASSUME NEW res \in Response, res_' = res, Crash,
                 UNCHANGED <<scheme, host_set, left, elapsed>>
          PROVE  TypeOK'
      BY <3>3 DEF Crash
    <3>4. QED
      BY <2>5, <3>1, <3>2, <3>3 DEF on_read
  <2>6. CASE on_read_ssl
    <3>1. CASE Failure("read")
      BY <3>1, <2>1
    <3>2. ASSUME NEW res \in Response, NEW v \in Sent(res),
                 res_' = res, UNCHANGED <<scheme, host_set, elapsed>>,
                 promise' = set_value(promise, v), op' = "shutdown", expires_after,
                 caller' = IF promise' = Twice THEN "aborted" ELSE caller
          PROVE  TypeOK'
      <4>1. v \in Value
        BY <3>2, ValueType
      <4>2. promise' \in Value \cup {NoValue, Twice}
        BY <3>2, <4>1, ReportType
      <4>3. QED
        BY <3>2, <4>2
    <3>3. ASSUME NEW res \in Response, res_' = res, Crash,
                 UNCHANGED <<scheme, host_set, left, elapsed>>
          PROVE  TypeOK'
      BY <3>3 DEF Crash
    <3>4. QED
      BY <2>6, <3>1, <3>2, <3>3 DEF on_read_ssl
  <2>7. CASE on_shutdown
    <3>1. fail(promise, "shutdown") \in Value \cup {NoValue, Twice}
      BY ReportType, ValueType
    <3>2. QED
      BY <2>7, <3>1 DEF on_shutdown, Report
  <2>8. CASE Tick
    BY <2>8 DEF Tick
  <2>9. CASE run_returns \/ get \/ UNCHANGED vars
    BY <2>9 DEF run_returns, get, vars
  <2>10. QED
    BY <2>2, <2>3, <2>4, <2>5, <2>6, <2>7, <2>8, <2>9 DEF Next, Handler
<1>3. QED
  BY <1>1, <1>2, PTL DEF Spec
-----------------------------------------------------------------------------
(* The promise along the chain of handlers: it is empty while an answer is *)
(* still to come, and holds a value once it was reported.                  *)
Promised ==
    /\ promise # Twice
    /\ promise # NoValue => startable
    /\ op # "none" => caller = "io" /\ startable
    /\ op \in {"resolve", "connect", "handshake", "write", "read"} => promise = NoValue
    /\ op = "shutdown" => promise # NoValue
    /\ caller \in {"io", "get"} /\ op = "none" /\ startable => promise # NoValue
    /\ caller = "created" => promise = NoValue
    /\ caller = "returned" => promise # NoValue

(* The first report fulfils the promise; a failure to close does not       *)
(* report.                                                                 *)
LEMMA FirstReport ==
    ASSUME promise = NoValue, NEW v \in Value, NEW what \in Operation \ {"shutdown"}
    PROVE  /\ set_value(promise, v) = v
           /\ fail(promise, what) = FailedTo
           /\ fail(set_value(promise, v), "shutdown") = v
           /\ v # NoValue /\ v # Twice
           /\ FailedTo # NoValue /\ FailedTo # Twice
BY ValueType DEF set_value, fail

LEMMA LaterFailure == fail(promise, "shutdown") = promise
BY DEF fail

LEMMA PromisedInv == Spec => []Promised
<1>1. Init => Promised
  BY ValueType DEF Init, Promised
<1>2. ASSUME Promised, [Next]_vars
      PROVE  Promised'
  <2> USE <1>2 DEF Promised, startable, Completes, Well
  <2>1. ASSUME NEW what \in Operation \ {"none", "shutdown"}, Failure(what)
        PROVE  Promised'
    <3>1. promise = NoValue
      BY <2>1 DEF Failure, Operation
    <3>2. promise' = FailedTo /\ FailedTo # NoValue /\ FailedTo # Twice
      BY <2>1, <3>1, FirstReport, ValueType DEF Failure, Report
    <3>3. QED
      BY <2>1, <3>2 DEF Failure, Report, Operation
  <2>2. CASE run \/ run_ssl
    BY <2>2 DEF run, run_ssl
  <2>3. CASE on_resolve \/ on_handshake \/ on_write
    BY <2>3, <2>1 DEF on_resolve, on_handshake, on_write, Operation
  <2>4. CASE on_connect \/ on_connect_ssl
    BY <2>4, <2>1 DEF on_connect, on_connect_ssl, Operation
  <2>5. CASE on_read
    <3>1. CASE Failure("read")
      BY <3>1, <2>1 DEF Operation
    <3>2. ASSUME NEW res \in Response, NEW v \in Sent(res), NEW closed \in BOOLEAN,
                 Well("read"), UNCHANGED <<scheme, host_set>>,
                 Report(IF closed THEN set_value(promise, v)
                        ELSE fail(set_value(promise, v), "shutdown"))
          PROVE  Promised'
      <4>1. v \in Value /\ promise = NoValue
        BY <3>2, ValueType
      <4>2. promise' = v /\ v # NoValue /\ v # Twice
        BY <3>2, <4>1, FirstReport DEF Report, Operation
      <4>3. QED
        BY <3>2, <4>2 DEF Report
    <3>3. ASSUME Crash, Well("read"), UNCHANGED <<scheme, host_set>>
          PROVE  Promised'
      BY <3>3 DEF Crash
    <3>4. QED
      BY <2>5, <3>1, <3>2, <3>3 DEF on_read
  <2>6. CASE on_read_ssl
    <3>1. CASE Failure("read")
      BY <3>1, <2>1 DEF Operation
    <3>2. ASSUME NEW res \in Response, NEW v \in Sent(res),
                 Well("read"), UNCHANGED <<scheme, host_set>>,
                 promise' = set_value(promise, v), op' = "shutdown",
                 caller' = IF promise' = Twice THEN "aborted" ELSE caller
          PROVE  Promised'
      <4>1. v \in Value /\ promise = NoValue
        BY <3>2, ValueType
      <4>2. promise' = v /\ v # NoValue /\ v # Twice
        BY <3>2, <4>1, FirstReport DEF Operation
      <4>3. QED
        BY <3>2, <4>2
    <3>3. ASSUME Crash, Well("read"), UNCHANGED <<scheme, host_set>>
          PROVE  Promised'
      BY <3>3 DEF Crash
    <3>4. QED
      BY <2>6, <3>1, <3>2, <3>3 DEF on_read_ssl
  <2>7. CASE on_shutdown
    BY <2>7, LaterFailure DEF on_shutdown, Report
  <2>8. CASE Tick \/ run_returns \/ get \/ UNCHANGED vars
    BY <2>8 DEF Tick, run_returns, get, vars
  <2>9. QED
    BY <2>2, <2>3, <2>4, <2>5, <2>6, <2>7, <2>8 DEF Next, Handler
<1>3. QED
  BY <1>1, <1>2, PTL DEF Spec
-----------------------------------------------------------------------------
(* The process ends in a session only by a response without its header.    *)
THEOREM OneReportOnly == Spec => []AbortsOnlyOnBrokenResponse
<1> USE DEF AbortsOnlyOnBrokenResponse
<1>1. Init => AbortsOnlyOnBrokenResponse
  BY DEF Init
<1>2. ASSUME TypeOK, Promised, Promised', AbortsOnlyOnBrokenResponse, [Next]_vars
      PROVE  AbortsOnlyOnBrokenResponse'
  <2>1. promise' # Twice
    BY <1>2 DEF Promised
  <2>2. ASSUME NEW what, Failure(what)
        PROVE  AbortsOnlyOnBrokenResponse'
    BY <1>2, <2>1, <2>2 DEF Failure, Report
  <2>3. ASSUME NEW res \in Response, res_' = res,
               caller' = "aborted" => Broken(res)
        PROVE  AbortsOnlyOnBrokenResponse'
    BY <2>3, ValueType
  <2>4. CASE on_read \/ on_read_ssl
    <3>1. caller = "io"
      BY <2>4 DEF on_read, on_read_ssl, Failure, Completes, Well
    <3>2. CASE Failure("read")
      BY <3>2, <2>2
    <3>3. ASSUME NEW res \in Response, res_' = res, Broken(res) /\ Crash
          PROVE  AbortsOnlyOnBrokenResponse'
      BY <3>3, <2>3
    <3>4. ASSUME NEW res \in Response, res_' = res,
                 caller' = IF promise' = Twice THEN "aborted" ELSE caller
          PROVE  AbortsOnlyOnBrokenResponse'
      BY <3>4, <3>1, <2>1, <2>3
    <3>5. QED
      BY <2>4, <3>2, <3>3, <3>4 DEF on_read, on_read_ssl, Report
  <2>5. CASE ~ (on_read \/ on_read_ssl)
    BY <1>2, <2>1, <2>2, <2>5
    DEF Next, Handler, run, run_ssl, on_resolve, on_connect, on_connect_ssl,
        on_handshake, on_write, on_shutdown, Report, Tick, run_returns, get, vars
  <2>6. QED
    BY <2>4, <2>5
<1>3. QED
  BY <1>1, <1>2, TypeCorrect, PromisedInv, PTL DEF Spec
-----------------------------------------------------------------------------
(* How much of the deadlines is spent, by what is pending.                 *)
Spent ==
    /\ caller = "created" \/ op = "resolve" => elapsed = 0
    /\ op \in {"connect", "handshake"} => elapsed + left <= Timeout
    /\ op \in {"write", "read"} => elapsed + left <= 2 * Timeout
    /\ op = "shutdown" => elapsed + left <= 3 * Timeout

(* The value is there after two deadlines, the session over after three.   *)
THEOREM TimeBounded == Spec => []AnswerInTime
<1> DEFINE I == AnswerInTime /\ Spent
<1>1. Init => I
  BY SessionAssumption DEF Init, AnswerInTime, Spent
<1>2. ASSUME TypeOK, Promised, Promised', I, [Next]_vars
      PROVE  I'
  <2> USE <1>2, SessionAssumption
      DEF TypeOK, AnswerInTime, Spent, Completes, Well, expires_after
  <2>1. ASSUME op' = "none", UNCHANGED elapsed, caller' # "created",
               promise' = NoValue => promise = NoValue
        PROVE  I'
    BY <2>1
  <2>2. ASSUME NEW what \in Operation \ {"none"}, Failure(what)
        PROVE  I'
    <3>1. promise' = NoValue => promise = NoValue
      BY <2>2, ValueType DEF Failure, Report, fail, set_value
    <3>2. QED
      BY <2>1, <2>2, <3>1 DEF Failure, Report
  <2>3. CASE run \/ run_ssl
    BY <2>3 DEF run, run_ssl, Promised
  <2>4. CASE on_resolve
    BY <2>4, <2>2 DEF on_resolve, Operation
  <2>5. CASE on_connect \/ on_connect_ssl
    BY <2>5, <2>2 DEF on_connect, on_connect_ssl, Operation
  <2>6. CASE on_handshake \/ on_write
    BY <2>6, <2>2 DEF on_handshake, on_write, Operation
  <2>7. CASE on_read
    <3>1. CASE Failure("read")
      BY <3>1, <2>2 DEF Operation
    <3>2. CASE op = "read" /\ op' = "none" /\ UNCHANGED elapsed /\ caller = "io"
      <4>1. elapsed <= 2 * Timeout
        BY <3>2
      <4>2. caller' # "created"
        BY <2>7, <3>2 DEF on_read, Failure, Report, Crash
      <4>3. QED
        BY <3>2, <4>1, <4>2
    <3>3. QED
      BY <2>7, <3>1, <3>2 DEF on_read, Report, Crash
  <2>8. CASE on_read_ssl
    <3>1. CASE Failure("read")
      BY <3>1, <2>2 DEF Operation
    <3>2. CASE op = "read" /\ op' = "none" /\ UNCHANGED <<elapsed, promise>>
               /\ caller' = "aborted"
      BY <3>2, <2>1
    <3>3. CASE op = "read" /\ op' = "shutdown" /\ UNCHANGED elapsed /\ left' = Timeout
               /\ caller = "io"
      <4>1. elapsed' + left' <= 3 * Timeout /\ elapsed' <= 2 * Timeout
        BY <3>3
      <4>2. caller' # "created"
        BY <2>8, <3>3 DEF on_read_ssl, Failure, Report, Crash
      <4>3. QED
        BY <3>3, <4>1, <4>2
    <3>4. QED
      BY <2>8, <3>1, <3>2, <3>3 DEF on_read_ssl, Crash
  <2>9. CASE on_shutdown
    <3>1. promise # NoValue /\ promise' = promise
      BY <2>9, LaterFailure DEF on_shutdown, Report, Promised
    <3>2. QED
      BY <2>9, <3>1, <2>1 DEF on_shutdown, Report
  <2>10. CASE Tick
    <3>1. op \in {"connect", "handshake", "write", "read", "shutdown"}
      BY <2>10 DEF Tick, Operation
    <3>2. elapsed' + left' = elapsed + left /\ left' >= 0
      BY <2>10 DEF Tick
    <3>3. op = "shutdown" => promise # NoValue
      BY DEF Promised
    <3>4. UNCHANGED <<op, promise, caller>> /\ caller = "io"
      BY <2>10 DEF Tick
    <3>5. elapsed' \in Nat /\ left' \in Nat /\ elapsed' <= elapsed + left
      BY <3>2, <2>10 DEF Tick
    <3>6. Spent'
      BY <3>1, <3>2, <3>4
    <3>7. AnswerInTime'
      <4>1. CASE op \in {"connect", "handshake"}
        BY <4>1, <3>4, <3>5
      <4>2. CASE op \in {"write", "read"}
        BY <4>2, <3>4, <3>5
      <4>3. CASE op = "shutdown"
        BY <4>3, <3>3, <3>4, <3>5
      <4>4. QED
        BY <3>1, <4>1, <4>2, <4>3
    <3>8. QED
      BY <3>6, <3>7
  <2>11. CASE run_returns \/ get \/ UNCHANGED vars
    BY <2>11 DEF run_returns, get, vars
  <2>12. QED
    BY <2>3, <2>4, <2>5, <2>6, <2>7, <2>8, <2>9, <2>10, <2>11 DEF Next, Handler
<1>3. QED
  BY <1>1, <1>2, TypeCorrect, PromisedInv, PTL DEF Spec
-----------------------------------------------------------------------------
(* The refinement: the handlers decide nothing that work_function could    *)
(* see before future.get() returns or the process ends, and once.          *)
LEMMA MeaningType ==
    ASSUME NEW code PROVE Meaning(code) \in {"ok", "redirect", "refused"}
BY DEF Meaning

THEOREM SessionImplementsFetch == Spec => ImplementsFetch
<1>1. Init => FetchSpec!Init
  BY DEF Init, FetchSpec!Init, startable, outcome
<1>2. ASSUME TypeOK, Promised, [Next]_vars
      PROVE  [FetchSpec!Next]_<<startable, outcome>>
  <2>1. startable' = startable /\ startable \in BOOLEAN
    BY <1>2
    DEF TypeOK, startable, Next, Handler, run, run_ssl, on_resolve, on_connect,
        on_connect_ssl, on_handshake, on_write, on_read, on_read_ssl,
        on_shutdown, Failure, Tick, run_returns, get, vars
  <2>2. CASE Handler
    <3>1. caller \in {"created", "io"} /\ caller' \in {"io", "aborted"}
      BY <2>2
      DEF Handler, run, run_ssl, on_resolve, on_connect, on_connect_ssl,
          on_handshake, on_write, on_read, on_read_ssl, on_shutdown, Failure,
          Report, Crash, Completes, Well
    <3>2. outcome = "pending" /\ outcome' \in {"pending", "throws"}
      BY <3>1 DEF outcome
    <3>3. CASE caller' = "aborted"
      <4>1. startable
        <5>1. op # "none"
          BY <2>2, <3>3
          DEF Handler, run, run_ssl, on_resolve, on_connect, on_connect_ssl,
              on_handshake, on_write, on_read, on_read_ssl, on_shutdown, Failure,
              Completes, Well
        <5>2. QED
          BY <5>1, <1>2 DEF Promised
      <4>2. QED
        BY <2>1, <3>2, <4>1 DEF FetchSpec!Next, FetchSpec!Decide
    <3>4. QED
      BY <2>1, <3>1, <3>2, <3>3 DEF outcome
  <2>3. CASE Tick
    BY <2>1, <2>3 DEF Tick, outcome
  <2>4. CASE run_returns
    <3>1. outcome = "pending"
      BY <2>4 DEF run_returns, outcome
    <3>2. outcome' = IF promise = NoValue THEN "silent" ELSE "pending"
      BY <2>4 DEF run_returns, outcome
    <3>3. promise = NoValue => ~ startable
      BY <2>4, <1>2 DEF run_returns, Promised
    <3>4. QED
      BY <2>1, <3>1, <3>2, <3>3 DEF FetchSpec!Next, FetchSpec!FallSilent
  <2>5. CASE get
    <3>1. outcome = "pending" /\ outcome' = Meaning(promise.code)
      BY <2>5 DEF get, outcome
    <3>2. startable
      BY <2>5, <1>2 DEF get, Promised
    <3>3. QED
      BY <2>1, <3>1, <3>2, MeaningType DEF FetchSpec!Next, FetchSpec!Decide
  <2>6. CASE UNCHANGED vars
    BY <2>1, <2>6 DEF vars, outcome
  <2>7. QED
    BY <1>2, <2>2, <2>3, <2>4, <2>5, <2>6 DEF Next
<1>3. QED
  BY <1>1, <1>2, TypeCorrect, PromisedInv, PTL DEF Spec, ImplementsFetch, FetchSpec!Spec
=============================================================================
