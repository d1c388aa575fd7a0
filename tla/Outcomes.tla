------------------------------ MODULE Outcomes ------------------------------
(***************************************************************************)
(* What the ending of a task body means to the worker.  The embedded lanes *)
(* hand an outcome dict to outcome_from_py (pyrt.rs), the cpu child sends  *)
(* a response line that parse_pyresp (ctx.rs) reads; both return an        *)
(* Outcome.  Texts are left out; a field that is not sent is Absent.       *)
(***************************************************************************)
CONSTANTS
    Endings,   \* how a task body can end, see IsEnding
    Absent     \* a field that is not there

\* how: the body returned a value JSON can hold or one it cannot, raised Retry or
\* another exception, ran past its hard limit, or is not registered.
\* type: the name of the exception's class; countdown: the argument of Retry.
ASSUME EndingsAssumption ==
    \A e \in Endings :
        /\ e.how \in {"value", "unjson", "retry", "raise", "limit", "unregistered"}
        /\ e.how = "retry" => e.type = "Retry"
        /\ e.type # ""

ASSUME AbsentAssumption == Absent \notin BOOLEAN

Success == [is |-> "success"]

ForceRetry(countdown, err) == [is |-> "retry", countdown |-> countdown, err |-> err]

Failure(err, retryable) == [is |-> "failure", err |-> err, retryable |-> retryable]

Error(type, origin) == [type |-> type, origin |-> origin]

\* An error that was not sent.
NoError == Error("", "")

Reply(ok, result, retry, countdown, error, retryable) ==
    [ok |-> ok, result |-> result, retry |-> retry, countdown |-> countdown,
     error |-> error, retryable |-> retryable]

Refused(error) == Reply(FALSE, Absent, Absent, Absent, error, FALSE)

-----------------------------------------------------------------------------
(* The embedded lanes *)

\* _arun, _finish_value, _finish_exc: the dict of the shim, which keeps the value as it is.
ShimReply(e) ==
    CASE e.how \in {"value", "unjson"} -> Reply(TRUE, e.how, Absent, Absent, NoError, Absent)
      [] e.how = "retry" -> Reply(FALSE, Absent, TRUE, e.countdown, Error(e.type, "task"), Absent)
      [] e.how = "raise" -> Reply(FALSE, Absent, Absent, Absent, Error(e.type, "task"), TRUE)
      [] e.how = "limit" ->
            Reply(FALSE, Absent, Absent, Absent, Error("TimeLimitExceeded", "worker"), TRUE)
      [] e.how = "unregistered" -> Refused(Error("UnregisteredTask", "worker"))

Default(field, value) == IF field = Absent THEN value ELSE field

UnknownError == Error("UnknownError", "worker")

\* encode_result: the type gate and the encoder.
EncodeResult(result) ==
    IF result = "unjson" THEN Failure(Error("SerializationError", "worker"), FALSE) ELSE Success

OutcomeFromPy(r) ==
    LET err == IF r.error = NoError THEN UnknownError ELSE r.error IN
    IF r.ok THEN EncodeResult(r.result)
    ELSE IF Default(r.retry, FALSE) THEN ForceRetry(r.countdown, err)
    ELSE Failure(err, Default(r.retryable, err.type # "SerializationError"))

\* args_failure_outcome: arguments the codec refuses are refused on every retry.
ArgsFailure == Failure(Error("SerializationError", "worker"), FALSE)

\* fail_pending.
ShimFailure == Failure(Error("WorkerShimError", "worker"), TRUE)

-----------------------------------------------------------------------------
(* The cpu lane *)

\* _execute and _serialize_response_bytes: the child encodes, and answers with an
\* error when it cannot.
ChildReply(e) ==
    CASE e.how = "value" -> Reply(TRUE, "value", Absent, Absent, NoError, Absent)
      [] e.how = "unjson" -> Refused(Error("SerializationError", "worker"))
      [] e.how = "retry" -> Reply(FALSE, Absent, TRUE, e.countdown, Error(e.type, "task"), Absent)
      [] e.how = "raise" -> Reply(FALSE, Absent, Absent, Absent, Error(e.type, "task"), TRUE)
      [] e.how = "unregistered" -> Refused(Error("UnregisteredTask", "worker"))

\* from_cpu: an error named Retry forces one even where the flag is not set.
ParsePyresp(r, from_cpu) ==
    LET err == IF r.error = NoError THEN UnknownError ELSE r.error IN
    IF r.ok THEN Success
    ELSE IF Default(r.retry, FALSE) \/ (from_cpu /\ err.type = "Retry") THEN ForceRetry(r.countdown, err)
    ELSE Failure(err, Default(r.retryable, err.type # "SerializationError"))

\* run_cpu_task: a child past its hard limit is killed and answers nothing.
CpuOutcome(e) ==
    IF e.how = "limit" THEN Failure(Error("TimeLimitExceeded", "worker"), TRUE)
    ELSE ParsePyresp(ChildReply(e), TRUE)

-----------------------------------------------------------------------------
\* What process does with an outcome while retries are left, or with none left.
Settle(o, budget) ==
    CASE o.is = "success" -> [does |-> "result"]
      [] o.is = "retry" /\ budget -> [does |-> "retry", countdown |-> o.countdown]
      [] o.is = "failure" /\ o.retryable /\ budget -> [does |-> "retry", countdown |-> Absent]
      [] OTHER -> [does |-> "dlq", error |-> o.err.type,
                   reason |-> IF o.is = "failure" /\ ~o.retryable THEN "not_retryable"
                              ELSE "max_retries"]

\* The lanes agree (outcome_from_py, parse_pyresp): however its body ends, a task is
\* retried, finished or dead lettered the same way on the cpu lane as on the
\* embedded ones.
LanesAgree ==
    \A e \in Endings, budget \in BOOLEAN :
        Settle(OutcomeFromPy(ShimReply(e)), budget) = Settle(CpuOutcome(e), budget)
=============================================================================
