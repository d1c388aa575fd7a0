------------------------------ MODULE Delivery ------------------------------
(***************************************************************************)
(* Delivery of the tasks of one queue: the stream cauli:q:{queue} with its *)
(* consumer group, the delayed set, the dead letter stream, the result     *)
(* keys, and the worker processes that fetch, run, finish, recover, move   *)
(* and trim (worker/src/broker.rs, loops.rs, dispatch.rs).                 *)
(*                                                                         *)
(* Queues share nothing but worker capacity, so one queue is modelled.     *)
(* Every Redis command is one step; a pipeline is one step per command and *)
(* per entry, so a batch may be torn between any two of its commands.      *)
(* Time is abstracted: a delayed envelope may come due in any state, and   *)
(* the idle time of a pending entry is one of three levels.                *)
(***************************************************************************)
EXTENDS Integers, Sequences, FiniteSets

CONSTANTS
    Tasks,            \* task ids
    Workers,          \* worker processes
    MaxRetries,       \* max_retries of every envelope
    RedeliveryFloor,  \* the 3 of redelivery_limit = max(3, max_retries + 1)
    StoreResult,      \* tasks with store_result = true
    Rejected,         \* envelopes the gates of process() dead letter
    Unparsed,         \* rejected envelopes recovery cannot parse either
    Unreadable,       \* rejected envelopes with no recoverable task id
    Keyed,            \* tasks whose idempotency key another task may hold
    Expiring,         \* tasks with a deadline
    LongTasks,        \* timeout + grace + margin exceeds the visibility timeout
    Trimmers,         \* bound: the workers whose trim loop runs (in the code, all)
    MaxId,            \* bound: entries ever added to the stream
    MaxFaults         \* bound: crashes, refused writes and lost replies

ASSUME DeliveryAssumption ==
    /\ MaxRetries \in Nat
    /\ RedeliveryFloor \in Nat \ {0}
    /\ StoreResult \subseteq Tasks
    /\ Rejected \subseteq Tasks
    /\ Unparsed \subseteq Rejected
    /\ Unreadable \subseteq Rejected
    /\ Keyed \subseteq Tasks
    /\ Expiring \subseteq Tasks
    /\ LongTasks \subseteq Tasks \ Unparsed
    /\ IsFiniteSet(Workers) /\ Trimmers \subseteq Workers
    /\ MaxId \in Nat
    /\ MaxFaults \in Nat

VARIABLES
    accepted,   \* tasks whose enqueue Redis accepted
    log,        \* log[i]: the envelope XADDed as entry i (never shrinks)
    stream,     \* the entries of log still in the stream
    delivered,  \* last-delivered-id of the group "cauli"
    pel,        \* the group's pending entries
    count,      \* count[i]: delivery count of entry i
    idle,       \* idle[i]: 0, 1 (>= visibility timeout), 2 (>= a long task's)
    delayed,    \* members of the delayed sorted set
    results,    \* tasks with a result key
    dlq,        \* tasks with a dead letter
    returned,   \* history: tasks that returned, or were resolved as duplicates
    runs,       \* history: runs[i] is how often entry i was executed
    up,         \* live worker processes
    stage,      \* stage[w][i]: how far w has got with its copy of entry i
    page,       \* page[w][i]: delivery count w's recovery read for i, or 0
    trimAt,     \* trimAt[w]: where w's trim loop is
    trimVal,    \* trimVal[w]: the id its last probe returned
    trimmedTo,  \* trimmedTo[w]: the boundary of its last XTRIM
    faults      \* faults used up so far

redisVars  == <<accepted, log, stream, delivered, pel, count, idle, delayed, results, dlq>>
trimVars   == <<trimAt, trimVal, trimmedTo>>
vars       == <<accepted, log, stream, delivered, pel, count, idle, delayed, results, dlq,
                returned, runs, up, stage, page, trimAt, trimVal, trimmedTo, faults>>

Ids == 1 .. MaxId

\* retries travels in the envelope; the rest of it is fixed per task.
Envelope == [task : Tasks, retries : 0 .. MaxRetries]

\* A finish_* call waiting in the ack buffer, by the writes it carries.
Kinds == {"success", "duplicate", "retry", "deadletter", "terminal"}
Stages == {"none", "held", "run", "ack", "del"} \cup Kinds

-----------------------------------------------------------------------------
(* Operators *)

\* redelivery_limit: the floor alone when the envelope does not parse.
RedeliveryLimit(t) ==
    IF t \in Unparsed \/ RedeliveryFloor > MaxRetries + 1
    THEN RedeliveryFloor ELSE MaxRetries + 1

\* The idle level recover_page requires before it reclaims entry i.
RequiredIdle(i) == IF log[i].task \in LongTasks THEN 2 ELSE 1

\* Ctx::holds_entry: w has a live copy of entry i.
HoldsEntry(w, i) == stage[w][i] # "none"

\* An entry the group still owes a delivery or an ack for.
Owed(i) == i \in stream /\ (i > delivered \/ i \in pel)

\* dlq_terminal: a dead letter, and a failure result if recover_id finds the id.
TerminalWrites(t) == {"dlq"} \cup IF t \in Unreadable THEN {} ELSE {"result"}

\* Mutant of Writes: final_failure forgets the failure result.
WritesDlqOnly(k, t) ==
    CASE k \in {"success", "duplicate"} -> IF t \in StoreResult THEN {"result"} ELSE {}
      [] k = "retry"                    -> {"delayed"}
      [] k = "deadletter"               -> {"dlq"}
      [] k = "terminal"                 -> TerminalWrites(t)

\* The commands of a finish_* call that precede its XACK.
Writes(k, t) ==
    CASE k \in {"success", "duplicate"} -> IF t \in StoreResult THEN {"result"} ELSE {}
      [] k = "retry"                    -> {"delayed"}
      [] k = "deadletter"               -> {"dlq"} \cup IF t \in StoreResult THEN {"result"} ELSE {}
      [] k = "terminal"                 -> TerminalWrites(t)

\* Mutant of Land: schedule_retry forgets to count the retry.
LandSameAttempt(W, e) ==
    /\ results' = IF "result" \in W THEN results \cup {e.task} ELSE results
    /\ dlq' = IF "dlq" \in W THEN dlq \cup {e.task} ELSE dlq
    /\ delayed' = IF "delayed" \in W THEN delayed \cup {e} ELSE delayed

\* The subset W of those commands is executed by Redis.
Land(W, e) ==
    /\ results' = IF "result" \in W THEN results \cup {e.task} ELSE results
    /\ dlq' = IF "dlq" \in W THEN dlq \cup {e.task} ELSE dlq
    /\ delayed' = IF "delayed" \in W
                  THEN delayed \cup {[task |-> e.task, retries |-> e.retries + 1]}
                  ELSE delayed

XAdd(e) ==
    /\ Len(log) < MaxId
    /\ log' = Append(log, e)
    /\ stream' = stream \cup {Len(log) + 1}

Fault == faults < MaxFaults /\ faults' = faults + 1

Become(w, i, s) == stage' = [stage EXCEPT ![w][i] = s]
-----------------------------------------------------------------------------
(* The client *)

\* Cauli._publish without a fire time: XADD.
Enqueue(t) ==
    /\ t \notin accepted
    /\ accepted' = accepted \cup {t}
    /\ XAdd([task |-> t, retries |-> 0])
    /\ UNCHANGED <<delivered, pel, count, idle, delayed, results, dlq,
                   returned, runs, up, stage, page, trimVars, faults>>

\* Cauli._publish with countdown or eta: ZADD.
EnqueueLater(t) ==
    /\ t \notin accepted
    /\ accepted' = accepted \cup {t}
    /\ delayed' = delayed \cup {[task |-> t, retries |-> 0]}
    /\ UNCHANGED <<log, stream, delivered, pel, count, idle, results, dlq,
                   returned, runs, up, stage, page, trimVars, faults>>

-----------------------------------------------------------------------------
(* Fetch, dispatch and execution *)

\* XREADGROUP with id ">": the group hands out undelivered entries in order.
Deliver(w, i) ==
    /\ w \in up
    /\ i \in stream
    /\ i > delivered
    /\ \A j \in stream : j > delivered => i <= j
    /\ delivered' = i
    /\ pel' = pel \cup {i}
    /\ count' = [count EXCEPT ![i] = 1]
    /\ idle' = [idle EXCEPT ![i] = 0]
    /\ UNCHANGED <<accepted, log, stream, delayed, results, dlq, returned, runs, up, page,
                   trimVars>>

\* fetch_loop: the entry reaches the worker and is dispatched.
Fetch(w, i) ==
    /\ Deliver(w, i)
    /\ Become(w, i, "held")
    /\ UNCHANGED faults

\* The reply is lost: the entry is pending and no process holds it.
FetchLost(w, i) ==
    /\ Deliver(w, i)
    /\ Fault
    /\ UNCHANGED stage

\* process(): the gates, in the code's order, up to the execution of the task.
Dispatch(w, i) ==
    /\ stage[w][i] = "held"
    /\ LET t == log[i].task IN
       \/ /\ t \in Rejected
          /\ Become(w, i, "terminal")
          /\ UNCHANGED <<returned, runs>>
       \/ /\ t \in Expiring \ Rejected
          /\ Become(w, i, "deadletter")
          /\ UNCHANGED <<returned, runs>>
       \/ /\ t \in Keyed \ Rejected
          /\ Become(w, i, "duplicate")
          /\ returned' = returned \cup {t}
          /\ UNCHANGED runs
       \/ /\ t \notin Rejected
          /\ Become(w, i, "run")
          /\ runs' = [runs EXCEPT ![i] = @ + 1]
          /\ UNCHANGED returned
    /\ UNCHANGED <<redisVars, up, page, trimVars, faults>>

\* Mutant of Finish: the retry budget is not checked.
FinishNoBudget(w, i) ==
    /\ stage[w][i] = "run"
    /\ Become(w, i, "retry")
    /\ UNCHANGED <<redisVars, returned, runs, up, page, trimVars, faults>>

\* finish(): success, schedule_retry or final_failure, into the ack buffer.
Finish(w, i) ==
    /\ stage[w][i] = "run"
    /\ \/ /\ Become(w, i, "success")
          /\ returned' = returned \cup {log[i].task}
       \/ /\ log[i].retries < MaxRetries
          /\ Become(w, i, "retry")
          /\ UNCHANGED returned
       \/ /\ Become(w, i, "deadletter")
          /\ UNCHANGED returned
    /\ UNCHANGED <<redisVars, runs, up, page, trimVars, faults>>

-----------------------------------------------------------------------------
(* The completion flusher: own writes, then XACK, then XDEL *)

\* flush_batch, first round trip: every own write of the entry landed.
FlushWrites(w, i) ==
    /\ stage[w][i] \in Kinds
    /\ Land(Writes(stage[w][i], log[i].task), log[i])
    /\ Become(w, i, "ack")
    /\ UNCHANGED <<accepted, log, stream, delivered, pel, count, idle,
                   returned, runs, up, page, trimVars, faults>>

\* Mutant of FlushRefused: one pipeline for everything, so a refused write is acked.
FlushRefusedAcked(w, i) ==
    /\ stage[w][i] \in Kinds
    /\ Fault
    /\ \E W \in SUBSET Writes(stage[w][i], log[i].task) : Land(W, log[i])
    /\ Become(w, i, "ack")
    /\ UNCHANGED <<accepted, log, stream, delivered, pel, count, idle,
                   returned, runs, up, page, trimVars>>

\* A write was refused, or the reply lost: answered Err, never acked, whatever
\* part of the writes landed.
FlushRefused(w, i) ==
    /\ stage[w][i] \in Kinds
    /\ Fault
    /\ \E W \in SUBSET Writes(stage[w][i], log[i].task) : Land(W, log[i])
    /\ Become(w, i, "none")
    /\ UNCHANGED <<accepted, log, stream, delivered, pel, count, idle,
                   returned, runs, up, page, trimVars>>

\* Mutant of FlushAck: the XDEL is sent first.
FlushAckAfterDelete(w, i) ==
    /\ stage[w][i] = "ack"
    /\ stream' = stream \ {i}
    /\ Become(w, i, "del")
    /\ UNCHANGED <<accepted, log, delivered, pel, count, idle, delayed, results, dlq,
                   returned, runs, up, page, trimVars, faults>>

\* ack_pipeline, first command: XACK, whoever owns the pending entry by now.
FlushAck(w, i) ==
    /\ stage[w][i] = "ack"
    /\ pel' = pel \ {i}
    /\ Become(w, i, "del")
    /\ UNCHANGED <<accepted, log, stream, delivered, count, idle, delayed, results, dlq,
                   returned, runs, up, page, trimVars, faults>>

\* ack_pipeline, second command: XDEL; the waiter is answered.
FlushDelete(w, i) ==
    /\ stage[w][i] = "del"
    /\ stream' = stream \ {i}
    /\ Become(w, i, "none")
    /\ UNCHANGED <<accepted, log, delivered, pel, count, idle, delayed, results, dlq,
                   returned, runs, up, page, trimVars, faults>>

\* The connection breaks before XACK, or between XACK and XDEL.
FlushTorn(w, i) ==
    /\ stage[w][i] \in {"ack", "del"}
    /\ Fault
    /\ Become(w, i, "none")
    /\ UNCHANGED <<redisVars, returned, runs, up, page, trimVars>>

-----------------------------------------------------------------------------
(* Recovery of pending entries *)

\* Time passes for a pending entry.
GrowIdle(i) ==
    /\ i \in pel
    /\ idle[i] < RequiredIdle(i)
    /\ idle' = [idle EXCEPT ![i] = @ + 1]
    /\ UNCHANGED <<accepted, log, stream, delivered, pel, count, delayed, results, dlq,
                   returned, runs, up, stage, page, trimVars, faults>>

\* Mutant of Eligible: entries this process still holds are not skipped.
EligibleThoughHeld(w) == {i \in pel : i \in stream /\ idle[i] >= RequiredIdle(i)}

\* recover_page up to the XCLAIM: the entries idle long enough that this
\* process does not hold, with the delivery counts XPENDING reported.
Eligible(w) ==
    {i \in pel : i \in stream /\ idle[i] >= RequiredIdle(i) /\ ~HoldsEntry(w, i)}

RecoverScan(w) ==
    /\ w \in up
    /\ \A i \in Ids : page[w][i] = 0
    /\ Eligible(w) # {}
    /\ page' = [page EXCEPT ![w] = [i \in Ids |-> IF i \in Eligible(w) THEN count[i] ELSE 0]]
    /\ UNCHANGED <<redisVars, returned, runs, up, stage, trimVars, faults>>

\* XCLAIM of the entries S with the visibility timeout as its minimum idle time.
Claimable(i) == i \in pel /\ idle[i] >= 1

XClaim(S) ==
    /\ count' = [i \in Ids |-> IF i \in S /\ Claimable(i) THEN count[i] + 1 ELSE count[i]]
    /\ idle' = [i \in Ids |-> IF i \in S /\ Claimable(i) THEN 0 ELSE idle[i]]

\* Mutant of RecoverClaim: the redelivery limit is not enforced.
RecoverClaimNoLimit(w, i) ==
    /\ page[w][i] > 0
    /\ XClaim({i})
    /\ IF Claimable(i) THEN Become(w, i, "held") ELSE UNCHANGED stage
    /\ page' = [page EXCEPT ![w][i] = 0]
    /\ UNCHANGED <<accepted, log, stream, delivered, pel, delayed, results, dlq,
                   returned, runs, up, trimVars, faults>>

\* A claimed entry is dead lettered or dispatched on the count read earlier.
RecoverClaim(w, i) ==
    /\ page[w][i] > 0
    /\ XClaim({i})
    /\ IF Claimable(i)
       THEN Become(w, i, IF page[w][i] > RedeliveryLimit(log[i].task) THEN "terminal" ELSE "held")
       ELSE UNCHANGED stage
    /\ page' = [page EXCEPT ![w][i] = 0]
    /\ UNCHANGED <<accepted, log, stream, delivered, pel, delayed, results, dlq,
                   returned, runs, up, trimVars, faults>>

\* The XCLAIM pipeline errors: whatever it claimed, up to entry i of the page,
\* is dispatched by nobody.
RecoverLost(w, i) ==
    /\ page[w][i] > 0
    /\ Fault
    /\ XClaim({j \in 1 .. i : page[w][j] > 0})
    /\ page' = [page EXCEPT ![w] = [j \in Ids |-> 0]]
    /\ UNCHANGED <<accepted, log, stream, delivered, pel, delayed, results, dlq,
                   returned, runs, up, stage, trimVars>>

-----------------------------------------------------------------------------
(* The delayed mover *)

\* Mutant of Move: the envelope is published without its retry count.
MoveFirstAttempt(w, e) ==
    /\ w \in up
    /\ e \in delayed
    /\ XAdd([e EXCEPT !.retries = 0])
    /\ delayed' = delayed \ {e}
    /\ UNCHANGED <<accepted, delivered, pel, count, idle, results, dlq,
                   returned, runs, up, stage, page, trimVars, faults>>

\* MOVER_LUA on one due member: XADD, then ZREM.
Move(w, e) ==
    /\ w \in up
    /\ e \in delayed
    /\ XAdd(e)
    /\ delayed' = delayed \ {e}
    /\ UNCHANGED <<accepted, delivered, pel, count, idle, results, dlq,
                   returned, runs, up, stage, page, trimVars, faults>>

\* The script stops after the XADD; its writes are not rolled back.
MoveTorn(w, e) ==
    /\ w \in up
    /\ e \in delayed
    /\ XAdd(e)
    /\ Fault
    /\ UNCHANGED <<accepted, delivered, pel, count, idle, delayed, results, dlq,
                   returned, runs, up, stage, page, trimVars>>

-----------------------------------------------------------------------------
(* The trim backstop *)

\* acked_below, first read: XINFO GROUPS gives last-delivered-id.
TrimInfo(w) ==
    /\ w \in up \cap Trimmers
    /\ trimAt[w] = "idle"
    /\ trimAt' = [trimAt EXCEPT ![w] = "info"]
    /\ trimVal' = [trimVal EXCEPT ![w] = delivered]
    /\ UNCHANGED <<redisVars, returned, runs, up, stage, page, trimmedTo, faults>>

\* Mutant of AckedBelow: the oldest pending entry itself is trimmed.
AckedUpTo(last) ==
    IF pel # {} THEN (CHOOSE m \in pel : \A j \in pel : m <= j) + 1
    ELSE IF last = 0 THEN 0 ELSE last + 1

\* Mutant of AckedBelow: the boundary is last-delivered-id itself.
AckedBelowExclusive(last) ==
    IF pel # {} THEN CHOOSE m \in pel : \A j \in pel : m <= j ELSE last

\* The boundary below which every entry is acked: the oldest pending entry,
\* or with none pending one past the id read before; 0 when there is none.
AckedBelow(last) ==
    IF pel # {} THEN CHOOSE m \in pel : \A j \in pel : m <= j
    ELSE IF last = 0 THEN 0 ELSE last + 1

\* acked_below, second read (XPENDING), and trim_loop's test of trimmed_to.
TrimPending(w) ==
    /\ trimAt[w] = "info"
    /\ LET b == AckedBelow(trimVal[w]) IN
       IF b = 0 \/ b = trimmedTo[w]
       THEN /\ trimAt' = [trimAt EXCEPT ![w] = "idle"]
            /\ trimVal' = [trimVal EXCEPT ![w] = 0]
       ELSE /\ trimAt' = [trimAt EXCEPT ![w] = "bound"]
            /\ trimVal' = [trimVal EXCEPT ![w] = b]
    /\ UNCHANGED <<redisVars, returned, runs, up, stage, page, trimmedTo, faults>>

\* XTRIM MINID.
Trim(w) ==
    /\ trimAt[w] = "bound"
    /\ stream' = {i \in stream : i >= trimVal[w]}
    /\ trimmedTo' = [trimmedTo EXCEPT ![w] = trimVal[w]]
    /\ trimAt' = [trimAt EXCEPT ![w] = "idle"]
    /\ trimVal' = [trimVal EXCEPT ![w] = 0]
    /\ UNCHANGED <<accepted, log, delivered, pel, count, idle, delayed, results, dlq,
                   returned, runs, up, stage, page, faults>>

\* XTRIM fails: the boundary is not remembered.
TrimFailed(w) ==
    /\ trimAt[w] = "bound"
    /\ Fault
    /\ trimAt' = [trimAt EXCEPT ![w] = "idle"]
    /\ trimVal' = [trimVal EXCEPT ![w] = 0]
    /\ UNCHANGED <<redisVars, returned, runs, up, stage, page, trimmedTo>>

-----------------------------------------------------------------------------
(* Worker processes *)

\* A process dies (a crash, or a drain that timed out) with all it held in memory.
Crash(w) ==
    /\ w \in up
    /\ Fault
    /\ up' = up \ {w}
    /\ stage' = [stage EXCEPT ![w] = [i \in Ids |-> "none"]]
    /\ page' = [page EXCEPT ![w] = [i \in Ids |-> 0]]
    /\ trimAt' = [trimAt EXCEPT ![w] = "idle"]
    /\ trimVal' = [trimVal EXCEPT ![w] = 0]
    /\ trimmedTo' = [trimmedTo EXCEPT ![w] = 0]
    /\ UNCHANGED <<redisVars, returned, runs>>

\* The supervisor starts a process in its place.
Start(w) ==
    /\ w \notin up
    /\ up' = up \cup {w}
    /\ UNCHANGED <<redisVars, returned, runs, stage, page, trimVars, faults>>

-----------------------------------------------------------------------------
Init ==
    /\ accepted = {} /\ log = <<>> /\ stream = {} /\ delivered = 0
    /\ pel = {} /\ delayed = {} /\ results = {} /\ dlq = {} /\ returned = {}
    /\ count = [i \in Ids |-> 0] /\ idle = [i \in Ids |-> 0] /\ runs = [i \in Ids |-> 0]
    /\ up = Workers
    /\ stage = [w \in Workers |-> [i \in Ids |-> "none"]]
    /\ page = [w \in Workers |-> [i \in Ids |-> 0]]
    /\ trimAt = [w \in Workers |-> "idle"]
    /\ trimVal = [w \in Workers |-> 0]
    /\ trimmedTo = [w \in Workers |-> 0]
    /\ faults = 0

Client == \E t \in Tasks : Enqueue(t) \/ EnqueueLater(t)

\* Steps of worker w about entry i that a running process takes by itself.
EntryStep(w, i) ==
    \/ Fetch(w, i)
    \/ Dispatch(w, i)
    \/ Finish(w, i)
    \/ FlushWrites(w, i)
    \/ FlushAck(w, i)
    \/ FlushDelete(w, i)
    \/ RecoverClaim(w, i)

EntryFault(w, i) ==
    \/ FetchLost(w, i)
    \/ FlushRefused(w, i)
    \/ FlushTorn(w, i)
    \/ RecoverLost(w, i)

TrimStep(w) == TrimInfo(w) \/ TrimPending(w) \/ Trim(w)

Next ==
    \/ Client
    \/ \E i \in Ids : GrowIdle(i)
    \/ \E w \in Workers :
        \/ \E i \in Ids : EntryStep(w, i) \/ EntryFault(w, i)
        \/ \E e \in delayed : Move(w, e) \/ MoveTorn(w, e)
        \/ RecoverScan(w)
        \/ TrimStep(w)
        \/ TrimFailed(w)
        \/ Crash(w)
        \/ Start(w)

Spec == Init /\ [][Next]_vars
\* What a running fleet does by itself: every loop keeps ticking, an execution
\* ends (every lane has a backstop timeout), Redis answers, time passes, and a
\* dead process is replaced. Faults and clients are not fair.
Fairness ==
    /\ \A i \in Ids : WF_vars(GrowIdle(i))
    /\ \A w \in Workers, i \in Ids : WF_vars(EntryStep(w, i))
    /\ \A w \in Workers : WF_vars(RecoverScan(w)) /\ WF_vars(TrimStep(w)) /\ WF_vars(Start(w))
    /\ \A e \in Envelope : WF_vars(\E w \in Workers : e \in delayed /\ Move(w, e))

FairSpec == Spec /\ Fairness

-----------------------------------------------------------------------------
(* Properties *)

\* Every variable has its type; ids, faults and idle levels keep their bounds.
TypeOK ==
    /\ accepted \subseteq Tasks
    /\ log \in Seq(Envelope) /\ Len(log) <= MaxId
    /\ stream \subseteq 1 .. Len(log)
    /\ delivered \in 0 .. Len(log)
    /\ pel \subseteq Ids
    /\ count \in [Ids -> Nat]
    /\ idle \in [Ids -> 0 .. 2]
    /\ delayed \subseteq Envelope
    /\ results \subseteq Tasks /\ dlq \subseteq Tasks /\ returned \subseteq Tasks
    /\ runs \in [Ids -> Nat]
    /\ up \subseteq Workers
    /\ stage \in [Workers -> [Ids -> Stages]]
    /\ page \in [Workers -> [Ids -> Nat]]
    /\ trimAt \in [Workers -> {"idle", "info", "bound"}]
    /\ trimVal \in [Workers -> Nat]
    /\ trimmedTo \in [Workers -> Nat]
    /\ faults \in 0 .. MaxFaults

\* The outcome of t is on record where its caller looks for it: the result key
\* if the task stores results, else the dead letter or the return itself; an
\* envelope with no readable id can only be dead lettered.
Settled(t) ==
    \/ t \in results
    \/ t \notin StoreResult /\ t \in returned \cup dlq
    \/ t \in Unreadable /\ t \in dlq

\* An attempt of t later than r is still owed by the stream or the delayed set.
CarriedAbove(t, r) ==
    \/ \E i \in stream : Owed(i) /\ log[i].task = t /\ log[i].retries > r
    \/ \E e \in delayed : e.task = t /\ e.retries > r

\* A task is never lost (PROTOCOL.md section 4): whatever crashes, refusals, torn
\* pipelines and reclaims happen, an accepted task either has its outcome on
\* record or is still carried by an entry some worker will be given.
NoTaskLost == \A t \in accepted : Settled(t) \/ CarriedAbove(t, -1)

\* A pending entry is never deleted or trimmed from the stream (AckBufs,
\* acked_below): it would pin XPENDING forever and could not be re-run. This is
\* the order XACK before XDEL and XINFO before XPENDING, over all workers.
PendingInStream == pel \subseteq stream

\* Only work whose writes landed is acked (flush_batch): from the moment the own
\* writes are answered until the entry is gone, the task is settled or a later
\* attempt of it is owed, so losing this entry loses nothing.
AckCovered ==
    \A w \in Workers, i \in Ids :
        stage[w][i] \in {"ack", "del"} =>
            Settled(log[i].task) \/ CarriedAbove(log[i].task, log[i].retries)

\* One process never runs two copies of one entry (Ctx::holds_entry): while a
\* recovery page of w has entry i, w holds no copy of i.
OneCopyPerProcess ==
    \A w \in Workers, i \in Ids : page[w][i] > 0 => stage[w][i] = "none"

\* Redelivery is bounded (recover_page, redelivery_limit): an entry runs once
\* per delivery up to the limit, plus at most once for every other process that
\* read its delivery count before it passed the limit.
RunsBounded ==
    \A i \in 1 .. Len(log) :
        runs[i] <= RedeliveryLimit(log[i].task) + Cardinality(Workers)

\* The trim backstop works in spite of its trimmed_to cache: an acked entry a
\* torn flush left in the stream is removed at last.
OrphansRemoved ==
    \A i \in Ids : (i \in stream /\ ~Owed(i)) ~> (i \notin stream)

\* The attempts of t still owed, seen as the ledger sees them.
Reached ==
    [t \in Tasks |-> IF t \in accepted /\ ~Settled(t)
                     THEN {r \in 0 .. MaxRetries : CarriedAbove(t, r - 1)} ELSE {}]

Ledger == INSTANCE TaskLedger WITH settled <- {t \in accepted : Settled(t)}, reached <- Reached

\* The broker implements the ledger of accepted tasks: an unsettled task never
\* falls back to an earlier attempt and gains one retry at a time within its
\* budget, whatever copies of its entries several processes run.
ImplementsLedgerSafety == Ledger!LedgerSafety

\* The same with the ledger's liveness: every accepted task settles at last.
ImplementsLedger == Ledger!LedgerSpec
=============================================================================
