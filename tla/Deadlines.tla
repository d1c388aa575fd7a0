----------------------------- MODULE Deadlines ------------------------------
(***************************************************************************)
(* What the workers decide by time (worker/src/clock.rs, broker.rs,        *)
(* dispatch.rs, envelope.rs, backoff.rs).  Every worker reads a clock      *)
(* anchored on Redis TIME, with it drops expired envelopes, dates the      *)
(* retries it schedules and moves those another worker dated; the          *)
(* idempotency claim is a lease that Redis itself lets expire.  The        *)
(* envelopes here share one idempotency key.  One unit of time is a second.*)
(***************************************************************************)
EXTENDS Integers, FiniteSets, FiniteSetsExt

CONSTANTS
    Workers,
    Envelopes,
    Skew,         \* how far the workers' own clocks are ahead of Redis
    Lag,          \* --redis-timeout, the longest a reply is waited for
    Period,       \* sample_period
    IdempTtl,     \* idemp_ttl
    Timeout,      \* timeout_ms of every envelope
    Grace,        \* BACKSTOP_GRACE_MS
    Visibility,   \* --visibility-timeout
    Wait,         \* the longest time between a claim and the start of its body
    MaxRetries,   \* max_retries of every envelope
    BackoffBase, BackoffFactor, BackoffMax,
    MaxDelay,     \* MAX_RETRY_DELAY_MS
    Countdowns,   \* the countdowns bodies give to Retry
    ExpiresAt,    \* expires_at[e], or None
    QueueTtl,     \* QueueTtl[e]: queue_ttl_ms of the queue of e, or None
    None,
    MaxTime,      \* bound on Redis TIME
    MaxFaults     \* bound on lost replies and crashes

ASSUME DeadlinesAssumption ==
    /\ Skew \in Int /\ Lag \in Nat /\ Period \in Nat /\ Grace \in Nat /\ Wait \in Nat
    /\ Visibility \in Nat
    /\ IdempTtl \in Nat \ {0} /\ Timeout \in Nat \ {0}
    /\ MaxRetries \in Nat /\ MaxTime \in Nat /\ MaxFaults \in Nat
    /\ BackoffBase \in Nat /\ BackoffFactor \in Nat /\ BackoffMax \in Nat /\ MaxDelay \in Nat
    /\ Countdowns \subseteq Int
    /\ ExpiresAt \in [Envelopes -> Nat \cup {None}]
    /\ QueueTtl \in [Envelopes -> Nat \cup {None}]
    /\ None \notin Int \cup Envelopes

VARIABLES
    now,     \* Redis TIME
    clock,   \* clock[w]: the RedisClock of w and the TIME it waits for
    env,     \* env[e]: where envelope e is
    key,     \* cauli:idemp:{h}
    faults   \* failures so far

vars == <<now, clock, env, key, faults>>

-----------------------------------------------------------------------------
(* Clocks *)

\* anchor, base: RedisClock, once there is one; time: a reply to TIME under way; tick: the
\* sampler's next tick.
NewClock == [up |-> FALSE, anchor |-> None, base |-> 0, time |-> None, tick |-> 0]

Anchored(w) == clock[w].anchor # None

\* clock::now_ms, and ctx::now_ms before the first sample.
NowMs(w) == Max({0, IF Anchored(w) THEN clock[w].anchor + (now - clock[w].base) ELSE now + Skew})

\* Mutant of Record: the time since the clock was built is not taken off.
RecordWhole(w, redis_ms) ==
    IF Anchored(w) THEN [clock[w] EXCEPT !.anchor = redis_ms]
    ELSE [clock[w] EXCEPT !.anchor = redis_ms, !.base = now]

\* record: the first sample builds the clock, later ones move its anchor.
Record(w, redis_ms) ==
    IF Anchored(w) THEN [clock[w] EXCEPT !.anchor = redis_ms - (now - clock[w].base)]
    ELSE [clock[w] EXCEPT !.anchor = redis_ms, !.base = now]

\* sample: init and sampler_loop ask for TIME, and Redis answers ...
Sample(w) ==
    /\ clock[w].time = None /\ clock[w].tick <= now
    /\ clock' = [clock EXCEPT ![w].time = now, ![w].tick = now + Period]
    /\ UNCHANGED <<now, env, key, faults>>

\* ... the answer is recorded when it arrives. The loops start after the first.
SampleReply(w) ==
    /\ clock[w].time # None
    /\ clock' = [clock EXCEPT ![w] = [Record(w, clock[w].time) EXCEPT !.up = TRUE, !.time = None]]
    /\ UNCHANGED <<now, env, key, faults>>

\* TIME is refused, or times out: the clock runs on as it is.
SampleFails(w) ==
    /\ clock[w].time # None
    /\ faults < MaxFaults /\ faults' = faults + 1
    /\ clock' = [clock EXCEPT ![w].up = TRUE, ![w].time = None]
    /\ UNCHANGED <<now, env, key>>

-----------------------------------------------------------------------------
(* Envelopes *)

\* at: sent, on its stream, delivered to a worker, claimed, running, on the delayed set,
\* held by a dead worker, or settled; by: the worker; got: when it was delivered; since: when
\* it came where it is (both in Redis time); deadline: when it expires, if it does; sane: an
\* anchored clock dated its backoff; open: its claim failed; let: the gates have let it
\* through to a lane before.
NewEnvelope == [at |-> "new", by |-> None, got |-> 0, since |-> 0, deadline |-> None,
                retries |-> 0, fire_at |-> 0, sane |-> TRUE, open |-> FALSE, let |-> FALSE]

NoKey == [holder |-> None, until |-> 0]

\* expiry_deadline_ms of an envelope enqueued now: the earlier of expires_at and the end of
\* its queue's TTL.
ExpiryDeadline(e) ==
    LET ds == {ExpiresAt[e], IF QueueTtl[e] = None THEN None ELSE now + QueueTtl[e]} \ {None}
    IN  IF ds = {} THEN None ELSE Min(ds)

\* The deadline is over by the clock of the worker that has the envelope.
Expired(e) == env[e].deadline # None /\ NowMs(env[e].by) > env[e].deadline

\* claim_ttl_s.
ClaimTtl == Max({IdempTtl, Timeout + Grace})

\* factor.powi.
Pow(x, n) == LET pow[k \in Nat] == IF k = 0 THEN 1 ELSE x * pow[k - 1] IN pow[n]

\* Mutant of BaseBackoff: a factor below one is used.
BaseBackoffRaw(attempt) == Min({BackoffMax, BackoffBase * Pow(BackoffFactor, attempt - 1)})

\* base_backoff_ms.
BaseBackoff(attempt) == Min({BackoffMax, BackoffBase * Pow(Max({1, BackoffFactor}), attempt - 1)})

\* retry_delay_ms: the countdown c, or else compute_backoff_ms with its jitter, clamped.
RetryDelays(c, attempt) ==
    LET d == BaseBackoff(attempt)
    IN  {Min({MaxDelay, x}) : x \in IF c = None THEN ((d + 1) \div 2) .. d ELSE {Max({0, c})}}

Put(e, r) == env' = [env EXCEPT ![e] = r]

Queued(e) == [env[e] EXCEPT !.at = "queued", !.by = None, !.got = 0, !.since = 0,
                            !.fire_at = 0, !.sane = TRUE, !.open = FALSE]

\* An envelope that a worker is given: it waits for an io slot and for its gates.
Held(e, w) == [env[e] EXCEPT !.at = "held", !.by = w, !.got = now, !.since = 0, !.open = FALSE]

\* A finish has landed: only how it ended, and whether it was ever let through, matter.
Settled(e, how) == [NewEnvelope EXCEPT !.at = how, !.let = env[e].let]

Enqueue(e) ==
    /\ env[e].at = "new"
    /\ Put(e, [env[e] EXCEPT !.at = "queued", !.deadline = ExpiryDeadline(e)])
    /\ UNCHANGED <<now, clock, key, faults>>

\* XREADGROUP: the idle time of the entry counts from here.
Deliver(e, w) ==
    /\ clock[w].up /\ env[e].at = "queued"
    /\ Put(e, Held(e, w))
    /\ UNCHANGED <<now, clock, key, faults>>

\* process: the expiry gate comes first.
Expire(e) ==
    /\ env[e].at = "held"
    /\ Expired(e)
    /\ Put(e, Settled(e, "expired"))
    /\ UNCHANGED <<now, clock, key, faults>>

Free == key.holder = None

\* Mutant of IdempClaim: the holder's own claim does not extend the lease.
IdempClaimOnce(e) == IF Free THEN [holder |-> e, until |-> now + ClaimTtl] ELSE key

\* IDEMP_CLAIM_LUA: SET NX, and PEXPIRE for the holder itself.
IdempClaim(e) ==
    IF Free \/ key.holder = e THEN [holder |-> e, until |-> now + ClaimTtl] ELSE key

\* An envelope that has passed the gates.
Claimed(e) == [env[e] EXCEPT !.at = "claimed", !.since = now, !.let = TRUE]

\* Mutant of Claim: the claim comes before the expiry gate.
ClaimFirst(e) ==
    /\ env[e].at = "held"
    /\ key' = IdempClaim(e)
    /\ Put(e, IF key'.holder # e THEN Settled(e, "duplicate")
              ELSE IF Expired(e) THEN Settled(e, "expired") ELSE Claimed(e))
    /\ UNCHANGED <<now, clock, faults>>

\* process: fresh or mine again is executed, another's is a duplicate.
Claim(e) ==
    /\ env[e].at = "held"
    /\ ~Expired(e)
    /\ key' = IdempClaim(e)
    /\ Put(e, IF key'.holder = e THEN Claimed(e) ELSE Settled(e, "duplicate"))
    /\ UNCHANGED <<now, clock, faults>>

\* The script fails, or its reply is lost: the task is executed anyway.
ClaimFails(e) ==
    /\ env[e].at = "held"
    /\ ~Expired(e)
    /\ faults < MaxFaults /\ faults' = faults + 1
    /\ key' \in {key, IdempClaim(e)}
    /\ Put(e, [Claimed(e) EXCEPT !.open = TRUE])
    /\ UNCHANGED <<now, clock>>

\* The reply has arrived, and a loop, a thread or a child takes the body from its queue.
Start(e) ==
    /\ env[e].at = "claimed"
    /\ Put(e, [env[e] EXCEPT !.at = "run", !.since = now])
    /\ UNCHANGED <<now, clock, key, faults>>

Succeed(e) ==
    /\ env[e].at = "run"
    /\ Put(e, Settled(e, "done"))
    /\ UNCHANGED <<now, clock, key, faults>>

\* schedule_retry: the worker's own clock dates it.
Retry(e) ==
    LET w == env[e].by
        r == env[e].retries + 1
    IN  /\ env[e].at = "run" /\ r <= MaxRetries
        /\ \E c \in Countdowns \cup {None} : \E d \in RetryDelays(c, r) :
            Put(e, [env[e] EXCEPT !.at = "delayed", !.since = now, !.retries = r,
                                  !.fire_at = NowMs(w) + d, !.sane = Anchored(w) /\ c = None])
        /\ UNCHANGED <<now, clock, key, faults>>

\* finish: no retry is left, or the failure is not retryable.
FinalFailure(e) ==
    /\ env[e].at = "run"
    /\ Put(e, Settled(e, "dlq"))
    /\ UNCHANGED <<now, clock, key, faults>>

\* MOVER_LUA, run by any worker with its own now_ms.
Move(e, w) ==
    /\ clock[w].up /\ env[e].at = "delayed"
    /\ env[e].fire_at <= NowMs(w)
    /\ Put(e, Queued(e))
    /\ UNCHANGED <<now, clock, key, faults>>

\* The process dies with its clock; what it held stays pending. A new one takes its place.
Crash(w) ==
    /\ clock[w].up
    /\ faults < MaxFaults /\ faults' = faults + 1
    /\ clock' = [clock EXCEPT ![w] = NewClock]
    /\ env' = [e \in Envelopes |->
                IF env[e].by = w /\ env[e].at \in {"held", "claimed", "run"}
                THEN [env[e] EXCEPT !.at = "orphan"] ELSE env[e]]
    /\ UNCHANGED <<now, key>>

\* required_idle_ms, with reclaim_margin_ms.
RequiredIdle == Max({Visibility, Timeout + Grace + Max({Lag, Grace})})

\* recover_page: the entry of a dead worker has been idle for long enough. XCLAIM delivers
\* it again, straight to a dispatch.
Reclaim(e, w) ==
    /\ clock[w].up /\ env[e].at = "orphan"
    /\ now >= env[e].got + RequiredIdle
    /\ Put(e, Held(e, w))
    /\ UNCHANGED <<now, clock, key, faults>>

-----------------------------------------------------------------------------
\* How long after its start an attempt may last: the backstop of the async lane, which even
\* counts from the submit, is the longest (the other lanes end an attempt at its timeout).
Backstop == Timeout + Grace

\* Time passes, no further than the replies, the queues of the lanes and the backstop allow,
\* and Redis drops a lease that is over.
Tick ==
    /\ now < MaxTime
    /\ \A w \in Workers : clock[w].time # None => now < clock[w].time + Lag
    /\ \A e \in Envelopes : /\ env[e].at = "claimed" => now < env[e].since + Wait
                            /\ env[e].at = "run" => now < env[e].since + Backstop
    /\ now' = now + 1
    /\ key' = IF key.until <= now' THEN NoKey ELSE key
    /\ UNCHANGED <<clock, env, faults>>

Init ==
    /\ now = 0 /\ faults = 0
    /\ clock = [w \in Workers |-> NewClock]
    /\ env = [e \in Envelopes |-> NewEnvelope]
    /\ key = NoKey

Sampler(w) == Sample(w) \/ SampleReply(w) \/ SampleFails(w)

Hand(e, w) == Deliver(e, w) \/ Move(e, w) \/ Reclaim(e, w)

Gates(e) == Expire(e) \/ Claim(e) \/ ClaimFails(e)

Attempt(e) == Start(e) \/ Succeed(e) \/ Retry(e) \/ FinalFailure(e)

Next ==
    \/ \E w \in Workers : Sampler(w) \/ Crash(w) \/ \E e \in Envelopes : Hand(e, w)
    \/ \E e \in Envelopes : Enqueue(e) \/ Gates(e) \/ Attempt(e)
    \/ Tick

Spec == Init /\ [][Next]_vars

-----------------------------------------------------------------------------
(* Properties *)

\* Every variable has its type.
TypeOK ==
    /\ now \in 0 .. MaxTime /\ faults \in 0 .. MaxFaults
    /\ clock \in [Workers -> [up: BOOLEAN, anchor: Int \cup {None}, base: Nat,
                              time: Nat \cup {None}, tick: Nat]]
    /\ env \in [Envelopes ->
                [at: {"new", "queued", "held", "claimed", "run", "delayed", "orphan",
                      "done", "dlq", "expired", "duplicate"},
                 by: Workers \cup {None}, got: Nat, since: Nat, deadline: Nat \cup {None},
                 retries: 0 .. MaxRetries, fire_at: Nat,
                 sane: BOOLEAN, open: BOOLEAN, let: BOOLEAN]]
    /\ key \in [holder: Envelopes \cup {None}, until: Nat]

\* An anchored clock never runs ahead of Redis, nor behind by more than a reply may take
\* (apply_sample), however often it is sampled again: no worker drops or moves anything
\* before its time.
ClockBehind ==
    \A w \in Workers : Anchored(w) => NowMs(w) \in Max({0, now - Lag}) .. now

\* An attempt whose claim did not fail open, and whose timeout is not over: past it only the
\* backstop, or the thread that was abandoned, has still to end.
InTime(e) == env[e].at = "run" /\ ~env[e].open /\ now <= env[e].since + Timeout

\* Two envelopes with one key are never both in their time (claim_ttl_s, IDEMP_CLAIM_LUA):
\* whatever the retries, crashes and redeliveries, another attempt starts only once the one
\* before it is over or overdue. Bodies that start within the grace of their claim are
\* assumed (Wait < Grace).
Exclusive == \A e, f \in Envelopes : InTime(e) /\ InTime(f) => e = f

\* "The claim TTL is max(idemp_ttl, timeout_ms + grace) so it outlives its own execution"
\* (docs/architecture.md): an attempt that is in its time has the key. True only
\* if bodies start within the grace of their claim (LeaseOutlivesTimeout).
LeaseOutlives == \A e \in Envelopes : InTime(e) => key.holder = e

\* An envelope that expired before any attempt of it was let through does not hold the
\* key (process): those it was the same as can still run.
ExpiredBurnsNoKey ==
    \A e \in Envelopes : env[e].at = "expired" /\ ~env[e].let => key.holder # e

\* A retry is never moved early by another worker's clock (now_ms, base_backoff_ms): with
\* anchored clocks a backoff lasts half the base delay at least, less what a reply may take.
RetryNotEarly ==
    [][\A e \in Envelopes, w \in Workers :
            Move(e, w) /\ Anchored(w) /\ env[e].sane =>
                now >= env[e].since + Min({BackoffBase, BackoffMax, MaxDelay}) \div 2 - Lag]_vars
=============================================================================
