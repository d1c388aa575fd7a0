------------------------------ MODULE SyncPool ------------------------------
(***************************************************************************)
(* The sync io lane: run_sync_task (worker/src/exec.rs) submits jobs to    *)
(* the thread pool of worker/src/pyrt.rs.  A parked thread is woken only   *)
(* as a standby, one at a time, and a job leaves the queue only through a  *)
(* thread that holds the GIL; a job that blocks gives the GIL up and may   *)
(* never come back.  A section under the queue's mutex is one step; the    *)
(* condition variable may wake a thread for no reason.                     *)
(***************************************************************************)
EXTENDS Naturals, Sequences, FiniteSets

CONSTANTS
    Jobs,        \* sync tasks
    Threads,     \* pool threads that may ever exist
    Initial,     \* the threads started with the pool (--io-threads)
    Capacity,    \* capacity of the job queue
    MaxThreads,  \* max_threads: 4 times --io-threads in the code
    None         \* no thread, no job

ASSUME SyncPoolAssumption ==
    /\ IsFiniteSet(Threads)
    /\ Initial \subseteq Threads /\ Initial # {}
    /\ Capacity \in Nat \ {0}
    /\ MaxThreads \in Nat /\ MaxThreads >= Cardinality(Initial)
    /\ None \notin Jobs \cup Threads

VARIABLES
    queue,    \* QueueState.jobs
    parked,   \* QueueState.parked
    standby,  \* QueueState.standby
    gil,      \* the pool thread that holds the GIL
    thread,   \* thread[t]: where pool thread t is
    job,      \* job[t]: the job it took
    waiter,   \* waiter[j]: where run_sync_task of j is
    started,  \* jobs whose "started" was sent
    replied,  \* jobs whose outcome was sent
    live      \* live_threads

queueVars == <<queue, parked, standby>>
vars == <<queue, parked, standby, gil, thread, job, waiter, started, replied, live>>

\* "idle": about to wait for a job; "parked", "woken": in the condition variable;
\* "gil": waiting for the GIL; "first", "next": about to take, GIL held; "taken",
\* "start": before and after the look at resp; "run", "off": with and without the GIL.
Places == {"none", "idle", "parked", "woken", "gil", "first", "next",
           "taken", "start", "run", "off"}

\* "giveup": the queue budget is over, the receivers are still open; "report", "spawn":
\* report_hard_timeout, before and after the look at live_threads.
Waits == {"new", "queue", "giveup", "lost", "exec", "report", "spawn",
          "timeout", "done"}

-----------------------------------------------------------------------------
(* The queue *)

Moved(t, p) == [thread EXCEPT ![t] = p]

\* wake_standby, with the other changes of the step in th and sb.
WakeStandby(th, sb) ==
    IF ~sb /\ parked > 0
    THEN /\ standby' = TRUE
         /\ IF \E u \in Threads : th[u] = "parked"
            THEN \E u \in Threads : th[u] = "parked" /\ thread' = [th EXCEPT ![u] = "woken"]
            ELSE thread' = th
    ELSE standby' = sb /\ thread' = th

\* submit: refused at capacity.
Submit(j) ==
    /\ waiter[j] = "new"
    /\ IF Len(queue) >= Capacity
       THEN /\ waiter' = [waiter EXCEPT ![j] = "lost"]
            /\ UNCHANGED <<queue, standby, thread>>
       ELSE /\ waiter' = [waiter EXCEPT ![j] = "queue"]
            /\ queue' = Append(queue, j)
            /\ WakeStandby(thread, standby)
    /\ UNCHANGED <<parked, gil, job, started, replied, live>>

\* wait_for_job on entry.
EnterWait(t) ==
    /\ thread[t] = "idle"
    /\ IF queue = <<>>
       THEN parked' = parked + 1 /\ thread' = Moved(t, "parked")
       ELSE thread' = Moved(t, "gil") /\ UNCHANGED parked
    /\ UNCHANGED <<queue, standby, gil, job, waiter, started, replied, live>>

\* The condition variable returns without a notification.
SpuriousWake(t) ==
    /\ thread[t] = "parked"
    /\ thread' = Moved(t, "woken")
    /\ UNCHANGED <<queueVars, gil, job, waiter, started, replied, live>>

\* Mutant of Awake: a thread that finds nothing to do stays the standby.
AwakeKeepsStandby(t) ==
    /\ thread[t] = "woken"
    /\ IF queue = <<>>
       THEN thread' = Moved(t, "parked") /\ UNCHANGED parked
       ELSE thread' = Moved(t, "gil") /\ parked' = parked - 1
    /\ UNCHANGED <<queue, standby, gil, job, waiter, started, replied, live>>

\* wait_for_job once woken: with the queue emptied it stands down and parks again.
Awake(t) ==
    /\ thread[t] = "woken"
    /\ IF queue = <<>>
       THEN standby' = FALSE /\ thread' = Moved(t, "parked") /\ UNCHANGED parked
       ELSE parked' = parked - 1 /\ thread' = Moved(t, "gil") /\ UNCHANGED standby
    /\ UNCHANGED <<queue, gil, job, waiter, started, replied, live>>

AcquireGil(t) ==
    /\ thread[t] = "gil"
    /\ gil = None
    /\ gil' = t
    /\ thread' = Moved(t, "first")
    /\ UNCHANGED <<queueVars, job, waiter, started, replied, live>>

\* Mutant of Take: no standby is left behind.
TakeAlone(t) ==
    /\ thread[t] \in {"first", "next"}
    /\ standby' = (standby /\ thread[t] = "next")
    /\ IF queue = <<>>
       THEN gil' = None /\ thread' = Moved(t, "idle") /\ UNCHANGED <<queue, job>>
       ELSE /\ queue' = Tail(queue)
            /\ job' = [job EXCEPT ![t] = Head(queue)]
            /\ thread' = Moved(t, "taken")
            /\ UNCHANGED gil
    /\ UNCHANGED <<parked, waiter, started, replied, live>>

\* take: the first one after the GIL clears the standby; a standby is left
\* behind while work remains. With nothing to take the GIL is released.
Take(t) ==
    /\ thread[t] \in {"first", "next"}
    /\ LET sb == standby /\ thread[t] = "next" IN
       IF queue = <<>>
       THEN /\ standby' = sb
            /\ gil' = None
            /\ thread' = Moved(t, "idle")
            /\ UNCHANGED <<queue, job>>
       ELSE /\ queue' = Tail(queue)
            /\ job' = [job EXCEPT ![t] = Head(queue)]
            /\ IF Tail(queue) # <<>>
               THEN WakeStandby(Moved(t, "taken"), sb)
               ELSE standby' = sb /\ thread' = Moved(t, "taken")
            /\ UNCHANGED gil
    /\ UNCHANGED <<parked, waiter, started, replied, live>>

-----------------------------------------------------------------------------
(* A job on a thread: run_sync_job *)

\* resp.is_closed: a job nobody waits for is skipped.
Look(t) ==
    /\ thread[t] = "taken"
    /\ thread' = Moved(t, IF waiter[job[t]] = "lost" THEN "next" ELSE "start")
    /\ job' = IF waiter[job[t]] = "lost" THEN [job EXCEPT ![t] = None] ELSE job
    /\ UNCHANGED <<queueVars, gil, waiter, started, replied, live>>

\* started.send: refused once the waiter has dropped its end.
StartJob(t) ==
    /\ thread[t] = "start"
    /\ IF waiter[job[t]] = "lost"
       THEN /\ thread' = Moved(t, "next")
            /\ job' = [job EXCEPT ![t] = None]
            /\ UNCHANGED started
       ELSE /\ started' = started \cup {job[t]}
            /\ thread' = Moved(t, "run")
            /\ UNCHANGED job
    /\ UNCHANGED <<queueVars, gil, waiter, replied, live>>

\* The task blocks, or the interpreter switches threads.
ReleaseGil(t) ==
    /\ thread[t] = "run"
    /\ gil' = None
    /\ thread' = Moved(t, "off")
    /\ UNCHANGED <<queueVars, job, waiter, started, replied, live>>

Resume(t) ==
    /\ thread[t] = "off"
    /\ gil = None
    /\ gil' = t
    /\ thread' = Moved(t, "run")
    /\ UNCHANGED <<queueVars, job, waiter, started, replied, live>>

\* The task returns: resp.send, which reaches the waiter if it still listens.
Return(t) ==
    /\ thread[t] = "run"
    /\ replied' = replied \cup {job[t]}
    /\ thread' = Moved(t, "next")
    /\ job' = [job EXCEPT ![t] = None]
    /\ UNCHANGED <<queueVars, gil, waiter, started, live>>

-----------------------------------------------------------------------------
(* The waiter: run_sync_task *)

Waits1(j, from, to) ==
    /\ waiter[j] = from
    /\ waiter' = [waiter EXCEPT ![j] = to]

\* The first timeout ends with "started".
HearStarted(j) ==
    /\ j \in started
    /\ Waits1(j, "queue", "exec")
    /\ UNCHANGED <<queueVars, gil, thread, job, started, replied, live>>

\* The queue budget runs out with nothing heard, and then the receivers are
\* dropped: started_rx with the timeout, rx on return; either makes a thread
\* skip the job.
GiveUp(j) ==
    /\ \/ j \notin started /\ Waits1(j, "queue", "giveup")
       \/ Waits1(j, "giveup", "lost")
    /\ UNCHANGED <<queueVars, gil, thread, job, started, replied, live>>

HearOutcome(j) ==
    /\ j \in replied
    /\ Waits1(j, "exec", "done")
    /\ UNCHANGED <<queueVars, gil, thread, job, started, replied, live>>

\* timeout_ms runs out; the thread's result is abandoned.
HardTimeout(j) ==
    /\ j \notin replied
    /\ Waits1(j, "exec", "report")
    /\ UNCHANGED <<queueVars, gil, thread, job, started, replied, live>>

\* Mutant of SpawnCheck: no replacement below the ceiling either.
SpawnCheckNever(j) ==
    /\ Waits1(j, "report", "timeout")
    /\ UNCHANGED <<queueVars, gil, thread, job, started, replied, live>>

\* spawn_worker, the look at live_threads.
SpawnCheck(j) ==
    /\ IF live >= MaxThreads THEN Waits1(j, "report", "timeout") ELSE Waits1(j, "report", "spawn")
    /\ UNCHANGED <<queueVars, gil, thread, job, started, replied, live>>

\* spawn_worker, the increment and the new thread.
SpawnThread(j) ==
    /\ Waits1(j, "spawn", "timeout")
    /\ live' = live + 1
    /\ \E t \in Threads : thread[t] = "none" /\ thread' = Moved(t, "idle")
    /\ UNCHANGED <<queueVars, gil, job, started, replied>>

-----------------------------------------------------------------------------
Init ==
    /\ queue = <<>> /\ parked = 0 /\ standby = FALSE /\ gil = None
    /\ thread = [t \in Threads |-> IF t \in Initial THEN "idle" ELSE "none"]
    /\ job = [t \in Threads |-> None]
    /\ waiter = [j \in Jobs |-> "new"]
    /\ started = {} /\ replied = {}
    /\ live = Cardinality(Initial)

\* A thread's own steps; what a task does between them is not the pool's.
ThreadStep(t) ==
    EnterWait(t) \/ Awake(t) \/ Take(t) \/ Look(t) \/ StartJob(t)

WaiterStep(j) ==
    HearStarted(j) \/ HearOutcome(j) \/ HardTimeout(j) \/ SpawnCheck(j) \/ SpawnThread(j)

Next ==
    \/ \E t \in Threads :
        \/ ThreadStep(t) \/ AcquireGil(t) \/ SpuriousWake(t)
        \/ ReleaseGil(t) \/ Resume(t) \/ Return(t)
    \/ \E j \in Jobs : Submit(j) \/ WaiterStep(j) \/ GiveUp(j)

Spec == Init /\ [][Next]_vars

\* Threads and timers run; a task that holds the GIL is made to share it, and
\* the interpreter does not starve a thread that asks for it. A blocked task
\* need never resume, and a queue budget may be as long as it likes.
Fairness ==
    /\ \A t \in Threads : /\ WF_vars(ThreadStep(t))
                          /\ WF_vars(ReleaseGil(t) \/ Return(t))
                          /\ SF_vars(AcquireGil(t))
    /\ \A j \in Jobs : WF_vars(WaiterStep(j))

FairSpec == Spec /\ Fairness

-----------------------------------------------------------------------------
(* Properties *)

\* Every variable has its type, and the pool's counters their bounds.
TypeOK ==
    /\ queue \in Seq(Jobs) /\ Len(queue) <= Capacity
    /\ parked \in 0 .. Cardinality(Threads)
    /\ standby \in BOOLEAN
    /\ gil \in Threads \cup {None}
    /\ thread \in [Threads -> Places]
    /\ job \in [Threads -> Jobs \cup {None}]
    /\ waiter \in [Jobs -> Waits]
    /\ started \subseteq Jobs /\ replied \subseteq Jobs
    /\ live \in Nat

\* Threads on their way to take a job that no running task can hold up.
Coming == {t \in Threads : thread[t] \in {"woken", "gil", "first"}}

\* A queued job never waits behind blocked ones while a thread is parked
\* (JobQueue::take, wake_standby): a standby is on its way.
NoStrandedJob ==
    queue # <<>> /\ (\E t \in Threads : thread[t] = "parked") => Coming # {}

\* The standby flag is never left behind (wait_for_job, take): while it is set, and
\* so keeps every other thread parked, a thread that will clear it is on its way.
StandbyComing == standby => Coming # {}

\* Jobs started between the end of their queue budget and the drop of the receiver.
Raced == {j \in started : waiter[j] \in {"giveup", "lost"}}

\* Wedged tasks do not stop the pool (report_hard_timeout): the queue is drained
\* again and again, unless the pool is at its ceiling or a raced job wedged a
\* thread nobody reports.
QueueServed == []<>(queue = <<>> \/ live >= MaxThreads \/ Raced # {})
=============================================================================
