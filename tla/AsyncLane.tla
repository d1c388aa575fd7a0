----------------------------- MODULE AsyncLane ------------------------------
(***************************************************************************)
(* The async io lane (worker/src/pyrt.rs, exec.rs, shim.py) and the        *)
(* watchdog over its event loops (loops.rs).  A caller registers a slot    *)
(* and queues its task; one submitter thread hands queued tasks to the     *)
(* loops in turn; a loop turns them into coroutines and calls back; the    *)
(* caller gives up after a backstop.  A body may block its loop for good.  *)
(* The watchdog stamps every loop once a heartbeat and ends the process    *)
(* when a stamp is stale and a second signal agrees.  A task is named by   *)
(* its token; time is counted in heartbeats.                               *)
(***************************************************************************)
EXTENDS Naturals, Sequences, FiniteSets, SequencesExt, Outcomes

CONSTANTS
    MaxToken,   \* bound on the async attempts handed to run_async_task
    LoopCount,  \* --io-loops
    Permits,    \* --io-concurrency
    CapFloor,   \* _PENDING_CAP
    DrainMax,   \* DRAIN_MAX
    Window,     \* WEDGE_WINDOW_MS in heartbeats
    None        \* no answer, no task, no stamp

ASSUME AsyncLaneAssumption ==
    /\ MaxToken \in Nat
    /\ LoopCount \in Nat \ {0} /\ Permits \in Nat \ {0} /\ CapFloor \in Nat
    /\ DrainMax \in Nat \ {0} /\ Window \in Nat \ {0}
    /\ None \notin Nat

\* What the oneshot of a task can hold.
Answers == {OutcomeFromPy(ShimReply(e)) : e \in Endings} \cup {ArgsFailure, ShimFailure}

ASSUME NoneAssumption == None \notin Answers

VARIABLES
    call,       \* call[t]: where run_async_task is
    pending,    \* tokens with a completion slot
    answer,     \* answer[t]: what its oneshot holds
    channel,    \* submit_tx, jobs in order
    sub,        \* the locals of the submitter thread
    loop,       \* loop[l]: one event loop and its shim globals
    rejected,   \* async_rejected
    dog,        \* the locals of wedge_loop
    quiet,      \* quiet[l]: heartbeats since l last finished a task (history)
    draining,   \* shutting_down
    exit        \* the loop the process ended for

laneVars == <<call, pending, answer, channel, sub, rejected>>
vars == <<laneVars, loop, dog, quiet, draining, exit>>

Loops == 1 .. LoopCount

Tasks == 1 .. MaxToken

\* next_token.
NextToken == Cardinality({t \in Tasks : call[t] # "new"}) + 1

\* start_loops.
PendingCap == Max({CapFloor, Permits})

\* Ages are compared with the window only, so they stop counting past it.
Older(age, top) == IF age = None THEN None ELSE IF age < top THEN age + 1 ELSE age

\* new, registered, waiting, given up, returned.
Calls == {"new", "send", "wait", "expired", "done"}

InFlight == {t \in Tasks : call[t] \notin {"new", "done"}}

\* queue: _pending; drains: _drain callbacks scheduled; live: coroutines; block: the body
\* that holds the thread; handed, done: _hb_sub, _hb_done; sent: the age of _hb_sent;
\* ack: an _hb_ack is scheduled; lag: _hb_lag.
NewLoop == [queue |-> <<>>, drains |-> 0, live |-> {}, block |-> None, handed |-> 0, done |-> 0,
            sent |-> None, ack |-> FALSE, lag |-> 0]

\* at: submitting, or about to wake a loop; rr: _rr. With nothing left it is on the channel.
NewSubmitter == [at |-> "submit", batch |-> <<>>, failed |-> {}, rr |-> 1]

\* due: the interval has elapsed; at: asleep, stamping or scheduling on a loop, judging;
\* beats: what heartbeat returned; seen, since: LoopWatch; rejected, rejectedAge: the same names.
NoBeats == [l \in Loops |-> [lag |-> 0, outstanding |-> 0, completed |-> 0, quiet |-> 0]]

NewDog == [due |-> TRUE, at |-> "sleep", on |-> 1, beats |-> NoBeats,
           seen |-> [l \in Loops |-> 0], since |-> [l \in Loops |-> None],
           rejected |-> 0, rejectedAge |-> None]

Running == exit = None

-----------------------------------------------------------------------------
(* Callers *)

\* run_async_task under its io permit: queue_submit inserts the slot first.
Register(t) ==
    /\ Running /\ t = NextToken
    /\ Cardinality(InFlight) < Permits
    /\ call' = [call EXCEPT ![t] = "send"]
    /\ pending' = pending \cup {t}
    /\ UNCHANGED <<answer, channel, sub, rejected, loop, dog, quiet, draining, exit>>

Send(t) ==
    /\ Running /\ call[t] = "send"
    /\ call' = [call EXCEPT ![t] = "wait"]
    /\ channel' = Append(channel, t)
    /\ UNCHANGED <<pending, answer, sub, rejected, loop, dog, quiet, draining, exit>>

Receive(t) ==
    /\ Running /\ call[t] = "wait"
    /\ answer[t] # None
    /\ call' = [call EXCEPT ![t] = "done"]
    /\ UNCHANGED <<pending, answer, channel, sub, rejected, loop, dog, quiet, draining, exit>>

\* timeout_ms and the grace are over with no answer.
Backstop(t) ==
    /\ Running /\ call[t] = "wait"
    /\ answer[t] = None
    /\ call' = [call EXCEPT ![t] = "expired"]
    /\ UNCHANGED <<pending, answer, channel, sub, rejected, loop, dog, quiet, draining, exit>>

\* Mutant of Cancel: the slot is left behind.
CancelNot(t) ==
    /\ Running /\ call[t] = "expired"
    /\ call' = [call EXCEPT ![t] = "done"]
    /\ UNCHANGED <<pending, answer, channel, sub, rejected, loop, dog, quiet, draining, exit>>

\* cancel: the slot goes, whoever has it; the permit is released on return.
Cancel(t) ==
    /\ Running /\ call[t] = "expired"
    /\ call' = [call EXCEPT ![t] = "done"]
    /\ pending' = pending \ {t}
    /\ UNCHANGED <<answer, channel, sub, rejected, loop, dog, quiet, draining, exit>>

\* complete_pending, and the completion callback: only a slot that is there is answered.
Complete(t, o) ==
    /\ pending' = pending \ {t}
    /\ answer' = IF t \in pending THEN [answer EXCEPT ![t] = o] ELSE answer

-----------------------------------------------------------------------------
(* The submitter thread *)

Recv ==
    LET n == Min({DrainMax, Len(channel)}) IN
    /\ Running /\ sub.at = "submit" /\ sub.batch = <<>> /\ sub.failed = {}
    /\ channel # <<>>
    /\ sub' = [sub EXCEPT !.batch = SubSeq(channel, 1, n)]
    /\ channel' = SubSeq(channel, n + 1, Len(channel))
    /\ UNCHANGED <<call, pending, answer, rejected, loop, dog, quiet, draining, exit>>

\* The codec refuses the arguments.
RefuseArgs ==
    /\ Running /\ sub.at = "submit" /\ sub.batch # <<>>
    /\ sub' = [sub EXCEPT !.batch = Tail(@), !.failed = @ \cup {<<Head(sub.batch), ArgsFailure>>}]
    /\ UNCHANGED <<call, pending, answer, channel, rejected, loop, dog, quiet, draining, exit>>

\* Mutant of Submit: a loop is woken only when it has no coroutine.
SubmitWakesIdle ==
    LET t == Head(sub.batch)
        l == sub.rr
        full == Len(loop[l].queue) >= PendingCap
        next == [sub EXCEPT !.batch = Tail(@), !.rr = (l % LoopCount) + 1]
    IN  /\ Running /\ sub.at = "submit" /\ sub.batch # <<>>
        /\ IF full
           THEN /\ sub' = [next EXCEPT !.failed = @ \cup {<<t, ShimFailure>>}]
                /\ rejected' = rejected + 1
                /\ UNCHANGED loop
           ELSE /\ sub' = [next EXCEPT !.at = IF loop[l].handed = loop[l].done THEN "wake" ELSE "submit"]
                /\ loop' = [loop EXCEPT ![l].queue = Append(@, t), ![l].handed = @ + 1]
                /\ UNCHANGED rejected
        /\ UNCHANGED <<call, pending, answer, channel, dog, quiet, draining, exit>>

\* Mutant of Submit: the cap counts what the loop was ever handed, drained or not.
SubmitCountsHanded ==
    LET t == Head(sub.batch)
        l == sub.rr
        full == loop[l].handed >= PendingCap
        next == [sub EXCEPT !.batch = Tail(@), !.rr = (l % LoopCount) + 1]
    IN  /\ Running /\ sub.at = "submit" /\ sub.batch # <<>>
        /\ IF full
           THEN /\ sub' = [next EXCEPT !.failed = @ \cup {<<t, ShimFailure>>}]
                /\ rejected' = rejected + 1
                /\ UNCHANGED loop
           ELSE /\ sub' = [next EXCEPT !.at = IF loop[l].queue = <<>> THEN "wake" ELSE "submit"]
                /\ loop' = [loop EXCEPT ![l].queue = Append(@, t), ![l].handed = @ + 1]
                /\ UNCHANGED rejected
        /\ UNCHANGED <<call, pending, answer, channel, dog, quiet, draining, exit>>

\* submit_async under the lock of the next loop; a full queue raises AsyncQueueFull.
Submit ==
    LET t == Head(sub.batch)
        l == sub.rr
        full == Len(loop[l].queue) >= PendingCap
        next == [sub EXCEPT !.batch = Tail(@), !.rr = (l % LoopCount) + 1]
    IN  /\ Running /\ sub.at = "submit" /\ sub.batch # <<>>
        /\ IF full
           THEN /\ sub' = [next EXCEPT !.failed = @ \cup {<<t, ShimFailure>>}]
                /\ rejected' = rejected + 1
                /\ UNCHANGED loop
           ELSE /\ sub' = [next EXCEPT !.at = IF loop[l].queue = <<>> THEN "wake" ELSE "submit"]
                /\ loop' = [loop EXCEPT ![l].queue = Append(@, t), ![l].handed = @ + 1]
                /\ UNCHANGED rejected
        /\ UNCHANGED <<call, pending, answer, channel, dog, quiet, draining, exit>>

\* The loop that sub.rr has just moved past.
Woken == IF sub.rr = 1 THEN LoopCount ELSE sub.rr - 1

\* call_soon_threadsafe, after the lock.
Wake ==
    /\ Running /\ sub.at = "wake"
    /\ loop' = [loop EXCEPT ![Woken].drains = @ + 1]
    /\ sub' = [sub EXCEPT !.at = "submit"]
    /\ UNCHANGED <<call, pending, answer, channel, rejected, dog, quiet, draining, exit>>

\* The batch is through: its failures are delivered.
FailPending ==
    /\ Running /\ sub.at = "submit" /\ sub.batch = <<>>
    /\ \E f \in sub.failed :
        /\ Complete(f[1], f[2])
        /\ sub' = [sub EXCEPT !.failed = @ \ {f}]
    /\ UNCHANGED <<call, channel, rejected, loop, dog, quiet, draining, exit>>

-----------------------------------------------------------------------------
(* The event loops *)

Responsive(l) == Running /\ loop[l].block = None

\* _drain: everything queued becomes a coroutine.
Drain(l) ==
    /\ Responsive(l) /\ loop[l].drains > 0
    /\ loop' = [loop EXCEPT ![l].drains = @ - 1, ![l].queue = <<>>,
                            ![l].live = @ \cup ToSet(loop[l].queue)]
    /\ UNCHANGED <<laneVars, dog, quiet, draining, exit>>

\* A body makes a blocking call, and may return from it.
Block(l, t) ==
    /\ Responsive(l) /\ t \in loop[l].live
    /\ loop' = [loop EXCEPT ![l].block = t]
    /\ UNCHANGED <<laneVars, dog, quiet, draining, exit>>

Unblock(l) ==
    /\ Running /\ loop[l].block # None
    /\ loop' = [loop EXCEPT ![l].block = None]
    /\ UNCHANGED <<laneVars, dog, quiet, draining, exit>>

\* _arun to its end, by its body or by its deadline, and the callback.
Arun(l, t) ==
    /\ Responsive(l) /\ t \in loop[l].live
    /\ loop' = [loop EXCEPT ![l].live = @ \ {t}, ![l].done = @ + 1]
    /\ quiet' = [quiet EXCEPT ![l] = 0]
    /\ \E e \in Endings : Complete(t, OutcomeFromPy(ShimReply(e)))
    /\ UNCHANGED <<call, channel, sub, rejected, dog, draining, exit>>

\* Mutant of Ack: the stamp is not taken back.
AckKeepsStamp(l) ==
    /\ Responsive(l) /\ loop[l].ack
    /\ loop' = [loop EXCEPT ![l].ack = FALSE, ![l].lag = loop[l].sent]
    /\ UNCHANGED <<laneVars, dog, quiet, draining, exit>>

\* _hb_ack.
Ack(l) ==
    /\ Responsive(l) /\ loop[l].ack
    /\ loop' = [loop EXCEPT ![l].ack = FALSE, ![l].sent = None, ![l].lag = loop[l].sent]
    /\ UNCHANGED <<laneVars, dog, quiet, draining, exit>>

-----------------------------------------------------------------------------
(* The watchdog *)

\* A heartbeat of time. A probe may wait for the GIL; once it has it, it takes less.
Tick ==
    /\ Running
    /\ dog.at = "sleep" \/ (dog.at = "stamp" /\ dog.on = 1)
    /\ loop' = [l \in Loops |-> [loop[l] EXCEPT !.sent = Older(@, Window)]]
    /\ dog' = [dog EXCEPT !.due = TRUE, !.since = [l \in Loops |-> Older(@[l], Window)],
                          !.rejectedAge = Older(@, Window + 1)]
    /\ quiet' = [l \in Loops |-> Older(quiet[l], Window)]
    /\ UNCHANGED <<laneVars, draining, exit>>

\* A drain is not a wedge.
Probe ==
    /\ Running /\ dog.due /\ dog.at = "sleep"
    /\ dog' = [dog EXCEPT !.due = FALSE, !.at = IF draining THEN "sleep" ELSE "stamp", !.on = 1]
    /\ UNCHANGED <<laneVars, loop, quiet, draining, exit>>

Stepped(on) == IF on = LoopCount THEN [dog EXCEPT !.at = "judge", !.on = 1]
               ELSE [dog EXCEPT !.at = "stamp", !.on = on + 1]

Beat(l, lag) == [lag |-> lag, outstanding |-> loop[l].handed - loop[l].done,
                 completed |-> loop[l].done, quiet |-> quiet[l]]

\* heartbeat on a loop whose stamp is still out.
Overdue ==
    LET l == dog.on IN
    /\ Running /\ dog.at = "stamp" /\ loop[l].sent # None
    /\ dog' = [Stepped(l) EXCEPT !.beats[l] = Beat(l, loop[l].sent)]
    /\ UNCHANGED <<laneVars, loop, quiet, draining, exit>>

\* No stamp is out: the last one's latency is read and a new one is written ...
Stamp ==
    LET l == dog.on IN
    /\ Running /\ dog.at = "stamp" /\ loop[l].sent = None
    /\ loop' = [loop EXCEPT ![l].sent = 0]
    /\ dog' = [dog EXCEPT !.at = "schedule", !.beats[l].lag = loop[l].lag]
    /\ UNCHANGED <<laneVars, quiet, draining, exit>>

\* ... then handed to the loop.
Schedule ==
    LET l == dog.on IN
    /\ Running /\ dog.at = "schedule"
    /\ loop' = [loop EXCEPT ![l].ack = TRUE]
    /\ dog' = [Stepped(l) EXCEPT !.beats[l] = Beat(l, dog.beats[l].lag)]
    /\ UNCHANGED <<laneVars, quiet, draining, exit>>

\* Mutant of WedgeConfirmed: the second signal needs rejections too.
WedgeConfirmedRejecting(beat, since, rejectedAge) ==
    /\ beat.lag >= Window
    /\ beat.outstanding > 0 /\ since >= Window
    /\ rejectedAge # None /\ rejectedAge <= Window

WedgeConfirmed(beat, since, rejectedAge) ==
    /\ beat.lag >= Window
    /\ \/ beat.outstanding > 0 /\ since >= Window
       \/ rejectedAge # None /\ rejectedAge <= Window

\* Mutant of Watched: progress is not noted.
WatchedOnce ==
    [dog EXCEPT !.at = "sleep",
                !.rejected = rejected,
                !.rejectedAge = IF rejected > dog.rejected THEN 0 ELSE @,
                !.since = [l \in Loops |-> IF @[l] = None THEN 0 ELSE @[l]]]

\* The watches after a probe: rejections and completions seen since the last one.
Watched ==
    [dog EXCEPT !.at = "sleep",
                !.rejected = rejected,
                !.rejectedAge = IF rejected > dog.rejected THEN 0 ELSE @,
                !.seen = [l \in Loops |-> dog.beats[l].completed],
                !.since = [l \in Loops |-> IF dog.since[l] = None \/ dog.beats[l].completed # dog.seen[l]
                                           THEN 0 ELSE dog.since[l]]]

\* wedge_loop after a probe: the first wedged loop ends the process.
Judge ==
    LET wedged == {l \in Loops : WedgeConfirmed(dog.beats[l], Watched.since[l], Watched.rejectedAge)}
    IN  /\ Running /\ dog.at = "judge"
        /\ dog' = IF wedged = {} THEN [Watched EXCEPT !.beats = NoBeats] ELSE Watched
        /\ exit' = IF wedged = {} THEN None ELSE Min(wedged)
        /\ UNCHANGED <<laneVars, loop, quiet, draining>>

Shutdown ==
    /\ Running /\ ~draining
    /\ draining' = TRUE
    /\ UNCHANGED <<laneVars, loop, dog, quiet, exit>>

-----------------------------------------------------------------------------
Init ==
    /\ call = [t \in Tasks |-> "new"] /\ pending = {} /\ answer = [t \in Tasks |-> None]
    /\ channel = <<>> /\ sub = NewSubmitter /\ rejected = 0
    /\ loop = [l \in Loops |-> NewLoop]
    /\ dog = NewDog /\ quiet = [l \in Loops |-> 0]
    /\ draining = FALSE /\ exit = None

Caller(t) == Register(t) \/ Send(t) \/ Receive(t) \/ Backstop(t) \/ Cancel(t)

Submitter == Recv \/ RefuseArgs \/ Submit \/ Wake \/ FailPending

LoopStep(l) ==
    \/ Drain(l) \/ Unblock(l) \/ Ack(l)
    \/ \E t \in Tasks : Block(l, t) \/ Arun(l, t)

Watchdog == Probe \/ Overdue \/ Stamp \/ Schedule \/ Judge

Next ==
    \/ \E t \in Tasks : Caller(t)
    \/ Submitter
    \/ \E l \in Loops : LoopStep(l)
    \/ Watchdog \/ Tick \/ Shutdown

Spec == Init /\ [][Next]_vars

\* Time passes and the watchdog runs; what bodies do, and when a loop gets its turn, is
\* up to the tasks.
Fairness == WF_vars(Watchdog) /\ WF_vars(Tick)

FairSpec == Spec /\ Fairness

-----------------------------------------------------------------------------
(* Properties *)

Ages == 0 .. Window \cup {None}

EventLoops == [queue : Seq(Tasks), drains : Nat, live : SUBSET Tasks, block : Tasks \cup {None},
               handed : Nat, done : Nat, sent : Ages, ack : BOOLEAN, lag : Ages]

Beats == [lag : Ages, outstanding : Int, completed : Nat, quiet : 0 .. Window]

\* Every variable has its type.
TypeOK ==
    /\ call \in [Tasks -> Calls] /\ pending \subseteq Tasks
    /\ answer \in [Tasks -> Answers \cup {None}] /\ channel \in Seq(Tasks) /\ rejected \in Nat
    /\ sub \in [at : {"submit", "wake"}, batch : Seq(Tasks), failed : SUBSET (Tasks \X Answers),
                rr : Loops]
    /\ loop \in [Loops -> EventLoops]
    /\ dog \in [due : BOOLEAN, at : {"sleep", "stamp", "schedule", "judge"}, on : Loops,
                beats : [Loops -> Beats], seen : [Loops -> Nat], since : [Loops -> Ages],
                rejected : Nat, rejectedAge : 0 .. Window + 1 \cup {None}]
    /\ quiet \in [Loops -> 0 .. Window]
    /\ draining \in BOOLEAN /\ exit \in Loops \cup {None}

\* A slot lives exactly as long as its caller may need it (queue_submit, cancel and the
\* callback): a caller that waits has an answer or a slot that can still get one,
\* and no slot outlives its caller, however late the callback comes.
SlotKept ==
    \A t \in Tasks :
        /\ call[t] = "wait" /\ answer[t] = None => t \in pending
        /\ t \in pending => call[t] \in {"send", "wait", "expired"} /\ answer[t] = None

\* A queued submission is never forgotten (submit_async wakes a loop only when its queue
\* was empty): a _drain is scheduled or about to be.
NoLostWakeup ==
    \A l \in Loops :
        loop[l].queue # <<>> => loop[l].drains > 0 \/ (sub.at = "wake" /\ Woken = l)

\* A stamp that is out can be answered (heartbeat writes it before it schedules): a loop
\* that runs its callbacks is never read as stalled for good.
StampAnswerable ==
    \A l \in Loops :
        loop[l].sent # None => loop[l].ack \/ (dog.at = "schedule" /\ dog.on = l)

\* Rejections mean starvation (start_loops raises the cap to the io slots): no submission
\* is refused while every caller so far got an answer in time.
RejectedOnlyIfStarved ==
    rejected > 0 =>
        \E t \in Tasks : call[t] = "expired" \/ (call[t] = "done" /\ answer[t] = None)

\* Load alone never ends the process (wedge_confirmed): a loop it ends for had finished
\* nothing for the window when its counters were read, or submissions were refused, which
\* the watchdog found no longer than the window ago.
ProgressProtects ==
    exit # None =>
        \/ dog.beats[exit].quiet >= Window
        \/ rejected > 0 /\ dog.rejectedAge \in 0 .. Window

\* A wedge is found (wedge_loop): a loop blocked for good with work on it ends the
\* process, unless a drain begins.
WedgeFound ==
    \A l \in Loops :
        <>[](loop[l].block # None) => <>(exit # None \/ draining)
=============================================================================
