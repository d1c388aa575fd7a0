------------------------------ MODULE CpuPool -------------------------------
(***************************************************************************)
(* The cpu lane in fork server mode (worker/src/cpu.rs, py/cauli/_exec.py).*)
(* A slot serves one forked child at a time: it writes requests, some of   *)
(* them ahead of a free thread, and reads answers in any order.  Requests  *)
(* are armed with a hard timeout when the slot believes the child has      *)
(* started them.  Slots share a count of idle slots and prefetch only      *)
(* while it is 0.  Children, and the parent they are forked from, may die  *)
(* or hang at any moment; every timer may fire while it is set.            *)
(***************************************************************************)
EXTENDS Integers, Sequences, FiniteSets, SequencesExt

CONSTANTS
    Jobs,         \* cpu tasks of run_cpu_task
    Slots,        \* slot_loop tasks (--cpu-workers)
    Children,     \* pids of forked children, used again once a slot is done with one
    Concurrency,  \* threads per child
    Prefetch,     \* requests staged beyond them
    Recycle,      \* tasks per child, 0 for no limit
    MaxFaults,    \* bound on deaths, failed handshakes and lost answers
    None          \* no child, no job

ASSUME CpuPoolAssumption ==
    /\ IsFiniteSet(Slots) /\ IsFiniteSet(Jobs)
    /\ Concurrency \in Nat \ {0} /\ Prefetch \in Nat /\ Recycle \in Nat
    /\ MaxFaults \in Nat
    /\ None \notin Jobs \cup Children

VARIABLES
    backlog,   \* the job channel
    outcome,   \* outcome[j]: "new", "wait" or what its oneshot received
    forks,     \* fork requests not yet served
    parent,    \* the fork server parent is alive
    child,     \* child[c]: one child process and its socket
    slot,      \* slot[s]: the locals of slot_loop and serve_child
    count,     \* IdleSlots.count
    started,   \* requests a child thread has begun (history)
    faults     \* failures so far

vars == <<backlog, outcome, forks, parent, child, slot, count, started, faults>>
poolVars == <<backlog, forks, parent, count, faults>>

Capacity == 2 * Cardinality(Slots) * Concurrency

-----------------------------------------------------------------------------
(* State *)

Outcomes == {"new", "wait", "resp", "timeout", "lost"}

\* "ready", "stale": connected and waiting for a slot, alive or not; "up", "dead": served.
\* inbox: written, not yet begun; out: answers in the socket.
NoChild == [state |-> "none", inbox |-> <<>>, running |-> {}, out |-> {}]

ChildStates == {"none", "forked", "ready", "stale", "up", "dead"}

\* write: pending_write; order: the keys of pending in send order; armed: those with
\* a deadline. "top", "load", "arm" and "select" are the steps of serve_child's loop.
NoServe == [at |-> "ask", kid |-> None, idle |-> TRUE, admit |-> FALSE,
            write |-> None, order |-> <<>>, armed |-> {}, completed |-> 0]

Places == {"ask", "await", "top", "load", "arm", "select"}

Pending(s) == ToSet(slot[s].order)

Held(s) == Pending(s) \cup ({slot[s].write} \ {None})

Kid(s) == child[slot[s].kid]

\* The i-th request is one of the first n that have no deadline.
NextToArm(order, armed, i, n) ==
    /\ order[i] \notin armed
    /\ Cardinality({k \in 1 .. i : order[k] \notin armed}) <= n

\* Mutant of ArmStarted: one deadline too many.
ArmStartedTooMany(order, armed) ==
    armed \cup {order[i] : i \in {k \in 1 .. Len(order) :
                    NextToArm(order, armed, k, Concurrency + 1 - Cardinality(armed))}}

\* arm_started: the oldest requests get a deadline until Concurrency have one.
ArmStarted(order, armed) ==
    armed \cup {order[i] : i \in {k \in 1 .. Len(order) :
                    NextToArm(order, armed, k, Concurrency - Cardinality(armed))}}

Fault == faults < MaxFaults /\ faults' = faults + 1

-----------------------------------------------------------------------------
(* Callers *)

\* run_cpu_task: the bounded channel takes the job.
Send(j) ==
    /\ outcome[j] = "new"
    /\ Len(backlog) < Capacity
    /\ outcome' = [outcome EXCEPT ![j] = "wait"]
    /\ backlog' = Append(backlog, j)
    /\ UNCHANGED <<forks, parent, child, slot, count, started, faults>>

-----------------------------------------------------------------------------
(* The parent and its children *)

Ask(s) ==
    /\ slot[s].at = "ask"
    /\ slot' = [slot EXCEPT ![s].at = "await"]
    /\ forks' = forks + 1
    /\ UNCHANGED <<backlog, outcome, parent, child, count, started, faults>>

InState(states) == {c \in Children : child[c].state \in states}

\* FORK_WAIT runs out: the slot asks again, though a child may still be on its
\* way. The number on the way is bounded by the number of slots.
ForkWait(s) ==
    /\ slot[s].at = "await"
    /\ InState({"ready", "stale"}) = {}
    /\ forks + Cardinality(InState({"forked"})) < Cardinality(Slots)
    /\ slot' = [slot EXCEPT ![s].at = "ask"]
    /\ UNCHANGED <<poolVars, outcome, child, started>>

\* parent_control_loop; a refusal is retried and changes nothing.
Fork(c) ==
    /\ parent /\ forks > 0
    /\ child[c].state = "none"
    /\ forks' = forks - 1
    /\ child' = [child EXCEPT ![c].state = "forked"]
    /\ UNCHANGED <<backlog, outcome, parent, slot, count, started, faults>>

\* The control channel is found broken when a fork is asked for.
RespawnParent ==
    /\ ~parent /\ forks > 0
    /\ parent' = TRUE
    /\ UNCHANGED <<backlog, outcome, forks, child, slot, count, started, faults>>

\* read_child_ready, and the connection queued for a slot.
Handshake(c) ==
    /\ child[c].state = "forked"
    /\ child' = [child EXCEPT ![c].state = "ready"]
    /\ UNCHANGED <<poolVars, outcome, slot, started>>

HandshakeFails(c) ==
    /\ child[c].state = "forked"
    /\ Fault
    /\ child' = [child EXCEPT ![c] = NoChild]
    /\ UNCHANGED <<backlog, outcome, forks, parent, slot, count, started>>

\* What is left of a child that died: its answers stay readable.
Remains(r) ==
    CASE r.state = "ready" -> [r EXCEPT !.state = "stale"]
      [] r.state = "up" -> [r EXCEPT !.state = "dead", !.inbox = <<>>, !.running = {}]
      [] r.state = "forked" -> NoChild
      [] OTHER -> r

ChildDies(c) ==
    /\ child[c].state \in {"ready", "up"}
    /\ Fault
    /\ child' = [child EXCEPT ![c] = Remains(@)]
    /\ UNCHANGED <<backlog, outcome, forks, parent, slot, count, started>>

\* The kernel takes every child with its parent (_set_pdeathsig).
ParentDies ==
    /\ parent
    /\ Fault
    /\ parent' = FALSE
    /\ child' = [c \in Children |-> Remains(child[c])]
    /\ UNCHANGED <<backlog, outcome, forks, slot, count, started>>

\* A free thread of the child takes the next request.
Begin(c) ==
    /\ child[c].state = "up"
    /\ child[c].inbox # <<>>
    /\ Cardinality(child[c].running) < Concurrency
    /\ child' = [child EXCEPT ![c].inbox = Tail(@),
                              ![c].running = @ \cup {Head(child[c].inbox)}]
    /\ started' = started \cup {Head(child[c].inbox)}
    /\ UNCHANGED <<poolVars, outcome, slot>>

\* _safe_handle_and_respond: the task ends and its answer is written.
Answer(c, j) ==
    /\ j \in child[c].running
    /\ child' = [child EXCEPT ![c].running = @ \ {j}, ![c].out = @ \cup {j}]
    /\ UNCHANGED <<poolVars, outcome, slot, started>>

\* The same with a failed write, which the child only logs.
AnswerLost(c, j) ==
    /\ j \in child[c].running
    /\ Fault
    /\ child' = [child EXCEPT ![c].running = @ \ {j}]
    /\ UNCHANGED <<backlog, outcome, forks, parent, slot, count, started>>

-----------------------------------------------------------------------------
(* A slot *)

Connect(s) ==
    /\ slot[s].at = "await"
    /\ \E c \in InState({"ready", "stale"}) :
        /\ child' = [child EXCEPT ![c].state = IF @ = "ready" THEN "up" ELSE "dead"]
        /\ slot' = [slot EXCEPT ![s] = [NoServe EXCEPT !.at = "top", !.kid = c]]
    /\ UNCHANGED <<poolVars, outcome, started>>

Listening(r) == r.at = "select" /\ ~r.admit

\* Mutant of Recount: a slot that has room again is not counted.
RecountOneWay(s) ==
    LET now == Cardinality(Held(s)) < Concurrency
        left == slot[s].idle /\ ~now
    IN  /\ slot[s].at = "top"
        /\ count' = IF left THEN count - 1 ELSE count
        /\ slot' = [u \in Slots |->
                      IF u = s THEN [slot[s] EXCEPT !.at = "load", !.idle = now]
                      ELSE IF left /\ Listening(slot[u]) THEN [slot[u] EXCEPT !.at = "top"]
                      ELSE slot[u]]
        /\ UNCHANGED <<backlog, outcome, forks, parent, child, started, faults>>

\* The top of the loop: the slot joins or leaves the idle ones; leaving wakes those
\* that hold back.
Recount(s) ==
    LET now == Cardinality(Held(s)) < Concurrency
        left == slot[s].idle /\ ~now
    IN  /\ slot[s].at = "top"
        /\ count' = IF left THEN count - 1 ELSE IF now /\ ~slot[s].idle THEN count + 1 ELSE count
        /\ slot' = [u \in Slots |->
                      IF u = s THEN [slot[s] EXCEPT !.at = "load", !.idle = now]
                      ELSE IF left /\ Listening(slot[u]) THEN [slot[u] EXCEPT !.at = "top"]
                      ELSE slot[u]]
        /\ UNCHANGED <<backlog, outcome, forks, parent, child, started, faults>>

\* may_admit.
LoadIdle(s) ==
    LET may == slot[s].idle \/ count = 0
    IN  /\ slot[s].at = "load"
        /\ slot' = [slot EXCEPT ![s].admit = may, ![s].at = IF may THEN "select" ELSE "arm"]
        /\ UNCHANGED <<poolVars, outcome, child, started>>

\* select! creates the Notified future.
Listen(s) ==
    /\ slot[s].at = "arm"
    /\ slot' = [slot EXCEPT ![s].at = "select"]
    /\ UNCHANGED <<poolVars, outcome, child, started>>

\* Mutant of Take: staged requests do not count against the recycle budget.
TakeOverBudget(s) ==
    /\ slot[s].at = "select"
    /\ backlog # <<>>
    /\ slot[s].write = None /\ slot[s].admit
    /\ Len(slot[s].order) < Concurrency + Prefetch
    /\ Recycle = 0 \/ slot[s].completed < Recycle
    /\ backlog' = Tail(backlog)
    /\ slot' = [slot EXCEPT ![s].write = Head(backlog), ![s].at = "top"]
    /\ UNCHANGED <<outcome, forks, parent, child, count, started, faults>>

\* rx.recv: a job becomes the pending write.
Take(s) ==
    /\ slot[s].at = "select"
    /\ backlog # <<>>
    /\ slot[s].write = None /\ slot[s].admit
    /\ Len(slot[s].order) < Concurrency + Prefetch
    /\ Recycle = 0 \/ slot[s].completed + Len(slot[s].order) < Recycle
    /\ backlog' = Tail(backlog)
    /\ slot' = [slot EXCEPT ![s].write = Head(backlog), ![s].at = "top"]
    /\ UNCHANGED <<outcome, forks, parent, child, count, started, faults>>

\* The pending write is through: the request joins pending.
Write(s) ==
    LET order == Append(slot[s].order, slot[s].write)
    IN  /\ slot[s].at = "select"
        /\ slot[s].write # None
        /\ Kid(s).state = "up"
        /\ slot' = [slot EXCEPT ![s].write = None, ![s].at = "top", ![s].order = order,
                                ![s].armed = ArmStarted(order, @)]
        /\ child' = [child EXCEPT ![slot[s].kid].inbox = Append(@, slot[s].write)]
        /\ UNCHANGED <<poolVars, outcome, started>>

\* Mutant of Leave: the request being written gets no answer.
LeaveSilently(s, expired, answered) ==
    /\ outcome' = [j \in Jobs |-> IF j \in answered THEN "resp"
                                  ELSE IF j \in expired THEN "timeout"
                                  ELSE IF j \in Pending(s) THEN "lost" ELSE outcome[j]]
    /\ slot' = [slot EXCEPT ![s] = NoServe]
    /\ child' = [child EXCEPT ![slot[s].kid] = NoChild]
    /\ count' = IF slot[s].idle THEN count ELSE count + 1
    /\ UNCHANGED <<backlog, forks, parent, started, faults>>

\* serve_child after its loop: everything held is answered, the child is
\* killed if it is not gone, and the slot is counted idle again.
Leave(s, expired, answered) ==
    /\ outcome' = [j \in Jobs |-> IF j \in answered THEN "resp"
                                  ELSE IF j \in expired THEN "timeout"
                                  ELSE IF j \in Held(s) THEN "lost" ELSE outcome[j]]
    /\ slot' = [slot EXCEPT ![s] = NoServe]
    /\ child' = [child EXCEPT ![slot[s].kid] = NoChild]
    /\ count' = IF slot[s].idle THEN count ELSE count + 1
    /\ UNCHANGED <<backlog, forks, parent, started, faults>>

\* An answer is read; the child is recycled once its budget is used up and nothing
\* is pending.
Respond(s) ==
    /\ slot[s].at = "select"
    /\ \E i \in 1 .. Len(slot[s].order) :
        LET j == slot[s].order[i]
            order == RemoveAt(slot[s].order, i)
        IN
        /\ j \in Kid(s).out
        /\ IF Recycle > 0 /\ slot[s].completed + 1 >= Recycle /\ order = <<>>
           THEN Leave(s, {}, {j})
           ELSE /\ slot' = [slot EXCEPT ![s].at = "top", ![s].order = order,
                                        ![s].armed = ArmStarted(order, @ \ {j}),
                                        ![s].completed = @ + 1]
                /\ child' = [child EXCEPT ![slot[s].kid].out = @ \ {j}]
                /\ outcome' = [outcome EXCEPT ![j] = "resp"]
                /\ UNCHANGED <<poolVars, started>>

\* The connection is closed: all answers read, or a write failed.
Exited(s) ==
    /\ slot[s].at = "select"
    /\ Kid(s).state = "dead"
    /\ Kid(s).out = {} \/ slot[s].write # None
    /\ Leave(s, {}, {})

\* The first deadline is over; others may be as well.
HardTimeout(s) ==
    /\ slot[s].at = "select"
    /\ \E expired \in SUBSET slot[s].armed : expired # {} /\ Leave(s, expired, {})

\* A write stalls with nothing in flight to excuse it.
Wedged(s) ==
    /\ slot[s].at = "select"
    /\ slot[s].write # None /\ slot[s].armed = {}
    /\ Leave(s, {}, {})

-----------------------------------------------------------------------------
Init ==
    /\ backlog = <<>> /\ outcome = [j \in Jobs |-> "new"]
    /\ forks = 0 /\ parent = TRUE
    /\ child = [c \in Children |-> NoChild]
    /\ slot = [s \in Slots |-> NoServe]
    /\ count = Cardinality(Slots)
    /\ started = {} /\ faults = 0

SlotStep(s) ==
    \/ Ask(s) \/ ForkWait(s) \/ Connect(s) \/ Recount(s) \/ LoadIdle(s) \/ Listen(s)
    \/ Take(s) \/ Write(s) \/ Respond(s) \/ Exited(s) \/ HardTimeout(s) \/ Wedged(s)

ChildStep(c) ==
    \/ Handshake(c) \/ HandshakeFails(c) \/ ChildDies(c) \/ Begin(c)
    \/ \E j \in Jobs : Answer(c, j) \/ AnswerLost(c, j)

Next ==
    \/ \E j \in Jobs : Send(j)
    \/ \E s \in Slots : SlotStep(s)
    \/ \E c \in Children : Fork(c) \/ ChildStep(c)
    \/ ParentDies \/ RespawnParent

Spec == Init /\ [][Next]_vars

\* Slots, timers and the control loop run, and a child that was forked connects
\* or gives up. What a child does with its requests is up to the tasks.
Fairness ==
    /\ \A s \in Slots : WF_vars(SlotStep(s))
    /\ \A c \in Children : WF_vars(Handshake(c))
    /\ WF_vars(\E c \in Children : Fork(c))
    /\ WF_vars(RespawnParent)

FairSpec == Spec /\ Fairness

-----------------------------------------------------------------------------
(* Properties *)

\* Every variable has its type.
TypeOK ==
    /\ backlog \in Seq(Jobs) /\ Len(backlog) <= Capacity
    /\ outcome \in [Jobs -> Outcomes]
    /\ forks \in Nat /\ parent \in BOOLEAN
    /\ child \in [Children -> [state : ChildStates, inbox : Seq(Jobs),
                               running : SUBSET Jobs, out : SUBSET Jobs]]
    /\ slot \in [Slots -> [at : Places, kid : Children \cup {None}, idle : BOOLEAN,
                           admit : BOOLEAN, write : Jobs \cup {None}, order : Seq(Jobs),
                           armed : SUBSET Jobs, completed : Nat]]
    /\ count \in 0 .. Cardinality(Slots)
    /\ started \subseteq Jobs /\ faults \in 0 .. MaxFaults

\* Every request has exactly one owner until it is answered (serve_child): it is in the
\* channel once, being written by one slot, or pending at one slot; none is dropped
\* or answered twice, however its child ends.
HeldOnce ==
    \A j \in Jobs :
        LET places == {i \in 1 .. Len(backlog) : backlog[i] = j}
            owners == {s \in Slots : j \in Held(s)}
        IN Cardinality(places) + Cardinality(owners) = IF outcome[j] = "wait" THEN 1 ELSE 0

\* IdleSlots.count, kept by hand on every way through the loop, is exact.
IdleExact == count = Cardinality({s \in Slots : slot[s].idle})

\* The worker's idea of what has started agrees with the child's (arm_started): a
\* request with a deadline was begun, or the child has a free thread for it.
\* A prefetched request never times out behind a running one.
ArmedCanRun ==
    \A s \in Slots : \A j \in slot[s].armed \ started :
        Kid(s).state = "up" =>
            \E i \in 1 .. Concurrency - Cardinality(Kid(s).running) :
                i <= Len(Kid(s).inbox) /\ Kid(s).inbox[i] = j

\* Staged work drains before a recycle (serve_child): what a child has completed and
\* what it was given never exceed its budget, so none is killed with its child.
RecycleDrains ==
    Recycle > 0 => \A s \in Slots : slot[s].completed + Cardinality(Held(s)) <= Recycle

\* Every request is answered at last, whatever its child does.
AllAnswered == \A j \in Jobs : outcome[j] = "wait" ~> outcome[j] # "wait"
=============================================================================
