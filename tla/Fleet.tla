------------------------------- MODULE Fleet --------------------------------
(***************************************************************************)
(* The life of a worker fleet (worker/src/supervisor.rs, lib.rs,           *)
(* loops.rs).  A supervisor spawns one process per slot, restarts those    *)
(* that end, and forwards a stop signal.  A process starts up, fetches and *)
(* recovers entries behind an admission gate, and after a stop signal      *)
(* drains what it has in flight up to a deadline; a second signal a second *)
(* later forces it out.  Starts, processes and the supervisor itself may   *)
(* fail at any moment.  Entries are counted, not named.                    *)
(***************************************************************************)
EXTENDS Naturals, FiniteSets

CONSTANTS
    Slots,      \* --procs
    Busy,       \* the slots whose processes are given entries
    Permits,    \* io_sem of one process (io_concurrency)
    Streams,    \* the queues it reads
    Batch,      \* --batch
    Admission,  \* CpuPool.admission: workers * (child_threads + prefetch), with prefetch at
                \* most child_threads, so that the channel has room for all of it
    EagerCpu,   \* --eager-cpu
    MaxCold,    \* bound on the entries that wait for the cpu pool to start
    MaxAsks,    \* bound on the operator's stop signals
    MaxFaults   \* bound on failed starts, crashes and kills

ASSUME FleetAssumption ==
    /\ IsFiniteSet(Slots) /\ Slots # {}
    /\ Busy \subseteq Slots /\ EagerCpu \in BOOLEAN
    /\ Permits \in Nat \ {0} /\ Admission \in Nat \ {0}
    /\ Streams \in Nat \ {0} /\ Batch \in Nat \ {0}
    /\ MaxCold \in Nat /\ MaxAsks \in Nat /\ MaxFaults \in Nat

VARIABLES
    sup,     \* the supervisor
    proc,    \* proc[s]: the process of slot s
    asks,    \* stop signals the operator sent
    dirty,   \* a process ended without having drained in the stop (history)
    faults   \* failures so far

vars == <<sup, proc, asks, dirty, faults>>

-----------------------------------------------------------------------------
(* State *)

\* child: slots with a child; ready: slots whose respawn_at has passed; sig: a signal
\* not yet handled.
NewSupervisor == [at |-> "spawn", child |-> {}, ready |-> {}, sig |-> FALSE,
                  stopping |-> FALSE, code |-> 0]

\* stop: shutting_down; late: SECOND_SIGNAL_MIN_GAP is over; ask: entries of the read
\* under way; page, claim: recover_page and its entries; io: entries that hold an io slot
\* or wait for one; pool: the OnceCell of the cpu pool; cpu: entries admitted to it; over:
\* its overflow; cold: entries that wait for its start; early: how many did (history).
NoProcess == [at |-> "none", sig |-> FALSE, stop |-> FALSE, late |-> FALSE, ask |-> 0,
              page |-> "idle", claim |-> 0, io |-> 0, pool |-> "off", cpu |-> 0, over |-> 0,
              cold |-> 0, early |-> 0, code |-> 0]

Booting == [NoProcess EXCEPT !.at = "boot"]

\* Exit codes: 0 drained, 1 startup error, 88 drain timeout, 130 forced, and a process
\* that crashed, was wedged or was killed.
Ended(code) == [NoProcess EXCEPT !.at = "dead", !.code = code]

Alive(s) == proc[s].at \notin {"none", "dead"}

\* Past startup: the loops and the signal task run.
Up(s) == proc[s].at \in {"fetch", "read", "drain", "leave"}

\* inflight_total.
InFlight(p) == p.io + p.cpu + p.over + p.cold

Supervising == sup.at \notin {"exit", "killed"}

Fault == faults < MaxFaults /\ faults' = faults + 1

\* Process s ends.
End(s, code) ==
    /\ proc' = [proc EXCEPT ![s] = Ended(code)]
    /\ dirty' = (dirty \/ (sup.stopping /\ code # 0))

\* kill(pid, SIGTERM).
Signalled(p) == IF p.at \in {"none", "dead"} THEN p ELSE [p EXCEPT !.sig = TRUE]

-----------------------------------------------------------------------------
(* A process *)

\* real_main and run_worker up to the loops.
Start(s) ==
    /\ proc[s].at = "boot"
    /\ proc' = [proc EXCEPT ![s].at = "fetch", ![s].pool = IF EagerCpu THEN "on" ELSE "off"]
    /\ UNCHANGED <<sup, asks, dirty, faults>>

\* A bad flag, an app that does not load, no redis, a cluster, no group.
StartFails(s) ==
    /\ proc[s].at = "boot"
    /\ Fault /\ End(s, 1)
    /\ UNCHANGED <<sup, asks>>

\* Until the signal task has installed its handlers the signal kills.
StartKilled(s) ==
    /\ proc[s].at = "boot" /\ proc[s].sig
    /\ End(s, 143)
    /\ UNCHANGED <<sup, asks, faults>>

\* spawn_signal_task: the first signal starts the drain.
FirstSignal(s) ==
    /\ Up(s) /\ proc[s].sig /\ ~proc[s].stop
    /\ proc' = [proc EXCEPT ![s].sig = FALSE, ![s].stop = TRUE]
    /\ UNCHANGED <<sup, asks, dirty, faults>>

\* The same stop request, delivered twice.
RepeatSignal(s) ==
    /\ Up(s) /\ proc[s].sig /\ proc[s].stop /\ ~proc[s].late
    /\ proc' = [proc EXCEPT ![s].sig = FALSE]
    /\ UNCHANGED <<sup, asks, dirty, faults>>

\* SECOND_SIGNAL_MIN_GAP passes. Assumed: a signal is forwarded and handled faster than that.
GapOver(s) ==
    /\ Up(s) /\ proc[s].stop /\ ~proc[s].late /\ ~proc[s].sig
    /\ ~(sup.at \in {"spawn", "loop"} /\ sup.sig)
    /\ proc' = [proc EXCEPT ![s].late = TRUE]
    /\ UNCHANGED <<sup, asks, dirty, faults>>

\* Mutant of ForceExit: any second signal forces.
ForceExitAnyRepeat(s) ==
    /\ Up(s) /\ proc[s].sig /\ proc[s].stop
    /\ End(s, 130)
    /\ UNCHANGED <<sup, asks, faults>>

\* A second signal: kill_children and exit_now.
ForceExit(s) ==
    /\ Up(s) /\ proc[s].sig /\ proc[s].stop /\ proc[s].late
    /\ End(s, 130)
    /\ UNCHANGED <<sup, asks, faults>>

Lesser(m, n) == IF m <= n THEN m ELSE n

Greater(m, n) == IF m <= n THEN n ELSE m

\* available_permits: what waits for a slot is counted in io as well.
Free(p) == IF p.io <= Permits THEN Permits - p.io ELSE 0

\* Mutant of GateOpen: the cpu backlog does not pause the loops.
GateOpenIo(p, want) == Free(p) >= want

\* The gate of both loops: the io slots they want are free and there is no cpu backlog.
GateOpen(p, want) == Free(p) >= want /\ p.over = 0

\* min_permits: a slot for each stream, or all there are.
MinPermits == Lesser(Streams, Permits)

\* per_stream, the COUNT of every stream.
PerStream(free) == Greater(1, Lesser(Batch, free) \div Streams)

\* fetch_loop reads from every stream at once. A shut gate is looked at again (GATE_POLL);
\* a process that is given nothing goes on asking.
FetchGate(s) ==
    /\ s \in Busy /\ proc[s].at = "fetch" /\ ~proc[s].stop
    /\ GateOpen(proc[s], MinPermits)
    /\ proc' = [proc EXCEPT ![s].at = "read", ![s].ask = Streams * PerStream(Free(proc[s]))]
    /\ UNCHANGED <<sup, asks, dirty, faults>>

\* XREADGROUP returns entries, none, or an error; each entry is dispatched.
FetchReply(s) ==
    /\ proc[s].at = "read"
    /\ \E n \in 0 .. proc[s].ask :
        proc' = [proc EXCEPT ![s].at = "fetch", ![s].ask = 0, ![s].io = @ + n]
    /\ UNCHANGED <<sup, asks, dirty, faults>>

FetchStop(s) ==
    /\ proc[s].at = "fetch" /\ proc[s].stop
    /\ proc' = [proc EXCEPT ![s].at = "drain"]
    /\ UNCHANGED <<sup, asks, dirty, faults>>

\* recovery_loop: admission_open, then a page is scanned.
RecoveryScan(s) ==
    /\ Up(s) /\ s \in Busy /\ proc[s].page = "idle" /\ ~proc[s].stop
    /\ GateOpen(proc[s], 1)
    /\ proc' = [proc EXCEPT ![s].page = "scan", ![s].claim = Free(proc[s])]
    /\ UNCHANGED <<sup, asks, dirty, faults>>

\* XCLAIM; the reply is on its way.
RecoveryClaim(s) ==
    /\ Up(s) /\ proc[s].page = "scan"
    /\ \E n \in 0 .. proc[s].claim :
        proc' = [proc EXCEPT ![s].page = IF n = 0 THEN "idle" ELSE "claimed", ![s].claim = n]
    /\ UNCHANGED <<sup, asks, dirty, faults>>

RecoveryDispatch(s) ==
    /\ Up(s) /\ proc[s].page = "claimed"
    /\ proc' = [proc EXCEPT ![s].page = "idle", ![s].claim = 0, ![s].io = @ + proc[s].claim]
    /\ UNCHANGED <<sup, asks, dirty, faults>>

\* A dispatch on the io lanes ends and its guards are dropped.
Finish(s) ==
    /\ Up(s) /\ proc[s].io > 0
    /\ proc' = [proc EXCEPT ![s].io = @ - 1]
    /\ UNCHANGED <<sup, asks, dirty, faults>>

\* process gives up the io slot of a cpu task; run_cpu_task takes an admission slot, or
\* counts itself in overflow and waits behind those that already do.
ToCpu(s) ==
    LET admitted == proc[s].over = 0 /\ proc[s].cpu < Admission
    IN  /\ Up(s) /\ proc[s].io > 0 /\ proc[s].pool = "on"
        /\ proc' = [proc EXCEPT ![s].io = @ - 1,
                                ![s].cpu = IF admitted THEN @ + 1 ELSE @,
                                ![s].over = IF admitted THEN @ ELSE @ + 1]
        /\ UNCHANGED <<sup, asks, dirty, faults>>

\* The first cpu tasks start the pool and wait for it in neither count.
ToColdCpu(s) ==
    /\ Up(s) /\ proc[s].io > 0 /\ proc[s].pool # "on"
    /\ proc[s].cold < MaxCold
    /\ proc' = [proc EXCEPT ![s].io = @ - 1, ![s].pool = "starting", ![s].cold = @ + 1]
    /\ UNCHANGED <<sup, asks, dirty, faults>>

\* get_or_init returns to all of them.
PoolStarted(s) ==
    LET admitted == IF proc[s].cold < Admission THEN proc[s].cold ELSE Admission
    IN  /\ Up(s) /\ proc[s].pool = "starting"
        /\ proc' = [proc EXCEPT ![s].pool = "on", ![s].cold = 0, ![s].early = proc[s].cold,
                                ![s].cpu = admitted, ![s].over = proc[s].cold - admitted]
        /\ UNCHANGED <<sup, asks, dirty, faults>>

\* Mutant of CpuAdmit: the overflow is not counted down.
CpuAdmitCounted(s) ==
    /\ Up(s) /\ proc[s].over > 0 /\ proc[s].cpu < Admission
    /\ proc' = [proc EXCEPT ![s].cpu = @ + 1]
    /\ UNCHANGED <<sup, asks, dirty, faults>>

\* An admission slot goes to the next one that waits.
CpuAdmit(s) ==
    /\ Up(s) /\ proc[s].over > 0 /\ proc[s].cpu < Admission
    /\ proc' = [proc EXCEPT ![s].over = @ - 1, ![s].cpu = @ + 1]
    /\ UNCHANGED <<sup, asks, dirty, faults>>

CpuFinish(s) ==
    /\ Up(s) /\ proc[s].cpu > 0
    /\ proc' = [proc EXCEPT ![s].cpu = @ - 1]
    /\ UNCHANGED <<sup, asks, dirty, faults>>

\* The drain loop ends: nothing in flight, or the deadline is over.
DrainOver(s) ==
    /\ proc[s].at = "drain"
    /\ proc' = [proc EXCEPT ![s].at = "leave"]
    /\ UNCHANGED <<sup, asks, dirty, faults>>

\* run_worker returns: what is left decides the code.
Leave(s) ==
    /\ proc[s].at = "leave"
    /\ End(s, IF InFlight(proc[s]) > 0 THEN 88 ELSE 0)
    /\ UNCHANGED <<sup, asks, faults>>

\* A panic, a wedged event loop or a kill.
Crash(s) ==
    /\ Alive(s)
    /\ Fault /\ End(s, 137)
    /\ UNCHANGED <<sup, asks>>

-----------------------------------------------------------------------------
(* The supervisor *)

\* Mutant of FanOut: a child that still starts is passed over.
FanOutUp == [s \in Slots |-> IF s \in sup.child /\ Up(s) THEN Signalled(proc[s]) ELSE proc[s]]

\* fan_out.
FanOut == [s \in Slots |-> IF s \in sup.child THEN Signalled(proc[s]) ELSE proc[s]]

\* The first spawns, one after the other.
Spawn(s) ==
    /\ sup.at = "spawn" /\ s \notin sup.child
    /\ sup' = [sup EXCEPT !.child = @ \cup {s}, !.at = IF sup.child \cup {s} = Slots THEN "loop" ELSE @]
    /\ proc' = [proc EXCEPT ![s] = Booting]
    /\ UNCHANGED <<asks, dirty, faults>>

\* One fails: those before it are stopped and awaited.
SpawnFails ==
    /\ sup.at = "spawn"
    /\ Fault
    /\ sup' = [sup EXCEPT !.at = "abort", !.code = 1]
    /\ proc' = FanOut
    /\ UNCHANGED <<asks, dirty>>

Abort ==
    /\ sup.at = "abort"
    /\ \A s \in sup.child : ~Alive(s)
    /\ sup' = [sup EXCEPT !.at = "exit", !.child = {}]
    /\ UNCHANGED <<proc, asks, dirty, faults>>

\* SIGTERM or SIGINT in the select.
Forward ==
    /\ sup.at = "loop" /\ sup.sig
    /\ sup' = [sup EXCEPT !.sig = FALSE, !.stopping = TRUE]
    /\ proc' = FanOut
    /\ UNCHANGED <<asks, dirty, faults>>

\* The exit codes try_wait finds.
Reaped == {s \in sup.child : proc[s].at = "dead"}

\* The slots that get a child in this tick; a failed spawn is tried again later.
Due == IF sup.stopping THEN {} ELSE sup.ready \ sup.child

\* Mutant of TickCode: the last child to end decides.
TickCodeLast == IF sup.stopping /\ Reaped # {}
                THEN IF \E s \in Reaped : proc[s].code # 0 THEN 1 ELSE 0
                ELSE sup.code

TickCode == IF sup.stopping /\ (\E s \in Reaped : proc[s].code # 0) THEN 1 ELSE sup.code

\* Mutant of TickExit: the supervisor leaves once it is told to stop.
TickExitEarly(left) == sup.stopping

TickExit(left) == sup.stopping /\ left = {}

\* One tick: ended children are reaped, due slots respawned, and the fleet is done when it
\* is stopping and no child is left.
Tick(failed) ==
    LET born == Due \ failed
        left == (sup.child \ Reaped) \cup born
    IN  /\ sup.at = "loop"
        /\ failed \subseteq Due
        /\ sup' = [sup EXCEPT !.child = left, !.code = TickCode,
                              !.ready = (@ \ Reaped) \ (failed \cup born),
                              !.at = IF TickExit(left) THEN "exit" ELSE @]
        /\ proc' = [s \in Slots |-> IF s \in born THEN Booting
                                    ELSE IF s \in Reaped THEN NoProcess ELSE proc[s]]
        /\ UNCHANGED <<asks, dirty>>

TickRuns == Tick({}) /\ UNCHANGED faults

TickSpawnFails == Fault /\ \E s \in Due : Tick({s})

\* RESTART_DELAY is over.
RestartDelay(s) ==
    /\ sup.at = "loop" /\ s \notin sup.child
    /\ sup' = [sup EXCEPT !.ready = @ \cup {s}]
    /\ UNCHANGED <<proc, asks, dirty, faults>>

-----------------------------------------------------------------------------
(* The operator *)

\* A stop signal to the supervisor, or to every process of its control group.
Ask(everyone) ==
    /\ asks < MaxAsks /\ Supervising
    /\ asks' = asks + 1
    /\ sup' = [sup EXCEPT !.sig = TRUE]
    /\ proc' = IF everyone THEN [s \in Slots |-> Signalled(proc[s])] ELSE proc
    /\ UNCHANGED <<dirty, faults>>

\* The supervisor is killed: the kernel signals its children (PR_SET_PDEATHSIG).
KillSupervisor ==
    /\ Supervising
    /\ Fault
    /\ sup' = [sup EXCEPT !.at = "killed"]
    /\ proc' = [s \in Slots |-> Signalled(proc[s])]
    /\ UNCHANGED <<asks, dirty>>

-----------------------------------------------------------------------------
Init ==
    /\ sup = NewSupervisor
    /\ proc = [s \in Slots |-> NoProcess]
    /\ asks = 0 /\ dirty = FALSE /\ faults = 0

\* What the process does by itself: it starts, hears its signals and leaves.
Lifecycle(s) ==
    \/ Start(s) \/ StartKilled(s) \/ FirstSignal(s) \/ RepeatSignal(s) \/ ForceExit(s)
    \/ FetchReply(s) \/ FetchStop(s) \/ DrainOver(s) \/ Leave(s)

Work(s) ==
    \/ FetchGate(s) \/ RecoveryScan(s) \/ RecoveryClaim(s) \/ RecoveryDispatch(s)
    \/ Finish(s) \/ ToCpu(s) \/ ToColdCpu(s) \/ PoolStarted(s) \/ CpuAdmit(s) \/ CpuFinish(s)
    \/ GapOver(s)

Supervise == Abort \/ Forward \/ TickRuns \/ \E s \in Slots : Spawn(s)

Next ==
    \/ \E s \in Slots : \/ Lifecycle(s) \/ Work(s) \/ StartFails(s) \/ Crash(s)
                        \/ RestartDelay(s)
    \/ Supervise \/ SpawnFails \/ TickSpawnFails
    \/ \E everyone \in BOOLEAN : Ask(everyone)
    \/ KillSupervisor

Spec == Init /\ [][Next]_vars

\* The runtimes schedule their tasks, reads return and timers fire; io tasks need not end,
\* while a cpu task is over when its hard timeout kills the child.
Fairness ==
    /\ \A s \in Slots : /\ WF_vars(Start(s)) /\ WF_vars(StartKilled(s))
                        /\ WF_vars(FirstSignal(s)) /\ WF_vars(FetchReply(s))
                        /\ WF_vars(FetchStop(s)) /\ WF_vars(DrainOver(s)) /\ WF_vars(Leave(s))
                        /\ WF_vars(RestartDelay(s)) /\ WF_vars(Spawn(s))
                        /\ WF_vars(CpuAdmit(s)) /\ WF_vars(CpuFinish(s))
    /\ WF_vars(Abort) /\ WF_vars(Forward) /\ WF_vars(TickRuns)

FairSpec == Spec /\ Fairness

-----------------------------------------------------------------------------
(* Properties *)

Processes ==
    [at : {"none", "boot", "fetch", "read", "drain", "leave", "dead"},
     sig : BOOLEAN, stop : BOOLEAN, late : BOOLEAN, ask : Nat,
     page : {"idle", "scan", "claimed"}, claim : Nat, io : Nat,
     pool : {"off", "starting", "on"}, cpu : 0 .. Admission, over : Nat,
     cold : 0 .. MaxCold, early : 0 .. MaxCold, code : {0, 1, 88, 130, 137, 143}]

\* Every variable has its type.
TypeOK ==
    /\ sup \in [at : {"spawn", "loop", "abort", "exit", "killed"}, child : SUBSET Slots,
                ready : SUBSET Slots, sig : BOOLEAN, stopping : BOOLEAN, code : {0, 1}]
    /\ proc \in [Slots -> Processes]
    /\ asks \in 0 .. MaxAsks /\ faults \in 0 .. MaxFaults
    /\ dirty \in BOOLEAN

\* What waits in memory for an io slot or for the cpu pool (fetch_loop, admission_open,
\* run_cpu_task). The loops share the gate without a lock, and a cpu task leaves it before
\* it is counted again: a process takes at most its slots for the recovery, a page that
\* fits or one entry per stream for the fetch, and what came in before the pool was up.
AdmissionBounded ==
    \A s \in Slots :
        LET p == proc[s]
        IN  p.io + p.over + p.ask + p.claim <= Permits + Greater(Permits, Streams) + p.early

\* "A fetch MUST NOT take more entries than can start" (PROTOCOL, The read loop): a read
\* asks for no more entries than a process has io slots. True only if it has no more
\* streams than slots (FetchesFit).
FetchFits == \A s \in Slots : proc[s].ask <= Permits

\* The supervisor never leaves a process behind (supervise), whether it stopped or gave
\* up on its first spawns.
NoOrphan == sup.at = "exit" => \A s \in Slots : ~Alive(s)

\* The supervisor stopped its children because a first spawn failed (SpawnFails).
GaveUp == sup.code = 1 /\ ~sup.stopping

\* What makes the children be signalled, as often as it happened.
Requests == asks + (IF sup.at = "killed" THEN 1 ELSE 0) + (IF GaveUp THEN 1 ELSE 0)

\* One stop request never forces a process out (SECOND_SIGNAL_MIN_GAP, fan_out): exit 130
\* takes two of the operator's requests, the death of the supervisor and its giving up on
\* the first spawns. Crashes, failed starts and respawns never add to one request.
ForcedOnlyIfAskedTwice == (\E s \in Slots : proc[s].code = 130) => Requests >= 2

\* Exit 0 of the fleet means that every process that ended in the stop had drained.
ExitHonest == sup.at = "exit" /\ sup.code = 0 => ~dirty

\* A stop ends (supervise, run_worker): the supervisor and its processes are gone at last,
\* whatever still runs, respawns or crashes meanwhile.
StopEnds == sup.sig ~> (~Supervising /\ \A s \in Slots : ~Alive(s))

\* A cpu backlog pauses the fetches of every lane (fetch_loop); the pause ends, though the
\* entries already on their way join the backlog meanwhile.
PauseEnds == \A s \in Busy : proc[s].over > 0 ~> proc[s].over = 0

=============================================================================
